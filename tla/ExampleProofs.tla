---------------------------- MODULE ExampleProofs ----------------------------
(***************************************************************************)
(* The C example is one of the clients Acquisition allows, so that what is *)
(* proved of every client holds of it; what it visits and writes, and what *)
(* it leaves behind at its end.  For every command line, pool, geometry    *)
(* and number of boards.                                                   *)
(***************************************************************************)
EXTENDS ExampleClient, StreamProofs

(* Before the acquisition there is none to return from, and when main has  *)
(* ended by itself no thread is left and no call is open.                  *)
EndInv ==
  /\ mpc \in {"parse", "connect", "setAll"} => apc = "idle" /\ ~threadRunning
  /\ exit \in {"ok", "failed"} => apc = "idle" /\ ~threadRunning
  /\ mpc = "ended" => ~Running

LEMMA InitEnd == ExampleInit => Init /\ EndInv
BY DEF ExampleInit, Init, EndInv, Running

(* Each action of main and of the quit thread is a call of the library, a  *)
(* step inside one, or leaves the library alone; and it keeps EndInv.      *)
LEMMA MainStep ==
  ASSUME EndInv, Running, Main \/ Quit
  PROVE  [Next]_vars /\ EndInv'
<1> USE DEF EndInv, Running, End, MainGoto, flagVars, apiVars
<1>1. ASSUME UNCHANGED libraryVars
      PROVE  [Next]_vars /\ UNCHANGED <<apc, threadRunning>>
  BY <1>1 DEF libraryVars, vars
<1>2. CASE Parse
  <2>1. UNCHANGED libraryVars BY <1>2 DEF Parse
  <2>2. [Next]_vars /\ UNCHANGED <<apc, threadRunning>> BY <1>1, <2>1
  <2>3. mpc = "parse" /\ ~threadRunning BY <1>2 DEF Parse
  <2>4. \/ mpc' = "ended" /\ exit' \in {"ok", "failed", "aborted"}
        \/ mpc' = "connect" /\ exit' = exit
    BY <1>2 DEF Parse
  <2>5. QED BY <2>2, <2>3, <2>4
<1>3. CASE Connect
  <2>1. /\ UNCHANGED libraryVars /\ exit' = exit
        /\ mpc = "connect" /\ mpc' \in {"setAll", "connect"}
    BY <1>3 DEF Connect
  <2>2. QED BY <1>1, <2>1
<1>4. CASE Configure
  <2>1. UNCHANGED libraryVars \/ \E c \in Configs : SetAll(c) BY <1>4 DEF Configure
  <2>2. [Next]_vars BY <1>1, <2>1 DEF Next, ApiCall
  <2>3. /\ mpc = "setAll"
        /\ \/ mpc' = "ended" /\ exit' \in {"aborted", "failed"}
           \/ mpc' = "acquire" /\ exit' = exit
    BY <1>4 DEF Configure
  <2>4. UNCHANGED <<apc, threadRunning>> BY <1>1, <2>1 DEF SetAll
  <2>5. QED BY <2>2, <2>3, <2>4
<1>5. CASE CallAcquire
  <2>1. Acquire \/ UNCHANGED libraryVars BY <1>5 DEF CallAcquire
  <2>2. mpc' = "loop" /\ exit' = exit BY <1>5 DEF CallAcquire
  <2>3. QED BY <1>1, <2>1, <2>2 DEF Next, ApiCall
<1>6. CASE LoopTest
  <2>1. UNCHANGED libraryVars /\ mpc' \in {"wait", "stop"} /\ exit' = exit
    BY <1>6 DEF LoopTest
  <2>2. QED BY <1>1, <2>1
<1>7. CASE CallWait
  <2>1. WaitForAcquisition \/ UNCHANGED libraryVars BY <1>7 DEF CallWait
  <2>2. mpc' \in {"result", "tick"} /\ exit' = exit BY <1>7 DEF CallWait
  <2>3. QED BY <1>1, <2>1, <2>2 DEF Next, ApiCall
<1>8. CASE WaitReturns
  <2>1. PostForApp /\ mpc' = "tick" /\ exit' = exit BY <1>8 DEF WaitReturns
  <2>2. QED BY <2>1 DEF Next, ApiStep
<1>9. CASE Tick
  <2>1. UNCHANGED libraryVars /\ mpc' \in {"loop", "stop"} /\ exit' = exit
    BY <1>9 DEF Tick
  <2>2. QED BY <1>1, <2>1
<1>10. CASE CallStop
  <2>1. Stop /\ mpc' = "disconnect" /\ exit' = exit BY <1>10 DEF CallStop
  <2>2. QED BY <2>1 DEF Next, ApiCall
<1>11. CASE CallDisconnect
  <2>1. CASE threadRunning
    <3>1. Stop /\ mpc' = "disconnect" /\ exit' = exit
      BY <1>11, <2>1 DEF CallDisconnect
    <3>2. QED BY <3>1 DEF Next, ApiCall
  <2>2. CASE ~threadRunning
    <3>1. UNCHANGED libraryVars /\ mpc' = "ended" /\ exit' = "ok" /\ apc = "idle"
      BY <1>11, <2>2 DEF CallDisconnect
    <3>2. QED BY <1>1, <2>2, <3>1
  <2>3. QED BY <2>1, <2>2
<1>12. CASE InLibrary
  <2>1. ApiStep /\ UNCHANGED <<mpc, exit>> BY <1>12 DEF InLibrary, mainVars
  <2>2. apc # "idle"
    BY <2>1 DEF ApiStep, PostInitial, StartAcquire, AcquireReturn, ProcessForApp,
                PushForApp, PostForApp, JoinRx, AbortOnStop, ClearQueues
  <2>3. QED BY <2>1, <2>2 DEF Next
<1>13. CASE Quit
  <2>1. /\ UNCHANGED libraryVars /\ mpc' = "ended"
        /\ exit' = IF threadRunning THEN "aborted" ELSE "quit"
    BY <1>13 DEF Quit
  <2>2. QED BY <1>1, <2>1
<1>14. QED
  BY <1>2, <1>3, <1>4, <1>5, <1>6, <1>7, <1>8, <1>9, <1>10, <1>11, <1>12, <1>13 DEF Main

(* rx changes neither where the API thread is nor threadRunning. *)
LEMMA RxBeside == ASSUME Rx PROVE UNCHANGED <<apc, threadRunning>>
BY DEF Rx, RxReady, RxLoop, RxPop, RxPopEmpty, RxCheckStop, RxWait, RxRoute, RxQueue,
       RxProcess, RxSend, RxRepost, RxPost, RxCount, RxAbort, apiVars, flagVars

LEMMA ExampleStep ==
  EndInv /\ [ExampleNext]_exampleVars => [Next]_vars /\ EndInv'
<1> SUFFICES ASSUME EndInv, [ExampleNext]_exampleVars PROVE [Next]_vars /\ EndInv'
  OBVIOUS
<1>1. CASE Running /\ (Main \/ Quit) BY <1>1, MainStep
<1>2. CASE Beside(Rx)
  <2>1. UNCHANGED <<apc, threadRunning, mpc, exit>>
    BY <1>2, RxBeside DEF Beside, mainVars
  <2>2. Next BY <1>2 DEF Beside, Next
  <2>3. QED BY <2>1, <2>2 DEF EndInv, Running
<1>3. CASE Beside(BoardStep)
  <2>1. UNCHANGED <<apc, threadRunning, mpc, exit>>
    BY <1>3 DEF Beside, mainVars, BoardStep, apiVars, flagVars
  <2>2. Next BY <1>3 DEF Beside, Next
  <2>3. QED BY <2>1, <2>2 DEF EndInv, Running
<1>4. CASE UNCHANGED exampleVars
  <2>1. UNCHANGED libraryVars /\ UNCHANGED <<mpc, exit>>
    BY <1>4 DEF exampleVars, mainVars
  <2>2. UNCHANGED <<apc, threadRunning>> BY <2>1 DEF libraryVars, apiVars, flagVars
  <2>3. UNCHANGED vars BY <2>1 DEF libraryVars, vars
  <2>4. QED BY <2>1, <2>2, <2>3 DEF EndInv, Running
<1>5. QED BY <1>1, <1>2, <1>3, <1>4 DEF ExampleNext

LEMMA ExampleRuns == ExampleSpec => Spec /\ []EndInv
BY InitEnd, ExampleStep, PTL DEF ExampleSpec, Spec

(* The example implements the specification of the library and its client: *)
(* with main, the quit thread and every failure on the way, it makes only  *)
(* calls that Acquisition allows, in an order it allows, so that the       *)
(* theorems on the board's memory and on the buffers hold of the example.  *)
THEOREM ExampleIsAClient == ExampleSpec => Spec
BY ExampleRuns, PTL

-----------------------------------------------------------------------------
(* How the process ends.                                                   *)

(* A process that has ended does nothing more, and only main and the quit  *)
(* thread decide how it ends.                                              *)
LEMMA OnlyMainEnds ==
  ASSUME [ExampleNext]_exampleVars
  PROVE  \/ Running /\ (Main \/ Quit)
         \/ UNCHANGED <<mainVars, infoVars, threadRunning>>
<1>1. CASE Beside(Rx) BY <1>1, RxBeside DEF Beside
<1>2. CASE Beside(BoardStep) BY <1>2 DEF Beside, BoardStep, flagVars
<1>3. CASE UNCHANGED exampleVars BY <1>3 DEF exampleVars, libraryVars, flagVars
<1>4. QED BY <1>1, <1>2, <1>3 DEF ExampleNext

-----------------------------------------------------------------------------
(* connectBoard.                                                           *)

(* The walk over the systems: nothing has been looked at until a system    *)
(* answers; then every board of it up to the current one, whose LED is on  *)
(* in odd phases only.                                                     *)
Answered(s, n) == described = {s} /\ visited = {s} \X (1..n)
InfoInv ==
  /\ led \cup stuck \subseteq SystemIds \X BoardIds
  /\ flashes \in 0..LedCommands
  /\ systems \in 0..MaxSystems
  /\ infopc \in {"idle", "system", "board", "led", "done"}
  /\ infopc \in {"idle", "system"} => described = {} /\ visited = {} /\ led \subseteq stuck
  /\ infopc \in {"system", "board", "led"} => systemId \in 1..systems
  /\ infopc \in {"board", "led"} => boards \in BoardIds /\ boardId \in 1..boards
  /\ infopc = "board" => Answered(systemId, boardId - 1) /\ led \subseteq stuck
  /\ infopc = "led" =>
       /\ Answered(systemId, boardId) /\ flashes \in 0..(LedCommands - 1)
       /\ led \ {<<systemId, boardId>>} \subseteq stuck
       /\ flashes % 2 = 0 => led \subseteq stuck
  /\ infopc = "done" =>
       /\ led \subseteq stuck
       /\ \/ described = {} /\ visited = {}
          \/ \E s \in SystemIds : Answered(s, boards) /\ boards \in BoardIds

LEMMA InitInfo == InfoInit => InfoInv
BY InstallationAssumption DEF InfoInit, InfoInv, LedCommands

(* One more board has been looked at. *)
LEMMA NextBoard ==
  ASSUME NEW s, NEW n \in Nat \ {0}
  PROVE  ({s} \X (1..(n - 1))) \cup {<<s, n>>} = {s} \X (1..n)
<1>1. 1..n = (1..(n - 1)) \cup {n} OBVIOUS
<1>2. QED BY <1>1

(* An LED is only ever switched on in an even phase, and switched off or   *)
(* noted as stuck in an odd one.                                           *)
LEMMA Phases == \A n \in 0..3 : /\ n % 2 = 0 => (n + 1) % 2 # 0
                                /\ n + 1 = 4 => n % 2 # 0
OBVIOUS

LEMMA InfoKept == ASSUME InfoInv, InfoStep PROVE InfoInv'
<1> USE DEF InfoInv, Answered
<1>a. MaxSystems \in Nat /\ MaxBoards \in Nat BY InstallationAssumption
<1>1. CASE SysInfo
  BY <1>a, <1>1 DEF SysInfo
<1>2. CASE DisplaySystemInfo
  <2>1. /\ infopc = "system" /\ described = {} /\ visited = {} /\ led \subseteq stuck
        /\ systemId \in 1..systems /\ systems' = systems
        /\ UNCHANGED <<flashes, led, stuck, visited>>
    BY <1>2 DEF DisplaySystemInfo
  <2>2. CASE SystemReturns(-1) /\ UNCHANGED <<boards, boardId, described>>
    BY <1>a, <2>1, <2>2 DEF SystemReturns
  <2>3. CASE /\ boards' \in BoardIds /\ boardId' = 1 /\ infopc' = "board"
             /\ described' = described \cup {systemId} /\ UNCHANGED systemId
    <3>1. described' = {systemId'} /\ visited' = {} /\ 1..(boardId' - 1) = {}
      BY <2>1, <2>3
    <3>2. Answered(systemId, boardId - 1)' BY <3>1
    <3>3. boardId' \in 1..boards' BY <1>a, <2>3 DEF BoardIds
    <3>4. QED BY <2>1, <2>3, <3>2, <3>3
  <2>4. QED BY <1>2, <2>2, <2>3 DEF DisplaySystemInfo
<1>3. CASE DisplayBoardInfo
  <2>1. /\ infopc = "board" /\ boards \in BoardIds /\ boardId \in 1..boards
        /\ led \subseteq stuck /\ led \cup stuck \subseteq SystemIds \X BoardIds
        /\ systemId \in 1..systems /\ flashes' = 0
        /\ UNCHANGED <<systems, boards, led, stuck, described>>
    BY <1>3 DEF DisplayBoardInfo
  <2>2. visited' = {systemId} \X (1..boardId) /\ described' = {systemId}
    BY <1>3, <2>1, <1>a, NextBoard DEF DisplayBoardInfo, BoardIds
  <2>3. led' \cup stuck' \subseteq SystemIds \X BoardIds BY <2>1
  <2>4. CASE BoardReturns(-1)
    BY <1>a, <2>1, <2>2, <2>3, <2>4
       DEF BoardReturns, SystemReturns, LedCommands, SystemIds, BoardIds
  <2>5. CASE infopc' = "led" /\ UNCHANGED <<systemId, boardId>>
    BY <1>a, <2>1, <2>2, <2>3, <2>5 DEF LedCommands, BoardIds
  <2>6. QED BY <1>3, <2>4, <2>5 DEF DisplayBoardInfo
<1>4. CASE FlashLed
  <2>1. /\ infopc = "led" /\ boards \in BoardIds /\ boardId \in 1..boards
        /\ Answered(systemId, boardId) /\ flashes \in 0..3
        /\ systemId \in 1..systems /\ flashes' = flashes + 1
        /\ UNCHANGED <<systems, boards, described, visited>>
    BY <1>4 DEF FlashLed, LedCommands
  <2>2. <<systemId, boardId>> \in SystemIds \X BoardIds
    BY <1>a, <2>1 DEF BoardIds, SystemIds, InfoInv
  <2>3. led' \cup stuck' \subseteq SystemIds \X BoardIds BY <1>4, <2>2 DEF FlashLed
  <2>4. led' \ {<<systemId, boardId>>} \subseteq stuck' BY <1>4 DEF FlashLed
  <2>5. flashes % 2 # 0 => led' \subseteq stuck' BY <1>4, <2>4 DEF FlashLed
  <2>6. flashes' % 2 = 0 => led' \subseteq stuck' BY <2>1, <2>5, Phases
  <2>7. CASE flashes' < LedCommands
    <3>1. UNCHANGED <<infopc, systemId, boardId>> BY <1>4, <2>7 DEF FlashLed
    <3>2. QED BY <2>1, <2>3, <2>4, <2>6, <2>7, <3>1 DEF LedCommands
  <2>8. CASE ~(flashes' < LedCommands)
    <3>1. flashes' = 4 BY <2>1, <2>8 DEF LedCommands
    <3>2. led' \subseteq stuck' BY <2>1, <2>5, <3>1, Phases
    <3>3. BoardReturns(-1)
      BY <1>4, <2>8 DEF FlashLed, DisplayBoardInfoReturns, FlashLedReturns
    <3>4. QED
      BY <1>a, <2>1, <2>3, <3>1, <3>2, <3>3
         DEF BoardReturns, SystemReturns, LedCommands, SystemIds, BoardIds
  <2>9. QED BY <2>7, <2>8
<1>5. QED BY <1>1, <1>2, <1>3, <1>4 DEF InfoStep

(* main goes on when connectBoard has returned; only "q" ends it within.   *)
WalkInv ==
  /\ mpc \notin {"connect", "ended"} => infopc \in {"idle", "done"}
  /\ exit \in {"ok", "failed"} => mpc = "ended" /\ infopc \in {"idle", "done"}

LEMMA WalkStep ==
  ASSUME WalkInv, [ExampleNext]_exampleVars PROVE WalkInv'
<1> USE DEF WalkInv, End, MainGoto, infoVars, mainVars, Running
<1>1. CASE UNCHANGED <<mainVars, infoVars, threadRunning>> BY <1>1
<1>2. CASE Running /\ (Main \/ Quit)
  <2>1. CASE Parse BY <1>2, <2>1 DEF Parse
  <2>2. CASE Connect BY <1>2, <2>2 DEF Connect
  <2>3. CASE Configure BY <1>2, <2>3 DEF Configure, InfoForgotten
  <2>4. CASE CallDisconnect \/ CallStop BY <1>2, <2>4 DEF CallDisconnect, CallStop
  <2>5. CASE Quit BY <1>2, <2>5 DEF Quit
  <2>6. CASE CallAcquire \/ LoopTest \/ CallWait \/ WaitReturns \/ Tick \/ InLibrary
    BY <1>2, <2>6 DEF CallAcquire, LoopTest, CallWait, WaitReturns, Tick, InLibrary
  <2>7. QED BY <1>2, <2>1, <2>2, <2>3, <2>4, <2>5, <2>6 DEF Main
<1>3. QED BY <1>1, <1>2, OnlyMainEnds

LEMMA InfoExampleStep ==
  ASSUME InfoInv, WalkInv, [ExampleNext]_exampleVars PROVE InfoInv'
<1>1. ASSUME UNCHANGED infoVars PROVE InfoInv'
  BY <1>1 DEF InfoInv, Answered, infoVars
<1>2. CASE Connect BY <1>2, InfoKept DEF Connect
<1>3. CASE Configure
  <2>1. led \subseteq stuck BY <1>3 DEF Configure, WalkInv, InfoInv
  <2>2. QED
    BY <1>3, <2>1, InstallationAssumption
       DEF Configure, InfoForgotten, InfoInv, Answered, LedCommands
<1>4. CASE \/ Parse \/ CallAcquire \/ LoopTest \/ CallWait \/ WaitReturns \/ Tick
           \/ CallStop \/ CallDisconnect \/ InLibrary \/ Quit
  BY <1>1, <1>4 DEF Parse, CallAcquire, LoopTest, CallWait, WaitReturns, Tick, CallStop,
     CallDisconnect, InLibrary, Quit, MainGoto
<1>5. QED BY <1>1, <1>2, <1>3, <1>4, OnlyMainEnds DEF Main

LEMMA InfoHolds == ExampleSpec => [](InfoInv /\ WalkInv)
<1>1. ExampleInit => InfoInv BY InitInfo DEF ExampleInit
<1>2. ExampleInit => WalkInv BY DEF ExampleInit, InfoInit, WalkInv
<1>3. QED BY <1>1, <1>2, InfoExampleStep, WalkStep, PTL DEF ExampleSpec

(* main leaves no thread, buffer, queue entry or avoidable light behind    *)
(* when it ends by itself, also when the board was not there, or acquire   *)
(* was refused, or rx failed (apiExample.cpp:152, 184-191), for every      *)
(* command line, pool, geometry and installation: a process that "q" ends  *)
(* or that aborts is another matter.                                       *)
THEOREM ExampleLeavesNothing ==
  ASSUME "abort" \notin Faults PROVE ExampleSpec => []CleanExit
<1>1. EndInv /\ CleanWhenStopped /\ InfoInv /\ WalkInv => CleanExit
  BY DEF EndInv, CleanWhenStopped, InfoInv, WalkInv, CleanExit
<1>2. QED BY <1>1, ExampleRuns, CleanAfterStop, InfoHolds, PTL

(* Every board of the system that answered is looked at, for every number  *)
(* of systems and boards and every failing query (libAlazar.cpp:882-903,   *)
(* whose loops go on at -1 and would end at 0).                            *)
THEOREM BoardsVisited == ExampleSpec => []EveryBoardVisited
<1>1. InfoInv => EveryBoardVisited
  <2>1. SUFFICES ASSUME InfoInv, infopc \in {"system", "done"}
                 PROVE  visited = IF described = {} THEN {} ELSE described \X (1..boards)
    BY DEF EveryBoardVisited
  <2>2. CASE described = {} /\ visited = {} BY <2>2
  <2>3. CASE \E s \in SystemIds : Answered(s, boards)
    BY <2>3 DEF Answered
  <2>4. QED BY <2>1, <2>2, <2>3 DEF InfoInv
<1>2. QED BY <1>1, InfoHolds, PTL

(* connectBoard leaves no LED on but one that the driver refused to turn   *)
(* off, whichever commands fail (libAlazar.cpp:994-1018).                  *)
THEOREM LedsTurnedOff == ExampleSpec => []LedsOff
<1>1. InfoInv => LedsOff BY DEF InfoInv, LedsOff
<1>2. QED BY <1>1, InfoHolds, PTL
-----------------------------------------------------------------------------
(* The client's own variables.                                             *)

Counting == {"parse", "connect", "setAll", "acquire", "loop", "wait", "result", "tick"}
ClientTypes ==
  /\ mpc \in Counting \cup {"stop", "disconnect", "ended"}
  /\ exit \in {"running", "ok", "failed", "quit", "aborted"} /\ (mpc = "ended") = ~Running
  /\ setup \in {"sound", "risky", "fatal"} /\ listening \in BOOLEAN /\ timeout \in Nat
  /\ file \in Seq(Nat \cup {NoData, Torn}) /\ count = Len(file)
  /\ buffer_timeout \in 0..(timeout + 2)
  /\ mpc \in Counting => buffer_timeout <= timeout + 1
  /\ mpc = "parse" => argv \in CommandLines /\ buffer_timeout = 0

LEMMA InitClient == ExampleInit => ClientTypes
<1> SUFFICES ASSUME ExampleInit PROVE ClientTypes OBVIOUS
<1>1. file \in Seq(Nat \cup {NoData, Torn}) /\ Len(file) = 0 /\ count = 0
  BY DEF ExampleInit
<1>2. /\ timeout \in Nat /\ buffer_timeout = 0
      /\ buffer_timeout \in 0..(timeout + 2) /\ buffer_timeout <= timeout + 1
  BY ExampleAssumption DEF ExampleInit
<1>3. QED BY <1>1, <1>2 DEF ExampleInit, ClientTypes, Counting, Running

LEMMA ClientStep ==
  ASSUME TypeInv, ClientTypes, [ExampleNext]_exampleVars PROVE ClientTypes'
<1> USE DEF ClientTypes, Counting, Running, End, MainGoto
<1>1. CASE UNCHANGED mainVars BY <1>1 DEF mainVars
<1>2. CASE Running /\ (Main \/ Quit)
  <2>1. CASE Parse
    <3>1. CASE mpc' = "connect"
      <4>1. /\ Meaning(FALSE, argv).verdict = "ok" /\ argv \in CommandLines
            /\ timeout' = IF Given(Meaning(FALSE, argv), TIMEOUT) = {} THEN DefaultTimeout
                          ELSE Atoi[ArgumentOf(Meaning(FALSE, argv), TIMEOUT)]
            /\ setup' = Setup(Meaning(FALSE, argv)) /\ listening' = TRUE
            /\ exit' = exit
        BY <2>1, <3>1 DEF Parse
      <4>2. timeout' \in Nat BY <4>1, ExampleAssumption, TimeoutAssumption
      <4>3. setup' \in {"sound", "risky", "fatal"}
        BY <4>1 DEF Setup, SEGMENTS, WAVEFORMS, ROUNDROBINS, RECORDLENGTH, SAMPLINGRATE
      <4>4. UNCHANGED <<count, file>> /\ buffer_timeout' = 0 BY <2>1 DEF Parse
      <4>5. buffer_timeout' \in 0..(timeout' + 2) /\ buffer_timeout' <= timeout' + 1
        <5>1. \A n \in Nat : 0 \in 0..(n + 2) /\ 0 <= n + 1 OBVIOUS
        <5>2. QED BY <4>2, <4>4, <5>1, Zenon
      <4>6. QED BY <1>2, <3>1, <4>1, <4>2, <4>3, <4>4, <4>5
    <3>2. CASE mpc' = "ended"
      <4>1. /\ exit' \in {"ok", "failed", "aborted"}
            /\ UNCHANGED <<setup, timeout, listening, count, buffer_timeout, file>>
        BY <2>1, <3>2 DEF Parse
      <4>2. QED BY <3>2, <4>1
    <3>3. mpc' \in {"connect", "ended"} BY <2>1 DEF Parse
    <3>4. QED BY <3>1, <3>2, <3>3
  <2>2. CASE WaitReturns
    <3>1. /\ mpc = "result" /\ mpc' = "tick"
          /\ UNCHANGED <<argv, setup, timeout, listening, exit>>
      BY <2>2 DEF WaitReturns
    <3>2. CASE UNCHANGED <<count, buffer_timeout, file>> BY <3>1, <3>2
    <3>3. CASE /\ count' = count + 1 /\ buffer_timeout' = 0
               /\ file' = Append(file, RoundOf(appSlots))
      <4>1. RoundOf(appSlots) \in Nat \cup {NoData, Torn}
        BY RoundType DEF TypeInv, TypeOK
      <4>2. file' \in Seq(Nat \cup {NoData, Torn}) /\ Len(file') = Len(file) + 1
        BY <3>3, <4>1, AppendProperties
      <4>3. QED BY <3>1, <3>3, <4>2
    <3>4. QED BY <2>2, <3>2, <3>3 DEF WaitReturns
  <2>3. CASE Tick BY <1>2, <2>3 DEF Tick
  <2>4. CASE Connect \/ Configure \/ LoopTest \/ CallWait
    BY <1>2, <2>4 DEF Connect, Configure, LoopTest, CallWait
  <2>5. CASE CallAcquire \/ CallStop \/ CallDisconnect \/ Quit
    BY <1>2, <2>5 DEF CallAcquire, CallStop, CallDisconnect, Quit
  <2>6. CASE InLibrary BY <1>1, <2>6 DEF InLibrary
  <2>7. QED BY <1>2, <2>1, <2>2, <2>3, <2>4, <2>5, <2>6 DEF Main
<1>3. QED BY <1>1, <1>2, OnlyMainEnds

LEMMA ClientHolds == ExampleSpec => [](TypeInv /\ ClientTypes)
<1>1. ExampleInit => ClientTypes BY InitClient
<1>2. TypeInv /\ ClientTypes /\ [ExampleNext]_exampleVars => ClientTypes'
  BY ClientStep
<1>3. QED BY <1>1, <1>2, ExampleIsAClient, TypeInvHolds, PTL DEF ExampleSpec

(* The client's variables keep their types for every command line: its     *)
(* count is the number of results written and its time-out counter goes at *)
(* most two beyond the time-out it was given.                              *)
THEOREM ClientTypeCorrect == ExampleSpec => []ExampleTypeOK
<1>1. ClientTypes /\ InfoInv => ExampleTypeOK
  <2>1. SUFFICES ASSUME ClientTypes, InfoInv PROVE ExampleTypeOK OBVIOUS
  <2>2. visited \subseteq SystemIds \X BoardIds
    <3>1. MaxSystems \in Nat /\ MaxBoards \in Nat BY InstallationAssumption
    <3>2. CASE visited = {} BY <3>2
    <3>3. ASSUME NEW s \in SystemIds, NEW n \in 0..MaxBoards, Answered(s, n)
          PROVE  visited \subseteq SystemIds \X BoardIds
      BY <3>1, <3>3 DEF Answered, BoardIds
    <3>4. CASE infopc = "board" \/ infopc = "led"
      <4>1. \E n \in 0..MaxBoards : Answered(systemId, n)
        <5>1. /\ boards \in 1..MaxBoards /\ boardId \in 1..boards
              /\ infopc = "board" => Answered(systemId, boardId - 1)
              /\ infopc = "led" => Answered(systemId, boardId)
          BY <2>1, <3>4 DEF InfoInv, BoardIds
        <5>2. boardId \in 0..MaxBoards /\ boardId - 1 \in 0..MaxBoards BY <3>1, <5>1
        <5>3. QED BY <3>4, <5>1, <5>2
      <4>2. systemId \in SystemIds
        <5>1. systems \in 0..MaxSystems /\ systemId \in 1..systems BY <2>1, <3>4 DEF InfoInv
        <5>2. QED BY <3>1, <5>1 DEF SystemIds
      <4>3. QED BY <3>3, <4>1, <4>2
    <3>5. CASE infopc = "done"
      <4>1. \/ visited = {}
            \/ \E s \in SystemIds : Answered(s, boards) /\ boards \in BoardIds
        BY <2>1, <3>5 DEF InfoInv
      <4>2. boards \in BoardIds => boards \in 0..MaxBoards BY <3>1 DEF BoardIds
      <4>3. QED BY <3>2, <3>3, <4>1, <4>2
    <3>6. QED BY <2>1, <3>2, <3>4, <3>5 DEF InfoInv
  <2>3. QED BY <2>1, <2>2 DEF ClientTypes, InfoInv, ExampleTypeOK, Counting
<1>2. QED BY <1>1, ClientHolds, InfoHolds, PTL
-----------------------------------------------------------------------------
(* What is written to the files.                                           *)

(* Every buffer the client configures holds whole round robins.  (With     *)
(* partial buffers FileRight is false: the result of a buffer the board    *)
(* refuses is written before its round robin is complete.)                 *)
CompleteBuffers == \A c \in Configs : ~c.partialBuffer

(* Where main is in the library, and that the library does as it would     *)
(* without a listener.                                                     *)
Before == {"parse", "connect", "setAll", "acquire"}
InCall == apc \in {"process", "push", "post"}
PlaceInv ==
  /\ sockets = {} /\ rxpc \notin {"process", "send1", "send2", "repost", "post"}
  /\ mpc \in Before => /\ apc = "idle" /\ ~threadRunning /\ ~armed /\ nFilled = 0
                       /\ count = 0
  /\ apc = "posting" => captured = 0 /\ nFilled = 0 /\ ~armed /\ count = 0
  /\ InCall <=> mpc = "result"
  /\ mpc \in {"wait", "result"} => count < NumberAcquisitions

(* The next result main writes is the oldest capture it has not written,   *)
(* and the captures behind it follow in order: in the application's hands, *)
(* in dataQ, in rx's hands, on the board.                                  *)
Consumed == IF InCall THEN count + 1 ELSE count
ResultInv ==
  /\ \A i \in 1..Len(dataQ) : content[dataQ[i]] = Consumed + i - 1
  /\ apc = "process" => content[apiBuf] = count
  /\ apc \in {"push", "post"} => apiFull /\ appSlots[0] = count
  /\ ~Returned =>
       /\ captured - nFilled = Consumed + Len(dataQ) + RxPending
       /\ RxPending = 1 => content[rxBuf] = captured - nFilled - 1
       /\ \A i \in 1..nFilled : content[posted[i]] = captured - nFilled + i - 1

Written == \A i \in DOMAIN file : file[i] = i - 1
FileInv ==
  /\ Written /\ count <= NumberAcquisitions /\ ~geometry.partialBuffer
  /\ Running => PlaceInv /\ (threadRunning => ResultInv)

LEMMA InitFile == ExampleInit => FileInv
BY DEF ExampleInit, Init, BoardInit, FileInv, PlaceInv, Written, Before, InCall,
       NumberAcquisitions, Unconfigured

FileContext == TypeInv /\ LifeInv /\ ExclusiveBuffers /\ ClientTypes /\ FileInv

(* The types the steps below use. *)
LEMMA FileTypes ==
  ASSUME FileContext
  PROVE  /\ posted \in Seq(Buffers) /\ Len(posted) \in Nat /\ nFilled \in 0..Len(posted)
         /\ dataQ \in Seq(Buffers) /\ Len(dataQ) \in Nat /\ captured \in Nat
         /\ count \in Nat /\ Consumed \in Nat /\ RxPending \in {0, 1}
         /\ content \in [Buffers -> Nat \cup {NoData}]
         /\ appSlots \in [Slots -> Nat \cup {NoData}] /\ 0 \in Slots
         /\ rxpc = "queue" => rxBuf \in Buffers
         /\ InCall => apiBuf \in Buffers
         /\ NumberAcquisitions = geometry.nbrBuffers
<1>1. /\ posted \in Seq(Buffers) /\ nFilled \in 0..Len(posted) /\ dataQ \in Seq(Buffers)
      /\ captured \in Nat /\ content \in [Buffers -> Nat \cup {NoData}]
      /\ appSlots \in [Slots -> Nat \cup {NoData}]
      /\ rxpc = "queue" => rxBuf \in Buffers
      /\ InCall => apiBuf \in Buffers
  BY DEF FileContext, TypeInv, TypeOK, BoardTypeOK, HeldBuffers, InCall
<1>2. Len(posted) \in Nat /\ Len(dataQ) \in Nat BY <1>1, LenProperties
<1>3. 0 \in Slots BY SlotsAssumption DEF Slots
<1>4. count \in Nat BY LenProperties DEF FileContext, ClientTypes
<1>5. Consumed \in Nat BY <1>4 DEF Consumed
<1>6. RxPending \in {0, 1} BY DEF RxPending
<1>7. NumberAcquisitions = geometry.nbrBuffers
  BY DEF FileContext, FileInv, NumberAcquisitions
<1>8. QED BY <1>1, <1>2, <1>3, <1>4, <1>5, <1>6, <1>7

(* Results are kept by a step that consumes nothing and touches neither    *)
(* what was captured nor where it is.                                      *)
LEMMA SameResults ==
  ASSUME ResultInv, UNCHANGED <<dataQ, content, count, apc, apiBuf, apiFull, appSlots>>,
         \/ Returned'
         \/ /\ ~Returned /\ UNCHANGED <<posted, nFilled, captured, rxBuf>>
            /\ RxPending' = RxPending
  PROVE  ResultInv'
BY DEF ResultInv, Consumed, InCall

LEMMA FileRx ==
  ASSUME FileContext, Running, Rx, UNCHANGED mainVars PROVE FileInv'
<1>a. threadRunning /\ PlaceInv /\ ResultInv
  BY DEF FileContext, FileInv, LifeInv, Rx, RxReady, RxLoop, RxPop, RxPopEmpty,
     RxCheckStop, RxWait, RxRoute, RxQueue, RxProcess, RxSend, RxRepost, RxPost, RxCount,
     RxAbort
<1>b. UNCHANGED <<apc, apiBuf, apiFull, sockets, geometry, threadRunning, appSlots>>
  BY DEF Rx, RxReady, RxLoop, RxPop, RxPopEmpty, RxCheckStop, RxWait, RxRoute, RxQueue,
     RxProcess, RxSend, RxRepost, RxPost, RxCount, RxAbort, flagVars, apiVars, setupVars,
     outVars
<1>c. UNCHANGED <<count, mpc, exit, file>> BY DEF mainVars
<1>d. apc # "posting" /\ mpc \notin Before BY <1>a DEF FileContext, LifeInv, PlaceInv
<1>e. rxpc \notin {"process", "send1", "send2", "repost", "post"} /\ sockets = {}
  BY <1>a DEF PlaceInv
<1>1. rxpc' \notin {"process", "send1", "send2", "repost", "post"}
  BY <1>e DEF Rx, RxReady, RxLoop, RxPop, RxPopEmpty, RxCheckStop, RxWait, RxRoute, RxQueue,
     RxProcess, RxSend, RxRepost, RxPost, RxCount, RxAbort, RxGoto, RxReturn
<1>2. PlaceInv'
  BY <1>a, <1>b, <1>c, <1>d, <1>1 DEF PlaceInv, InCall, NumberAcquisitions
<1>3. ResultInv'
  <2>1. CASE RxWait
    <3>1. rxpc = "wait" /\ UNCHANGED dataQ /\ ~Returned /\ RxPending = 0
      BY <2>1 DEF RxWait, queueVars, Returned, RxPending
    <3>2. CASE WaitComplete(rxBuf) /\ RxGoto("route")
      <4>1. posted # <<>> BY <3>2, FileTypes, EmptySeq DEF WaitComplete
      <4>2. /\ rxBuf = posted[1] /\ nFilled > 0 /\ nFilled' = nFilled - 1
            /\ posted' = Tail(posted) /\ UNCHANGED <<captured, content, rxBuf>>
            /\ rxpc' = "route"
        BY <3>2, <4>1, FileTypes, PopPlaces DEF WaitComplete, RxGoto
      <4>3. \A i \in 1..nFilled' : posted'[i] = posted[i + 1] /\ i + 1 \in 1..nFilled
        BY <4>1, <4>2, FileTypes, PopPlaces
      <4>4. RxPending' = 1 /\ Consumed' = Consumed
        BY <1>b, <1>c, <4>2 DEF RxPending, Consumed, InCall
      <4>5. captured - nFilled = Consumed + Len(dataQ) + RxPending
        BY <1>a, <3>1 DEF ResultInv
      <4>6. captured' - nFilled' = captured - nFilled + 1 BY <4>2, FileTypes
      <4>7. captured' - nFilled' = Consumed' + Len(dataQ') + RxPending'
        BY <3>1, <4>4, <4>5, <4>6, FileTypes
      <4>8. \A i \in 1..nFilled : content[posted[i]] = captured - nFilled + i - 1
        BY <1>a, <3>1 DEF ResultInv
      <4>9. content'[rxBuf'] = captured' - nFilled' - 1
        <5>1. 1 \in 1..nFilled BY <4>2, FileTypes
        <5>2. content[posted[1]] = captured - nFilled + 1 - 1 BY <4>8, <5>1
        <5>3. captured - nFilled + 1 - 1 = captured' - nFilled' - 1 BY <4>2, FileTypes
        <5>4. QED BY <4>2, <5>2, <5>3
      <4>10. ASSUME NEW i \in 1..nFilled'
             PROVE  content'[posted'[i]] = captured' - nFilled' + i - 1
        <5>1. content[posted[i + 1]] = captured - nFilled + (i + 1) - 1 BY <4>3, <4>8
        <5>2. captured - nFilled + (i + 1) - 1 = captured' - nFilled' + i - 1
          BY <4>2, FileTypes
        <5>3. QED BY <4>2, <4>3, <5>1, <5>2
      <4>11. /\ \A i \in 1..Len(dataQ') : content'[dataQ'[i]] = Consumed' + i - 1
             /\ apc' = "process" => content'[apiBuf'] = count'
             /\ apc' \in {"push", "post"} => apiFull' /\ appSlots'[0] = count'
        BY <1>a, <1>b, <1>c, <3>1, <4>2, <4>4 DEF ResultInv
      <4>12. QED BY <4>7, <4>9, <4>10, <4>11 DEF ResultInv
    <3>3. CASE WaitTimeout(rxBuf) /\ RxGoto("check")
      BY <1>a, <1>b, <1>c, <3>1, <3>3, SameResults
         DEF WaitTimeout, RxGoto, boardVars, RxPending
    <3>4. CASE rxpc' = "failed" /\ UNCHANGED content
      BY <1>a, <1>b, <1>c, <3>1, <3>4, SameResults DEF Returned
    <3>5. QED BY <2>1, <3>2, <3>3, <3>4 DEF RxWait, WaitInvalid, RxReturn, boardVars
  <2>2. CASE RxQueue
    <3>1. /\ rxpc = "queue" /\ rxpc' = "count" /\ rxBuf \in Buffers /\ ~Returned
          /\ dataQ' = Append(dataQ, rxBuf) /\ RxPending = 1 /\ RxPending' = 0
          /\ UNCHANGED <<posted, nFilled, captured, content, rxBuf>>
      BY <2>2, FileTypes DEF RxQueue, RxGoto, Push, Returned, RxPending, boardVars
    <3>2. /\ Len(dataQ') = Len(dataQ) + 1
          /\ \A i \in 1..Len(dataQ) : dataQ'[i] = dataQ[i]
          /\ dataQ'[Len(dataQ) + 1] = rxBuf
      BY <3>1, FileTypes, PushPlaces
    <3>3. Consumed' = Consumed BY <1>b, <1>c DEF Consumed, InCall
    <3>4. /\ captured - nFilled = Consumed + Len(dataQ) + 1
          /\ content[rxBuf] = captured - nFilled - 1
          /\ \A i \in 1..nFilled : content[posted[i]] = captured - nFilled + i - 1
          /\ \A i \in 1..Len(dataQ) : content[dataQ[i]] = Consumed + i - 1
      BY <1>a, <3>1 DEF ResultInv
    <3>5. ASSUME NEW i \in 1..Len(dataQ') PROVE content'[dataQ'[i]] = Consumed' + i - 1
      <4>1. CASE i \in 1..Len(dataQ) BY <3>1, <3>2, <3>3, <3>4, <4>1
      <4>2. CASE i = Len(dataQ) + 1
        <5>1. content[rxBuf] = Consumed + i - 1 BY <3>4, <4>2, FileTypes
        <5>2. QED BY <3>1, <3>2, <3>3, <4>2, <5>1
      <4>3. QED BY <3>2, <4>1, <4>2, FileTypes
    <3>6. captured' - nFilled' = Consumed' + Len(dataQ') + RxPending'
      BY <3>1, <3>2, <3>3, <3>4, FileTypes
    <3>7. QED BY <1>a, <1>b, <1>c, <3>1, <3>4, <3>5, <3>6 DEF ResultInv
  <2>3. CASE RxAbort
    BY <1>a, <1>b, <1>c, <2>3, SameResults
       DEF RxAbort, RxReturn, AbortAsyncRead, Returned, queueVars, boardVars
  <2>4. CASE RxCheckStop \/ RxCount
    BY <1>a, <1>b, <1>c, <2>4, SameResults
       DEF RxCheckStop, RxCount, RxReturn, RxGoto, Returned, RxPending, queueVars, boardVars,
           ResultInv, InCall, Consumed
  <2>5. CASE RxReady \/ RxLoop \/ RxPop \/ RxPopEmpty \/ RxRoute
    BY <1>a, <1>b, <1>c, <1>e, <2>5, SameResults
       DEF RxReady, RxLoop, RxPop, RxPopEmpty, RxRoute, RxGoto, Returned, RxPending,
           queueVars, boardVars, ResultInv, InCall, Consumed
  <2>6. CASE RxProcess \/ RxRepost \/ RxPost BY <1>e, <2>6 DEF RxProcess, RxRepost, RxPost
  <2>7. CASE RxSend("ch1", "send1", "send2") \/ RxSend("ch2", "send2", "repost")
    BY <1>e, <2>7 DEF RxSend
  <2>8. QED BY <2>1, <2>2, <2>3, <2>4, <2>5, <2>6, <2>7 DEF Rx
<1>4. QED
  BY <1>b, <1>c, <1>2, <1>3 DEF FileContext, FileInv, Written, NumberAcquisitions

(* The board fills a buffer that nobody reads. *)
LEMMA FileBoard ==
  ASSUME FileContext, Running, BoardStep, UNCHANGED mainVars PROVE FileInv'
<1>a. /\ armed /\ nFilled < Len(posted)
      /\ content' = [content EXCEPT ![posted[nFilled + 1]] = captured]
      /\ nFilled' = nFilled + 1 /\ captured' = captured + 1
      /\ UNCHANGED <<posted, armed, dataQ, rxpc, rxBuf, apc, apiBuf, apiFull, appSlots>>
      /\ UNCHANGED <<threadRunning, sockets, geometry>>
  BY DEF BoardStep, DMA, flagVars, queueVars, rxVars, apiVars, setupVars, outVars
<1>b. UNCHANGED <<count, mpc, exit, file>> BY DEF mainVars
<1>1. PlaceInv /\ (threadRunning => ResultInv) BY DEF FileContext, FileInv
<1>2. PlaceInv'
  BY <1>a, <1>b, <1>1 DEF PlaceInv, InCall, NumberAcquisitions
<1>3. ASSUME threadRunning PROVE ResultInv'
  <2>1. /\ content'[posted[nFilled + 1]] = captured
        /\ \A b \in Buffers : b # posted[nFilled + 1] => content'[b] = content[b]
    BY <1>a, FillsFree, FileTypes DEF FileContext
  <2>2. /\ \A i \in 1..nFilled : content'[posted[i]] = content[posted[i]]
        /\ \A i \in 1..Len(dataQ) : content'[dataQ[i]] = content[dataQ[i]]
        /\ RxPending = 1 => content'[rxBuf] = content[rxBuf]
        /\ apc = "process" => content'[apiBuf] = content[apiBuf]
    BY <1>a, <2>1, FillsFree DEF FileContext
  <2>3. /\ RxPending' = RxPending /\ Consumed' = Consumed /\ Returned' = Returned
        /\ captured' - nFilled' = captured - nFilled
    BY <1>a, <1>b, FileTypes DEF RxPending, Consumed, InCall, Returned
  <2>4. ~Returned => \A i \in 1..nFilled' :
                       content'[posted'[i]] = captured' - nFilled' + i - 1
    <3>1. ASSUME ~Returned, NEW i \in 1..(nFilled + 1)
          PROVE  content'[posted[i]] = captured - nFilled + i - 1
      <4>1. CASE i \in 1..nFilled
        BY <1>1, <1>3, <2>2, <3>1, <4>1 DEF ResultInv
      <4>2. CASE i = nFilled + 1
        <5>1. captured - nFilled + (nFilled + 1) - 1 = captured BY FileTypes
        <5>2. QED BY <2>1, <4>2, <5>1
      <4>3. QED BY <4>1, <4>2, FileTypes
    <3>2. QED BY <1>a, <2>3, <3>1
  <2>5. QED BY <1>1, <1>3, <1>a, <1>b, <2>2, <2>3, <2>4 DEF ResultInv
<1>4. QED
  BY <1>a, <1>b, <1>1, <1>2, <1>3 DEF FileContext, FileInv, Written, NumberAcquisitions

(* What main does inside the library. *)
LEMMA FileInside ==
  ASSUME FileContext, Running, ApiStep, UNCHANGED mainVars,
         mpc = "result" => apc # "post"
  PROVE  FileInv'
<1> USE DEF boardVars, flagVars, queueVars, setupVars, rxVars, apiVars, outVars
<1>b. UNCHANGED <<count, mpc, exit, file>> BY DEF mainVars
<1>c. PlaceInv /\ (threadRunning => ResultInv) BY DEF FileContext, FileInv
<1>d. apc # "post" BY <1>c DEF PlaceInv, InCall
<1>e. apc # "idle" /\ mpc \notin Before
  BY <1>c DEF ApiStep, PostInitial, StartAcquire, AcquireReturn, ProcessForApp, PushForApp,
              PostForApp, JoinRx, AbortOnStop, ClearQueues, PlaceInv
<1>f. UNCHANGED <<sockets, geometry>>
  BY DEF ApiStep, PostInitial, StartAcquire, AcquireReturn, ProcessForApp, PushForApp,
         PostForApp, JoinRx, AbortOnStop, ClearQueues
<1>g. SUFFICES PlaceInv' /\ (threadRunning' => ResultInv')
  BY <1>b, <1>f DEF FileContext, FileInv, Written, NumberAcquisitions
<1>h. NumberAcquisitions' = NumberAcquisitions BY <1>f DEF NumberAcquisitions
<1>1. ASSUME NEW b \in Buffers, PostInitial(b)
      PROVE  PlaceInv' /\ (threadRunning' => ResultInv')
  <2>1. /\ apc = "posting" /\ UNCHANGED <<apc, threadRunning, rxpc>>
        /\ UNCHANGED <<captured, nFilled, armed>> /\ ~threadRunning
    BY <1>1 DEF PostInitial, PostAsyncBuffer, FileContext, LifeInv
  <2>2. QED BY <1>b, <1>c, <1>e, <1>f, <1>h, <2>1 DEF PlaceInv, InCall
<1>2. CASE StartAcquire
  <2>1. /\ apc = "posting" /\ apc' = "ready" /\ rxpc' = "start"
        /\ UNCHANGED <<nFilled, captured, dataQ>>
    BY <1>2 DEF StartAcquire, StartCapture
  <2>2. nFilled = 0 /\ captured = 0 /\ count = 0 /\ dataQ = <<>>
    BY <1>c, <2>1 DEF PlaceInv, FileContext, LifeInv
  <2>3. PlaceInv'
    BY <1>b, <1>c, <1>e, <1>f, <1>h, <2>1 DEF PlaceInv, InCall
  <2>4. Len(dataQ') = 0 BY <2>1, <2>2
  <2>5. ~Returned' /\ RxPending' = 0 /\ Consumed' = 0
    BY <1>b, <2>1, <2>2 DEF Returned, RxPending, Consumed, InCall
  <2>6. QED BY <2>1, <2>2, <2>3, <2>4, <2>5 DEF ResultInv
<1>3. CASE AcquireReturn
  <2>1. /\ apc = "ready" /\ apc' = "idle"
        /\ UNCHANGED <<dataQ, content, count, apiBuf, apiFull, appSlots, posted, nFilled,
                       captured, rxBuf, rxpc, threadRunning>>
    BY <1>b, <1>3 DEF AcquireReturn
  <2>2. PlaceInv' BY <1>b, <1>c, <1>e, <1>f, <1>h, <2>1 DEF PlaceInv, InCall
  <2>3. QED BY <1>c, <2>1, <2>2 DEF ResultInv, Consumed, InCall, RxPending, Returned
<1>4. CASE ProcessForApp
  <2>1. /\ apc = "process" /\ apc' = "push" /\ apiFull' = RoundFull
        /\ appSlots' = Process(appSlots, apiBuf)
        /\ UNCHANGED <<dataQ, content, count, apiBuf, posted, nFilled, captured, rxBuf, rxpc,
                       threadRunning>>
    BY <1>b, <1>4 DEF ProcessForApp
  <2>2. PlaceInv' BY <1>b, <1>c, <1>e, <1>f, <1>h, <2>1 DEF PlaceInv, InCall
  <2>3. ~geometry.partialBuffer BY DEF FileContext, FileInv
  <2>4. RoundFull /\ appSlots'[0] = content[apiBuf]
    BY <2>1, <2>3, FileTypes DEF RoundFull, Process, SlotIndex
  <2>5. threadRunning => content[apiBuf] = count BY <1>c, <2>1 DEF ResultInv
  <2>6. QED
    BY <1>c, <2>1, <2>2, <2>4, <2>5 DEF ResultInv, Consumed, InCall, RxPending, Returned
<1>5. CASE PushForApp
  <2>1. /\ apc = "push" /\ apc' = "post"
        /\ UNCHANGED <<dataQ, content, count, apiBuf, apiFull, appSlots, posted, nFilled,
                       captured, rxBuf, rxpc, threadRunning>>
    BY <1>b, <1>5 DEF PushForApp, Enqueue
  <2>2. PlaceInv' BY <1>b, <1>c, <1>e, <1>f, <1>h, <2>1 DEF PlaceInv, InCall
  <2>3. QED BY <1>c, <2>1, <2>2 DEF ResultInv, Consumed, InCall, RxPending, Returned
<1>6. CASE PostForApp BY <1>d, <1>6 DEF PostForApp
<1>7. CASE JoinRx
  <2>1. apc = "join" /\ apc' = "abort" /\ rxpc' = "none" /\ ~threadRunning'
    BY <1>7 DEF JoinRx
  <2>2. QED BY <1>b, <1>c, <1>e, <1>f, <1>h, <2>1 DEF PlaceInv, InCall
<1>8. CASE AbortOnStop \/ ClearQueues
  <2>1. /\ apc \in {"abort", "clear"} /\ apc' \in {"clear", "idle"} /\ rxpc' = rxpc
        /\ threadRunning' = threadRunning /\ ~threadRunning
    BY <1>8 DEF AbortOnStop, ClearQueues, FileContext, LifeInv
  <2>2. QED BY <1>b, <1>c, <1>e, <1>f, <1>h, <2>1 DEF PlaceInv, InCall
<1>9. QED BY <1>1, <1>2, <1>3, <1>4, <1>5, <1>6, <1>7, <1>8 DEF ApiStep

(* What main does outside it: only a result it waited for is written. *)
LEMMA FileMain ==
  ASSUME CompleteBuffers, FileContext, Running, Main \/ Quit PROVE FileInv'
<1> USE DEF MainGoto, End
<1>a. /\ PlaceInv /\ (threadRunning => ResultInv) /\ Written
      /\ count <= NumberAcquisitions /\ ~geometry.partialBuffer
  BY DEF FileContext, FileInv
<1>b. exit = "running" BY DEF Running
<1>1. ASSUME UNCHANGED <<libraryVars, count, file>>,
             \/ mpc' = "ended" /\ exit' # "running"
             \/ /\ mpc' \notin {"wait", "result"} /\ (mpc = "result" <=> mpc' = "result")
                /\ mpc' \in Before => mpc \in Before
             \/ mpc = "loop" /\ mpc' = "wait" /\ count < NumberAcquisitions
      PROVE  FileInv'
  <2>1. UNCHANGED <<posted, nFilled, armed, captured, content, threadRunning, dataQ, sockets,
                    geometry, rxpc, rxBuf, apc, apiBuf, apiFull, appSlots>>
    BY <1>1 DEF libraryVars, boardVars, flagVars, queueVars, setupVars, rxVars, apiVars, outVars
  <2>2. UNCHANGED <<Written, NumberAcquisitions, Consumed, RxPending, Returned, InCall>>
    BY <1>1, <2>1
       DEF Written, NumberAcquisitions, Consumed, RxPending, Returned, InCall
  <2>3. threadRunning' => ResultInv' BY <1>a, <1>1, <2>1, <2>2 DEF ResultInv
  <2>4. Running' => PlaceInv'
    <3>1. CASE mpc' = "ended" /\ exit' # "running" BY <3>1 DEF Running
    <3>2. CASE /\ mpc' \notin {"wait", "result"} /\ (mpc = "result" <=> mpc' = "result")
               /\ mpc' \in Before => mpc \in Before
      BY <1>a, <1>1, <2>1, <2>2, <3>2 DEF PlaceInv, InCall
    <3>3. CASE mpc = "loop" /\ mpc' = "wait" /\ count < NumberAcquisitions
      BY <1>a, <1>1, <2>1, <2>2, <3>3 DEF PlaceInv, InCall, Before
    <3>4. QED BY <1>1, <3>1, <3>2, <3>3
  <2>5. QED BY <1>a, <1>1, <2>1, <2>2, <2>3, <2>4 DEF FileInv
<1>2. CASE Parse \/ Quit \/ Tick \/ Connect \/ LoopTest
  <2>1. UNCHANGED <<libraryVars, count, file>>
    BY <1>2 DEF Parse, Quit, Tick, Connect, LoopTest
  <2>2. \/ mpc' = "ended" /\ exit' # "running"
        \/ /\ mpc' \notin {"wait", "result"} /\ (mpc = "result" <=> mpc' = "result")
           /\ mpc' \in Before => mpc \in Before
        \/ mpc = "loop" /\ mpc' = "wait" /\ count < NumberAcquisitions
    BY <1>2 DEF Parse, Quit, Tick, Connect, LoopTest, Before
  <2>3. QED BY <1>1, <2>1, <2>2
<1>3. CASE Configure
  <2>1. CASE UNCHANGED libraryVars /\ mpc' = "ended" /\ exit' # "running"
    BY <1>1, <1>3, <2>1 DEF Configure
  <2>2. CASE (\E c \in Configs : SetAll(c)) /\ mpc' = "acquire"
    <3>1. /\ mpc = "setAll" /\ UNCHANGED <<count, file, exit>>
      BY <1>3, <2>2 DEF Configure
    <3>2. /\ geometry' \in Configs
          /\ UNCHANGED <<nFilled, armed, captured, threadRunning, sockets, rxpc, apc>>
      BY <2>2 DEF SetAll, boardVars, flagVars, rxVars, apiVars
    <3>3. ~geometry'.partialBuffer /\ geometry'.nbrBuffers \in Nat
      BY <3>2, ConfigsAssumption DEF CompleteBuffers, Geometry
    <3>4. count = 0 /\ ~threadRunning /\ apc = "idle" BY <1>a, <3>1 DEF PlaceInv, Before
    <3>5. PlaceInv'
      BY <1>a, <2>2, <3>1, <3>2, <3>4 DEF PlaceInv, Before, InCall
    <3>6. count' <= NumberAcquisitions' BY <3>1, <3>3, <3>4 DEF NumberAcquisitions
    <3>7. QED BY <1>a, <3>1, <3>2, <3>3, <3>4, <3>5, <3>6 DEF FileInv, Written
  <2>3. QED BY <1>3, <2>1, <2>2 DEF Configure
<1>4. CASE CallAcquire
  <2>1. CASE UNCHANGED libraryVars
    BY <1>1, <1>4, <2>1 DEF CallAcquire, Before
  <2>2. CASE Acquire
    <3>1. mpc = "acquire" /\ mpc' = "loop" /\ UNCHANGED <<count, file, exit>>
      BY <1>4 DEF CallAcquire
    <3>2. /\ apc' = "posting" /\ captured' = 0 /\ ~threadRunning
          /\ UNCHANGED <<nFilled, armed, threadRunning, sockets, geometry, rxpc>>
      BY <2>2 DEF Acquire, BeforeAsyncRead, flagVars, setupVars, rxVars
    <3>3. PlaceInv'
      BY <1>a, <3>1, <3>2 DEF PlaceInv, Before, InCall
    <3>4. QED BY <1>a, <3>1, <3>2, <3>3 DEF FileInv, Written, NumberAcquisitions
  <2>3. QED BY <1>4, <2>1, <2>2 DEF CallAcquire
<1>5. CASE CallWait
  <2>1. CASE UNCHANGED libraryVars /\ MainGoto("tick")
    BY <1>1, <1>5, <2>1 DEF CallWait, Before
  <2>2. CASE WaitForAcquisition /\ MainGoto("result")
    <3>1. /\ mpc = "wait" /\ mpc' = "result" /\ UNCHANGED <<count, file, exit>>
      BY <1>5, <2>2 DEF CallWait
    <3>2. /\ apc = "idle" /\ apc' = "process" /\ dataQ # <<>>
          /\ apiBuf' = Head(dataQ) /\ dataQ' = Tail(dataQ)
          /\ UNCHANGED <<posted, nFilled, armed, captured, content, threadRunning, sockets,
                         geometry, rxpc, rxBuf, apiFull, appSlots>>
      BY <2>2 DEF WaitForAcquisition, boardVars, flagVars, setupVars, rxVars, outVars
    <3>3. threadRunning BY <3>2 DEF FileContext, LifeInv
    <3>4. /\ Len(dataQ') = Len(dataQ) - 1 /\ Len(dataQ) > 0 /\ apiBuf' = dataQ[1]
          /\ \A i \in 1..Len(dataQ') : dataQ'[i] = dataQ[i + 1] /\ i + 1 \in 1..Len(dataQ)
      BY <3>2, FileTypes, PopPlaces
    <3>5. /\ Consumed = count /\ Consumed' = count + 1 /\ RxPending' = RxPending
          /\ Returned' = Returned
      BY <3>1, <3>2 DEF Consumed, InCall, RxPending, Returned
    <3>6. \A i \in 1..Len(dataQ) : content[dataQ[i]] = Consumed + i - 1
      BY <1>a, <3>3 DEF ResultInv
    <3>7. content'[apiBuf'] = count'
      <4>1. 1 \in 1..Len(dataQ) BY <3>4, FileTypes
      <4>2. content[dataQ[1]] = Consumed + 1 - 1 BY <3>6, <4>1
      <4>3. Consumed + 1 - 1 = count BY <3>5, FileTypes
      <4>4. QED BY <3>1, <3>2, <3>4, <4>2, <4>3
    <3>8. ASSUME NEW i \in 1..Len(dataQ') PROVE content'[dataQ'[i]] = Consumed' + i - 1
      <4>1. content[dataQ[i + 1]] = Consumed + (i + 1) - 1 BY <3>4, <3>6
      <4>2. Consumed + (i + 1) - 1 = Consumed' + i - 1 BY <3>5, FileTypes
      <4>3. QED BY <3>2, <3>4, <4>1, <4>2
    <3>9. ~Returned' => captured' - nFilled' = Consumed' + Len(dataQ') + RxPending'
      <4>1. ~Returned => captured - nFilled = Consumed + Len(dataQ) + RxPending
        BY <1>a, <3>3 DEF ResultInv
      <4>2. QED BY <3>2, <3>4, <3>5, <4>1, FileTypes
    <3>10. ResultInv'
      BY <1>a, <3>2, <3>3, <3>5, <3>7, <3>8, <3>9 DEF ResultInv
    <3>11. PlaceInv'
      BY <1>a, <3>1, <3>2 DEF PlaceInv, Before, InCall, NumberAcquisitions
    <3>12. QED BY <1>a, <3>1, <3>2, <3>10, <3>11 DEF FileInv, Written, NumberAcquisitions
  <2>3. QED BY <1>5, <2>1, <2>2 DEF CallWait
<1>6. CASE WaitReturns
  <2>1. /\ mpc = "result" /\ mpc' = "tick" /\ exit' = exit /\ PostForApp
        /\ apc = "post" /\ apc' = "idle" /\ threadRunning /\ apiBuf \in Buffers
    BY <1>6, FileTypes DEF WaitReturns, PostForApp, FileContext, LifeInv, InCall
  <2>2. /\ apiFull /\ appSlots[0] = count /\ ResultInv BY <1>a, <2>1 DEF ResultInv
  <2>3. RoundOf(appSlots) = count BY <1>a, <2>2, OneSlotRound, FileTypes
  <2>4. /\ count' = count + 1 /\ file' = Append(file, count)
    BY <1>6, <2>2, <2>3 DEF WaitReturns
  <2>5. Written'
    <3>1. /\ Len(file') = Len(file) + 1 /\ Len(file) = count
          /\ \A i \in 1..Len(file) : file'[i] = file[i]
          /\ file'[Len(file) + 1] = count /\ file' \in Seq(Nat \cup {NoData, Torn})
          /\ DOMAIN file = 1..Len(file)
      BY <2>4, AppendProperties, LenProperties, FileTypes DEF FileContext, ClientTypes
    <3>2. DOMAIN file' = 1..(count + 1) BY <3>1, LenProperties
    <3>3. ASSUME NEW i \in 1..(count + 1) PROVE file'[i] = i - 1
      <4>1. CASE i \in 1..count BY <1>a, <3>1, <4>1 DEF Written
      <4>2. CASE i = count + 1 BY <3>1, <4>2, FileTypes
      <4>3. QED BY <4>1, <4>2, FileTypes
    <3>4. QED BY <3>2, <3>3 DEF Written
  <2>6. /\ posted' = Append(posted, apiBuf) \/ posted' = posted
        /\ UNCHANGED <<nFilled, armed, captured, content, threadRunning, dataQ, sockets,
                       geometry, rxpc, rxBuf, appSlots>>
    BY <2>1 DEF PostForApp, PostAsyncBuffer, boardVars, flagVars, queueVars, setupVars, rxVars
  <2>7. \A i \in 1..nFilled : posted'[i] = posted[i]
    <3>1. \A i \in 1..Len(posted) : Append(posted, apiBuf)[i] = posted[i]
      BY <2>1, FileTypes, PushPlaces
    <3>2. 1..nFilled \subseteq 1..Len(posted) BY FileTypes
    <3>3. QED BY <2>6, <3>1, <3>2
  <2>8. Consumed' = Consumed /\ RxPending' = RxPending /\ Returned' = Returned
    BY <2>1, <2>4, <2>6 DEF Consumed, InCall, RxPending, Returned
  <2>9. ResultInv' BY <2>1, <2>2, <2>6, <2>7, <2>8 DEF ResultInv
  <2>10. count < NumberAcquisitions BY <1>a, <2>1 DEF PlaceInv
  <2>11. NumberAcquisitions' = NumberAcquisitions BY <2>6 DEF NumberAcquisitions
  <2>12. NumberAcquisitions \in Nat
    BY FileTypes DEF FileContext, TypeInv, TypeOK, Geometry
  <2>13. count' <= NumberAcquisitions' BY <2>4, <2>10, <2>11, <2>12, FileTypes
  <2>14. PlaceInv' BY <1>a, <2>1, <2>6 DEF PlaceInv, Before, InCall
  <2>15. QED BY <1>a, <2>5, <2>6, <2>9, <2>13, <2>14 DEF FileInv
<1>7. CASE CallStop \/ CallDisconnect
  <2>1. CASE UNCHANGED libraryVars BY <1>1, <1>7, <2>1 DEF CallStop, CallDisconnect, Before
  <2>2. CASE Stop /\ mpc' = "disconnect"
    <3>1. mpc \in {"stop", "disconnect"} /\ UNCHANGED <<count, file, exit>>
      BY <1>7, <2>2 DEF CallStop, CallDisconnect
    <3>2. /\ apc = "idle" /\ apc' \in {"idle", "join"}
          /\ UNCHANGED <<posted, nFilled, armed, captured, content, threadRunning, dataQ,
                         sockets, geometry, rxpc, rxBuf, apiBuf, apiFull, appSlots>>
      BY <2>2 DEF Stop, boardVars, queueVars, setupVars, rxVars, outVars
    <3>3. UNCHANGED <<Written, NumberAcquisitions, Consumed, RxPending, Returned, InCall>>
      BY <3>1, <3>2 DEF Written, NumberAcquisitions, Consumed, RxPending, Returned, InCall
    <3>4. threadRunning' => ResultInv' BY <1>a, <3>1, <3>2, <3>3 DEF ResultInv
    <3>5. PlaceInv' BY <1>a, <2>2, <3>1, <3>2, <3>3 DEF PlaceInv, Before, InCall
    <3>6. QED BY <1>a, <3>1, <3>2, <3>3, <3>4, <3>5 DEF FileInv
  <2>3. QED BY <1>7, <2>1, <2>2 DEF CallStop, CallDisconnect
<1>8. CASE InLibrary BY <1>8, FileInside DEF InLibrary
<1>9. QED BY <1>2, <1>3, <1>4, <1>5, <1>6, <1>7, <1>8 DEF Main

LEMMA FileStep ==
  ASSUME CompleteBuffers, FileContext, [ExampleNext]_exampleVars PROVE FileInv'
<1>1. CASE Running /\ (Main \/ Quit) BY <1>1, FileMain
<1>2. CASE Beside(Rx) BY <1>2, FileRx DEF Beside
<1>3. CASE Beside(BoardStep) BY <1>3, FileBoard DEF Beside
<1>4. CASE UNCHANGED exampleVars
  <2>1. UNCHANGED <<posted, nFilled, armed, captured, content, threadRunning, dataQ, sockets,
                    geometry, rxpc, rxBuf, apc, apiBuf, apiFull, appSlots>>
    BY <1>4 DEF exampleVars, libraryVars, boardVars, flagVars, queueVars, setupVars, rxVars,
       apiVars, outVars
  <2>2. UNCHANGED <<mpc, count, file, exit>> BY <1>4 DEF exampleVars, mainVars
  <2>3. UNCHANGED <<Written, NumberAcquisitions, Consumed, RxPending, Returned, InCall,
                    Running>>
    BY <2>1, <2>2
       DEF Written, NumberAcquisitions, Consumed, RxPending, Returned, InCall, Running
  <2>4. ResultInv => ResultInv' BY <2>1, <2>2, <2>3 DEF ResultInv
  <2>5. PlaceInv => PlaceInv' BY <2>1, <2>2, <2>3 DEF PlaceInv
  <2>6. QED BY <2>1, <2>2, <2>3, <2>4, <2>5 DEF FileContext, FileInv
<1>5. QED BY <1>1, <1>2, <1>3, <1>4 DEF ExampleNext

(* The files hold the results from the first on, none missing, repeated or *)
(* out of order, and never more than numberAcquisitions, whatever the      *)
(* board refuses to start, to take back or to complete, for every pool and *)
(* every geometry of complete buffers (apiExample.cpp:168-181).            *)
THEOREM FilesRight ==
  ASSUME CompleteBuffers, "abort" \notin Faults PROVE ExampleSpec => []FileRight
<1>1. FileContext => FileRight
  BY DEF FileContext, ClientTypes, FileInv, Written, FileRight
<1>2. ExampleInit => FileInv BY InitFile
<1>3. FileContext /\ [ExampleNext]_exampleVars => FileInv' BY FileStep
<1>4. ExampleSpec => [](TypeInv /\ LifeInv /\ ExclusiveBuffers /\ ClientTypes)
  <2>1. Spec => [](TypeInv /\ LifeInv) BY LifeHolds
  <2>2. Spec => []ExclusiveBuffers BY NoOverwrite
  <2>3. QED BY <2>1, <2>2, ExampleIsAClient, ClientHolds, PTL
<1>5. ExampleSpec => []FileContext
  BY <1>2, <1>3, <1>4, PTL DEF ExampleSpec, FileContext
<1>6. QED BY <1>1, <1>5, PTL
=============================================================================
