---------------------------- MODULE FloatProofs ----------------------------
(***************************************************************************)
(* The floats of SocketTransmission: what the listener of each channel     *)
(* takes is the acquisition's stream, for every pool, geometry, work       *)
(* buffer and socket size.                                                 *)
(*                                                                         *)
(* First the captures: while a channel stays registered, nothing is polled *)
(* and rx takes the buffers in the order of their captures (CountedInv),   *)
(* so a full work buffer is the round robin that is due (WorkInv).  Then   *)
(* the floats: those on a channel's socket are the ones between what its   *)
(* listener took last and where rx is in the stream (FloatInv).            *)
(***************************************************************************)
EXTENDS SocketProofs

(* The place in its round robin of the buffer rx counts next, and how many *)
(* places of the work buffers are taken.                                   *)
Place == PlaceAt(SlotsPerRound, bufferCounter)
PlacesTaken ==
  IF rxpc \in {"send1", "send2", "repost", "post", "count"} THEN Place + 1 ELSE Place

(* The buffer in rx's hands is the one it counts next, and is one of the   *)
(* acquisition's.                                                          *)
CountedInv ==
  /\ apc = "idle" /\ ~threadRunning => kept = {}
  /\ rxpc \in {"pop", "empty", "check", "wait"} \cup HasBuffer =>
       bufferCounter < geometry.nbrBuffers
  /\ rxpc \in HasBuffer => content[rxBuf] = bufferCounter
  /\ filling # NoBuffer /\ written = Records => content[filling] = bufferCounter

(* The work buffers hold the round robin's captures so far.                *)
WorkInv ==
  Steady # {} /\ rxpc \in Working =>
    /\ rxpc \in {"send1", "send2"} => RoundFull
    /\ \A i \in 0..(PlacesTaken - 1) : workSlots[i] = bufferCounter - Place + i

LEMMA InitCounted == SocketInit => CountedInv /\ WorkInv
BY DEF SocketInit, Init, SimInit, CountedInv, WorkInv, HasBuffer, Steady

LEMMA CountedRx ==
  ASSUME Disciplined, StackInv, RefInv, CountedInv, SocketRx
  PROVE  CountedInv'
<1> USE DEF HasBuffer
<1>1. CASE BeginSend
  BY <1>1 DEF BeginSend, CountedInv, Records, engineVars, boardVars, flagVars, setupVars,
     rxVars, apiVars, simVars, listenVars
<1>2. CASE SendStep
  <2>1. rxpc \in {"send1", "send2"}
    BY <1>2 DEF SendStep, Look, SendSize, SendFloat, StackInv, SendInv
  <2>2. /\ rxpc' \in {"send1", "send2", "repost", "failed"}
        /\ rxBuf' = rxBuf \/ rxpc' = "failed"
    BY <1>2, <2>1, ChunkStep
  <2>3. UNCHANGED <<boardVars, simVars, flagVars, bufferCounter, setupVars, apiVars, kept>>
    BY <1>2 DEF SendStep
  <2>4. QED
    BY <2>1, <2>2, <2>3
    DEF CountedInv, Records, boardVars, simVars, flagVars, setupVars, apiVars
<1>3. CASE SimWait /\ UNCHANGED <<sendVars, listenVars>>
  <2> USE DEF flagVars, setupVars, rxVars, apiVars, listenVars, CountedInv
  <2>1. /\ rxpc = "wait" \/ filling # NoBuffer
        /\ filling # NoBuffer => rxpc = "wait" /\ filling = rxBuf
        /\ filling # NoBuffer => RecordsPerBuffer = Records /\ written <= Records
        /\ Records \in Nat \ {0} /\ written \in Nat /\ Records' = Records
    <3>1. /\ rxpc = "wait" \/ filling # NoBuffer
          /\ filling # NoBuffer => rxpc = "wait" /\ filling = rxBuf
          /\ written \in Nat
          /\ filling # NoBuffer => written <= Records
      BY <1>3 DEF SimWait, SimDequeue, SimRecord, SimSuccess, RefInv, SimInv
    <3>2. filling # NoBuffer => threadRunning /\ geometry.nbrBuffers > 0
      BY <3>1 DEF RefInv, LifeInv, SimInv, TypeInv, TypeOK, Geometry
    <3>3. Records' = Records
      BY <1>3 DEF SimWait, SimDequeue, SimRecord, SimSuccess, Records
    <3>4. QED BY <3>1, <3>2, <3>3, RecordsAgree, SomeRecords DEF RefInv
  <2>2. CASE SimDequeue
    BY <1>3, <2>1, <2>2 DEF SimDequeue, RxReturn
  <2>3. CASE SimRecord
    <3>1. /\ rxpc = "wait" /\ filling \in Buffers /\ written < Records
          /\ RecordsPerBuffer = Records
          /\ content \in [Buffers -> Nat \cup {NoData}] /\ bufferCounter \in Nat
          /\ recordCounter = Records * bufferCounter + written
      BY <2>1, <2>3 DEF SimRecord, RefInv, SimInv, Working, Taken, Part, TypeInv, TypeOK,
         BoardTypeOK
    <3>2. recordCounter \div Records = bufferCounter
      BY <2>1, <3>1, BuffersOfRecords
    <3>3. /\ UNCHANGED <<filling, rxpc, bufferCounter, geometry, apc, threadRunning, kept>>
          /\ written' = Records => content'[filling] = bufferCounter
      <4>1. RecordsPerBuffer' = RecordsPerBuffer
        BY <2>3 DEF SimRecord, RecordsPerBuffer, bufferLenBytes, LastPosted
      <4>2. written' = Records => content' = [content EXCEPT ![filling] = bufferCounter]
        BY <2>1, <2>3, <3>1, <3>2, <4>1 DEF SimRecord
      <4>3. UNCHANGED <<filling, rxpc, bufferCounter, geometry, apc, threadRunning, kept>>
        BY <1>3, <2>3 DEF SimRecord
      <4>4. QED BY <3>1, <4>2, <4>3
    <3>4. QED BY <2>1, <3>1, <3>3
  <2>4. CASE SimSuccess
    BY <1>3, <2>1, <2>4 DEF SimSuccess, RxGoto, boardVars
  <2>5. QED BY <1>3, <2>2, <2>3, <2>4 DEF SimWait
<1>a. /\ filling # NoBuffer => rxpc = "wait"
      /\ bufferCounter \in Nat /\ geometry.nbrBuffers \in Nat
  BY DEF StackInv, SendInv, SocketType, TypeInv, TypeOK, Geometry
<1> USE DEF CountedInv, Records, boardVars, flagVars, setupVars, rxVars, apiVars, simVars,
            sendVars, listenVars, Quiet, RxGoto, RxReturn
<1>4. CASE RxReady /\ Quiet BY <1>a, <1>4 DEF RxReady
<1>5. CASE RxLoop /\ Quiet BY <1>a, <1>5 DEF RxLoop
<1>6. CASE RxPop /\ Quiet BY <1>a, <1>6 DEF RxPop
<1>7. CASE RxPopEmpty /\ Quiet BY <1>a, <1>7 DEF RxPopEmpty
<1>8. CASE RxCheckStop /\ Quiet BY <1>a, <1>8 DEF RxCheckStop
<1>9. CASE RxRoute /\ Quiet BY <1>a, <1>9 DEF RxRoute
<1>10. CASE RxQueue /\ Quiet BY <1>a, <1>10 DEF RxQueue
<1>11. CASE RxProcess /\ Quiet BY <1>a, <1>11 DEF RxProcess
<1>12. CASE RxRepost /\ Quiet BY <1>a, <1>12 DEF RxRepost
<1>13. CASE RxPost /\ Quiet BY <1>a, <1>13 DEF RxPost, PostAsyncBuffer
<1>14. CASE RxCount /\ Quiet BY <1>a, <1>14 DEF RxCount
<1>15. CASE RxAbort /\ Quiet BY <1>a, <1>15 DEF RxAbort, AbortAsyncRead
<1>16. QED
  BY <1>1, <1>2, <1>3, <1>4, <1>5, <1>6, <1>7, <1>8, <1>9, <1>10, <1>11, <1>12,
     <1>13, <1>14, <1>15 DEF SocketRx

LEMMA CountedStep ==
  ASSUME Disciplined, StackInv, RefInv, CountedInv, [SocketNext]_allVars
  PROVE  CountedInv'
<1>a. /\ threadRunning <=> rxpc # "none"
      /\ apc \in {"posting", "abort", "clear"} => ~threadRunning
      /\ apc \in {"ready", "process", "push", "post", "join"} => threadRunning
      /\ filling # NoBuffer => rxpc = "wait"
  BY DEF StackInv, SendInv
<1> USE DEF CountedInv, Records, HasBuffer, boardVars, flagVars, setupVars, rxVars, apiVars,
            simVars, listenVars, Quiet
<1>1. CASE SocketCall
  <2>1. CASE Begin BY <1>a, <2>1 DEF Begin, SimAcquire
  <2>2. CASE Unregister BY <1>a, <2>2 DEF Unregister, UnregisterSockets
  <2>3. ASSUME NEW ch \in Channels, Register(ch) PROVE CountedInv'
    BY <1>a, <2>3 DEF Register, RegisterSocket
  <2>4. ASSUME NEW c \in Configs, SetAll(c), Quiet PROVE CountedInv'
    BY <1>a, <2>4 DEF SetAll, Disciplined
  <2>5. CASE WaitForAcquisition /\ Quiet BY <1>a, <2>5 DEF WaitForAcquisition
  <2>6. CASE Stop /\ Quiet BY <1>a, <2>6 DEF Stop
  <2>7. QED BY <1>1, <2>1, <2>2, <2>3, <2>4, <2>5, <2>6 DEF SocketCall
<1>2. CASE SocketApi
  <2>1. CASE End BY <1>a, <2>1 DEF End, ClearQueues
  <2>2. ASSUME NEW b \in Buffers, PostInitial(b), Quiet PROVE CountedInv'
    BY <1>a, <2>2 DEF PostInitial, PostAsyncBuffer
  <2>3. CASE StartAcquire /\ Quiet BY <1>a, <2>3 DEF StartAcquire, StartCapture
  <2>4. CASE AcquireReturn /\ Quiet BY <1>a, <2>4 DEF AcquireReturn
  <2>5. CASE ProcessForApp /\ Quiet BY <1>a, <2>5 DEF ProcessForApp
  <2>6. CASE PushForApp /\ Quiet BY <1>a, <2>6 DEF PushForApp
  <2>7. CASE PostForApp /\ Quiet BY <1>a, <2>7 DEF PostForApp, PostAsyncBuffer
  <2>8. CASE JoinRx /\ Quiet BY <1>a, <2>8 DEF JoinRx
  <2>9. CASE AbortOnStop /\ Quiet BY <1>a, <2>9 DEF AbortOnStop, AbortAsyncRead
  <2>10. QED
    BY <1>2, <2>1, <2>2, <2>3, <2>4, <2>5, <2>6, <2>7, <2>8, <2>9 DEF SocketApi
<1>3. CASE (\E ch \in Channels : Listen(ch)) \/ UNCHANGED allVars
  BY <1>3 DEF Listen, engineVars, allVars
<1>4. QED BY <1>1, <1>2, <1>3, CountedRx DEF SocketNext

LEMMA RxLeavesSetup == ASSUME SocketRx PROVE UNCHANGED <<sockets, geometry, kept, apc>>
<1> USE DEF setupVars, apiVars
<1>1. CASE BeginSend BY <1>1 DEF BeginSend, engineVars, listenVars
<1>2. CASE SendStep BY <1>2 DEF SendStep
<1>3. CASE SimWait /\ UNCHANGED <<sendVars, listenVars>>
  BY <1>3 DEF SimWait, SimDequeue, SimRecord, SimSuccess, listenVars
<1>4. CASE /\ \/ RxReady \/ RxLoop \/ RxPop \/ RxPopEmpty \/ RxCheckStop \/ RxRoute
              \/ RxQueue \/ RxProcess \/ RxRepost \/ RxPost \/ RxCount \/ RxAbort
           /\ Quiet
  BY <1>4 DEF RxReady, RxLoop, RxPop, RxPopEmpty, RxCheckStop, RxRoute, RxQueue, RxProcess,
     RxRepost, RxPost, RxCount, RxAbort, Quiet, listenVars
<1>5. QED BY <1>1, <1>2, <1>3, <1>4 DEF SocketRx

LEMMA ApiLeavesSetup == ASSUME SocketApi, ~End PROVE UNCHANGED <<sockets, geometry, kept>>
BY DEF SocketApi, PostInitial, StartAcquire, AcquireReturn, ProcessForApp, PushForApp,
   PostForApp, JoinRx, AbortOnStop, setupVars, Quiet, listenVars

(* While a channel is steady, which it becomes at acquire only, neither    *)
(* the steady channels nor the geometry change.                            *)
LEMMA SteadyStays ==
  ASSUME Disciplined, StackInv, CountedInv, [SocketNext]_allVars, ~Begin, Steady' # {}
  PROVE  Steady' = Steady /\ geometry' = geometry
<1>1. CASE SocketRx BY <1>1, RxLeavesSetup DEF Steady
<1>2. CASE SocketCall
  <2>1. CASE Unregister BY <2>1 DEF Unregister, UnregisterSockets, Steady
  <2>2. ASSUME NEW ch \in Channels, Register(ch) PROVE FALSE
    BY <2>2 DEF Register, RegisterSocket, listenVars, Steady, CountedInv
  <2>3. ASSUME NEW c \in Configs, SetAll(c), Quiet PROVE FALSE
    BY <2>3 DEF SetAll, Disciplined, Steady, CountedInv, Quiet, listenVars
  <2>4. CASE (WaitForAcquisition \/ Stop) /\ Quiet
    BY <2>4 DEF WaitForAcquisition, Stop, setupVars, Quiet, listenVars, Steady
  <2>5. QED BY <1>2, <2>1, <2>2, <2>3, <2>4 DEF SocketCall
<1>3. CASE SocketApi
  <2>1. CASE End BY <2>1 DEF End, Steady
  <2>2. CASE ~End BY <1>3, <2>2, ApiLeavesSetup DEF Steady
  <2>3. QED BY <2>1, <2>2
<1>4. CASE (\E ch \in Channels : Listen(ch)) \/ UNCHANGED allVars
  BY <1>4 DEF Listen, engineVars, setupVars, allVars, listenVars, Steady
<1>5. QED BY <1>1, <1>2, <1>3, <1>4 DEF SocketNext

(* The place of the buffer that is counted next. *)
LEMMA Places ==
  ASSUME TypeInv
  PROVE  /\ SlotsPerRound \in Nat \ {0} /\ 0..(SlotsPerRound - 1) \subseteq Slots
         /\ bufferCounter \in Nat /\ Place \in 0..(SlotsPerRound - 1)
         /\ workSlots \in [Slots -> Nat \cup {NoData}]
         /\ SlotIndex = Place /\ (RoundFull <=> Place = SlotsPerRound - 1)
         /\ RoundAt(SlotsPerRound, bufferCounter) \in Nat
         /\ Place = SlotsPerRound - 1 =>
              /\ PlaceAt(SlotsPerRound, bufferCounter + 1) = 0
              /\ RoundAt(SlotsPerRound, bufferCounter + 1)
                   = RoundAt(SlotsPerRound, bufferCounter) + 1
         /\ Place # SlotsPerRound - 1 =>
              /\ PlaceAt(SlotsPerRound, bufferCounter + 1) = Place + 1
              /\ RoundAt(SlotsPerRound, bufferCounter + 1)
                   = RoundAt(SlotsPerRound, bufferCounter)
BY GeometryMeans, NextPlace DEF Place, TypeInv, TypeOK

LEMMA SamePlace ==
  ASSUME UNCHANGED <<geometry, bufferCounter>>
  PROVE  SlotsPerRound' = SlotsPerRound /\ Place' = Place /\ (RoundFull' <=> RoundFull)
BY DEF SlotsPerRound, Place, PlaceAt, RoundFull, PartialIndex

LEMMA WorkKept ==
  ASSUME WorkInv, Steady # {}, UNCHANGED <<geometry, bufferCounter, workSlots>>,
         rxpc \in Working, PlacesTaken' = PlacesTaken,
         rxpc' \in {"send1", "send2"} => rxpc \in {"send1", "send2"}
  PROVE  WorkInv'
BY SamePlace DEF WorkInv

LEMMA WorkStep ==
  ASSUME Disciplined, StackInv, RefInv, CountedInv, WorkInv, [SocketNext]_allVars
  PROVE  WorkInv'
<1> SUFFICES ASSUME Steady' # {}, rxpc' \in Working PROVE WorkInv'
  BY DEF WorkInv
<1>a. /\ threadRunning <=> rxpc # "none"
      /\ apc \in {"posting", "abort", "clear"} => ~threadRunning
      /\ apc \in {"ready", "process", "push", "post", "join"} => threadRunning
  BY DEF StackInv, SendInv
<1>b. "none" \notin Working /\ "failed" \notin Working /\ "exited" \notin Working
  BY DEF Working
<1>c. ~Begin
  BY <1>a, <1>b DEF Begin, SimAcquire, rxVars
<1>d. Steady' = Steady /\ geometry' = geometry BY <1>c, SteadyStays
<1>t. TypeInv BY DEF RefInv
<1>e. ASSUME UNCHANGED <<bufferCounter, workSlots, rxpc>> PROVE WorkInv'
  <2>1. PlacesTaken' = PlacesTaken BY <1>d, <1>e, SamePlace DEF PlacesTaken
  <2>2. QED BY <1>d, <1>e, <2>1, WorkKept
<1> USE DEF rxVars, outVars
<1>1. CASE SocketCall
  BY <1>c, <1>e, <1>1 DEF SocketCall, Unregister, UnregisterSockets, Register, RegisterSocket,
     SetAll, WaitForAcquisition, Stop
<1>2. CASE SocketApi
  <2>1. CASE StartAcquire
    <3>1. bufferCounter' = 0 /\ rxpc' = "start" BY <2>1 DEF StartAcquire
    <3>2. SlotsPerRound' = SlotsPerRound BY <1>d DEF SlotsPerRound
    <3>3. 0 % SlotsPerRound = 0 BY <1>t, Places
    <3>4. PlacesTaken' = 0 BY <3>1, <3>2, <3>3 DEF PlacesTaken, Place, PlaceAt
    <3>5. QED BY <3>1, <3>4 DEF WorkInv
  <2>2. CASE ~StartAcquire /\ ~JoinRx
    <3>1. UNCHANGED <<bufferCounter, workSlots, rxpc>>
      BY <1>2, <2>2 DEF SocketApi, PostInitial, AcquireReturn, ProcessForApp, PushForApp,
         PostForApp, AbortOnStop, End, ClearQueues
    <3>2. QED BY <1>e, <3>1
  <2>3. CASE JoinRx BY <1>b, <2>3 DEF JoinRx
  <2>4. QED BY <2>1, <2>2, <2>3
<1>3. CASE (\E ch \in Channels : Listen(ch)) \/ UNCHANGED allVars
  BY <1>e, <1>3 DEF Listen, engineVars, allVars
<1>4. CASE SocketRx
  <2>e. ASSUME UNCHANGED <<bufferCounter, workSlots>>,
               \/ {rxpc, rxpc'} \subseteq
                    Working \ {"send1", "send2", "repost", "post", "count"}
               \/ {rxpc, rxpc'} \subseteq {"send1", "send2", "repost", "post", "count"}
                  /\ (rxpc' \in {"send1", "send2"} => rxpc \in {"send1", "send2"})
        PROVE  WorkInv'
    <3>1. PlacesTaken' = PlacesTaken BY <1>d, <2>e, SamePlace DEF PlacesTaken
    <3>2. QED BY <1>d, <2>e, <3>1, WorkKept DEF Working, HasBuffer
  <2>1. CASE BeginSend BY <1>e, <2>1 DEF BeginSend, engineVars
  <2>2. CASE SendStep
    <3>1. rxpc \in {"send1", "send2"}
      BY <2>2 DEF SendStep, Look, SendSize, SendFloat, StackInv, SendInv
    <3>2. rxpc' \in {"send1", "send2", "repost", "failed"} BY <2>2, <3>1, ChunkStep
    <3>3. UNCHANGED <<bufferCounter, workSlots>> BY <2>2 DEF SendStep
    <3>4. QED BY <1>b, <2>e, <3>1, <3>2, <3>3
  <2>3. CASE SimWait /\ UNCHANGED <<sendVars, listenVars>>
    <3>1. /\ rxpc = "wait" /\ rxpc' \in {"wait", "route", "failed"}
          /\ UNCHANGED <<bufferCounter, workSlots>>
      BY <2>3 DEF SimWait, SimDequeue, SimRecord, SimSuccess, RxGoto, RxReturn, StackInv,
         SendInv
    <3>2. QED BY <1>b, <2>e, <3>1 DEF Working, HasBuffer
  <2> USE DEF RxGoto, RxReturn
  <2>4. CASE RxReady BY <2>e, <2>4 DEF RxReady, Working, HasBuffer
  <2>5. CASE RxLoop BY <2>e, <2>5 DEF RxLoop, Working, HasBuffer
  <2>6. CASE RxPop BY <2>e, <2>6 DEF RxPop, Working, HasBuffer
  <2>7. CASE RxPopEmpty BY <2>e, <2>7 DEF RxPopEmpty, Working, HasBuffer
  <2>8. CASE RxCheckStop BY <2>e, <2>8 DEF RxCheckStop, Working, HasBuffer
  <2>9. CASE RxRoute BY <2>e, <2>9 DEF RxRoute, Working, HasBuffer
  <2>10. CASE RxQueue
    <3>1. Steady = {} BY <2>10 DEF RxQueue, StackInv, SendInv, Steady
    <3>2. QED BY <1>d, <3>1
  <2>11. CASE RxProcess
    <3>1. /\ rxpc = "process" /\ UNCHANGED bufferCounter
          /\ workSlots' = [workSlots EXCEPT ![SlotIndex] = content[rxBuf]]
          /\ rxpc' = IF RoundFull THEN "send1" ELSE "repost"
      BY <2>11 DEF RxProcess, Process
    <3>2. content[rxBuf] = bufferCounter BY <3>1 DEF CountedInv, HasBuffer
    <3>3. Place' = Place /\ (RoundFull' <=> RoundFull) BY <1>d, <3>1, SamePlace
    <3>4. PlacesTaken = Place /\ PlacesTaken' = Place + 1
      BY <3>1, <3>3 DEF PlacesTaken
    <3>5. \A i \in 0..(Place - 1) : workSlots[i] = bufferCounter - Place + i
      BY <1>d, <3>1, <3>4 DEF WorkInv, Working, HasBuffer
    <3>6. ASSUME NEW i \in 0..Place PROVE workSlots'[i] = bufferCounter - Place + i
      <4>1. SlotIndex = Place /\ Place \in Slots /\ i \in Slots /\ bufferCounter \in Nat
            /\ workSlots \in [Slots -> Nat \cup {NoData}] /\ Place \in Nat
        BY <1>t, <3>6, Places
      <4>2. CASE i = Place BY <3>1, <3>2, <4>1, <4>2
      <4>3. CASE i # Place
        <5>1. workSlots'[i] = workSlots[i] BY <3>1, <4>1, <4>3
        <5>2. i \in 0..(Place - 1) BY <4>1, <4>3
        <5>3. QED BY <3>5, <5>1, <5>2
      <4>4. QED BY <4>2, <4>3
    <3>7. PlacesTaken' - 1 = Place BY <1>t, <3>4, Places
    <3>8. \A i \in 0..(PlacesTaken' - 1) : workSlots'[i] = bufferCounter' - Place' + i
      BY <3>1, <3>3, <3>6, <3>7
    <3>9. rxpc' \in {"send1", "send2"} => RoundFull' BY <3>1, <3>3
    <3>10. QED BY <3>8, <3>9 DEF WorkInv
  <2>12. CASE RxRepost BY <2>e, <2>12 DEF RxRepost
  <2>13. CASE RxPost BY <2>e, <2>13, <1>b DEF RxPost
  <2>14. CASE RxCount
    <3>1. /\ rxpc = "count" /\ rxpc' = "loop" /\ bufferCounter' = bufferCounter + 1
          /\ UNCHANGED workSlots
      BY <1>b, <2>14 DEF RxCount
    <3>2. Place' = PlaceAt(SlotsPerRound, bufferCounter + 1)
      BY <1>d, <3>1 DEF Place, SlotsPerRound
    <3>3. PlacesTaken = Place + 1 /\ PlacesTaken' = Place' BY <3>1 DEF PlacesTaken
    <3>4. \A i \in 0..Place : workSlots[i] = bufferCounter - Place + i
      <4>1. PlacesTaken - 1 = Place BY <1>t, <3>3, Places
      <4>2. \A i \in 0..(PlacesTaken - 1) : workSlots[i] = bufferCounter - Place + i
        BY <1>d, <3>1 DEF WorkInv, Working, HasBuffer
      <4>3. QED BY <4>1, <4>2
    <3>5. ASSUME NEW i \in 0..(Place' - 1)
          PROVE  workSlots'[i] = bufferCounter' - Place' + i
      <4>1. Place' = Place + 1 /\ Place \in Nat /\ bufferCounter \in Nat
        <5>1. CASE Place = SlotsPerRound - 1
          <6>1. Place' = 0 BY <1>t, <3>2, <5>1, Places
          <6>2. QED BY <3>5, <6>1
        <5>2. CASE Place # SlotsPerRound - 1 BY <1>t, <3>2, <5>2, Places
        <5>3. QED BY <5>1, <5>2
      <4>2. i \in 0..Place BY <3>5, <4>1
      <4>3. bufferCounter' - Place' + i = bufferCounter - Place + i BY <3>1, <4>1, <4>2
      <4>4. QED BY <3>1, <3>4, <4>2, <4>3
    <3>6. \A i \in 0..(PlacesTaken' - 1) : workSlots'[i] = bufferCounter' - Place' + i
      BY <3>3, <3>5
    <3>7. QED BY <3>1, <3>6 DEF WorkInv
  <2>15. CASE RxAbort BY <1>b, <2>15 DEF RxAbort
  <2>16. QED
    BY <1>4, <2>1, <2>2, <2>3, <2>4, <2>5, <2>6, <2>7, <2>8, <2>9, <2>10, <2>11, <2>12,
       <2>13, <2>14, <2>15 DEF SocketRx
<1>5. QED BY <1>1, <1>2, <1>3, <1>4 DEF SocketNext

(* What goes out is the round robin that was completed last. *)
LEMMA WholeRoundGoesOut ==
  ASSUME TypeInv, WorkInv, Steady # {}, rxpc \in {"send1", "send2"}
  PROVE  /\ RoundOf(workSlots) = RoundAt(SlotsPerRound, bufferCounter)
         /\ Place = SlotsPerRound - 1
<1> DEFINE P == SlotsPerRound
           n == bufferCounter
<1>1. P \in Nat \ {0} /\ n \in Nat BY Places
<1>2. RoundFull /\ \A i \in 0..(PlacesTaken - 1) : workSlots[i] = n - Place + i
  BY DEF WorkInv, Working, HasBuffer
<1>3. Place = P - 1 BY <1>2, Places
<1>4. PlacesTaken - 1 = P - 1 BY <1>1, <1>3 DEF PlacesTaken
<1>5. \A i \in 0..(P - 1) : workSlots[i] = n - (P - 1) + i BY <1>2, <1>3, <1>4
<1>6. /\ n - (P - 1) \in Nat /\ (n - (P - 1)) % P = 0
      /\ (n - (P - 1)) \div P = RoundAt(P, n)
  BY <1>1, <1>3, NextPlace DEF Place
<1> HIDE DEF P, n
<1>7. PICK m \in Nat : m = n - (P - 1) BY <1>6
<1>8. m % P = 0 /\ m \div P = RoundAt(P, n) BY <1>6, <1>7
<1>9. \A i \in 0..(P - 1) : workSlots[i] = m + i BY <1>1, <1>5, <1>7
<1>10. workSlots[0] = m BY <1>1, <1>9
<1>11. RoundOf(workSlots) = m \div P
  BY <1>8, <1>9, <1>10 DEF RoundOf, P, NoData
<1>12. QED BY <1>3, <1>8, <1>11 DEF P, n
-----------------------------------------------------------------------------
(* The floats on a socket: from the one after the last that the listener   *)
(* took, in order, to the one before the next that rx will send.           *)

Floats(w) == {i \in 1..Len(w) : w[i].kind = "float"}
Carries(w, taken, next) ==
  /\ taken \in Int /\ taken < next
  /\ \A i, j \in Floats(w) : i < j => w[i].value < w[j].value
  /\ \A k \in (taken + 1)..(next - 1) : \E i \in Floats(w) : w[i].value = k
  /\ \A i \in Floats(w) : w[i].value \in (taken + 1)..(next - 1)

LEMMA CarriesNothing == Carries(<<>>, NoData, 0)
<1>1. Floats(<<>>) = {} BY DEF Floats
<1>2. QED BY <1>1 DEF Carries, NoData

LEMMA CarriesSize ==
  ASSUME NEW w \in Seq(Items), NEW taken, NEW next \in Int, Carries(w, taken, next),
         NEW item \in Items, item.kind # "float"
  PROVE  Carries(Append(w, item), taken, next)
<1> DEFINE v == Append(w, item)
<1>1. /\ Len(v) = Len(w) + 1 /\ Len(w) \in Nat /\ v[Len(w) + 1] = item
      /\ \A i \in 1..Len(w) : v[i] = w[i]
  OBVIOUS
<1> HIDE DEF v
<1>2. Floats(v) = Floats(w) BY <1>1 DEF Floats
<1>3. \A i \in Floats(w) : v[i] = w[i] BY <1>1 DEF Floats
<1>4. Carries(v, taken, next) BY <1>2, <1>3 DEF Carries
<1>5. QED BY <1>4 DEF v

LEMMA CarriesFloat ==
  ASSUME NEW w \in Seq(Items), NEW taken, NEW next \in Int, Carries(w, taken, next)
  PROVE  Carries(Append(w, FloatItem(next)), taken, next + 1)
<1> DEFINE v == Append(w, FloatItem(next))
           l == Len(w) + 1
<1>a. FloatItem(next) \in Items BY DEF FloatItem, Items
<1>1. /\ Len(v) = Len(w) + 1 /\ Len(w) \in Nat /\ v[l] = FloatItem(next)
      /\ \A i \in 1..Len(w) : v[i] = w[i]
  BY <1>a
<1> HIDE DEF v
<1>2. Floats(v) = Floats(w) \cup {l} BY <1>1 DEF Floats, FloatItem
<1>3. \A i \in Floats(w) : v[i] = w[i] /\ i < l /\ i \in Int /\ i # l BY <1>1 DEF Floats
<1>4. v[l].value = next BY <1>1 DEF FloatItem
<1>5. taken \in Int /\ taken < next BY DEF Carries
<1>6. \A i \in Floats(w) : w[i].value \in Int /\ taken < w[i].value /\ w[i].value < next
  BY <1>5 DEF Carries
<1>7. ASSUME NEW i \in Floats(v), NEW j \in Floats(v), i < j
      PROVE  v[i].value < v[j].value
  <2>1. i \in Floats(w) BY <1>1, <1>2, <1>3, <1>7
  <2>2. CASE j \in Floats(w) BY <1>3, <1>7, <2>1, <2>2 DEF Carries
  <2>3. CASE j = l BY <1>3, <1>4, <1>6, <2>1, <2>3
  <2>4. QED BY <1>2, <2>2, <2>3
<1>8. ASSUME NEW k \in (taken + 1)..next PROVE \E i \in Floats(v) : v[i].value = k
  <2>1. CASE k = next BY <1>2, <1>4, <2>1
  <2>2. CASE k # next
    <3>1. k \in (taken + 1)..(next - 1) BY <1>5, <2>2
    <3>2. PICK i \in Floats(w) : w[i].value = k BY <3>1 DEF Carries
    <3>3. QED BY <1>2, <1>3, <3>2
  <2>3. QED BY <2>1, <2>2
<1>9. ASSUME NEW i \in Floats(v) PROVE v[i].value \in (taken + 1)..next
  BY <1>2, <1>3, <1>4, <1>5, <1>6
<1>10. next + 1 - 1 = next /\ taken < next + 1 BY <1>5
<1>11. Carries(v, taken, next + 1) BY <1>5, <1>7, <1>8, <1>9, <1>10 DEF Carries
<1>12. QED BY <1>11 DEF v

LEMMA CarriesTail ==
  ASSUME NEW w \in Seq(Items), NEW taken, NEW next \in Int, Carries(w, taken, next),
         w # <<>>
  PROVE  IF Head(w).kind = "float"
         THEN /\ Head(w).value = taken + 1 /\ taken + 1 < next
              /\ Carries(Tail(w), taken + 1, next)
         ELSE Carries(Tail(w), taken, next)
<1> DEFINE v == Tail(w)
<1>1. /\ Len(v) = Len(w) - 1 /\ Len(w) \in Nat /\ Len(w) > 0 /\ Head(w) = w[1]
      /\ \A i \in 1..(Len(w) - 1) : v[i] = w[i + 1]
  OBVIOUS
<1> HIDE DEF v
<1>2. ASSUME NEW i \in Floats(v)
      PROVE  i + 1 \in Floats(w) /\ v[i] = w[i + 1] /\ i \in Int /\ i + 1 > 1
  BY <1>1 DEF Floats
<1>3. ASSUME NEW i \in Floats(w), i # 1
      PROVE  i - 1 \in Floats(v) /\ v[i - 1] = w[i]
  <2>1. i \in 2..Len(w) /\ w[i].kind = "float" BY <1>1, <1>3 DEF Floats
  <2>2. i - 1 \in 1..(Len(w) - 1) /\ i - 1 + 1 = i BY <1>1, <2>1
  <2>3. v[i - 1] = w[i] BY <1>1, <2>2
  <2>4. QED BY <1>1, <2>1, <2>2, <2>3 DEF Floats
<1>4. taken \in Int /\ taken < next BY DEF Carries
<1>5. ASSUME NEW i \in Floats(v), NEW j \in Floats(v), i < j
      PROVE  v[i].value < v[j].value
  BY <1>2, <1>5 DEF Carries
<1>6. CASE w[1].kind = "float"
  <2>1. 1 \in Floats(w) BY <1>1, <1>6 DEF Floats
  <2>2. w[1].value \in (taken + 1)..(next - 1) BY <2>1 DEF Carries
  <2>3. taken + 1 \in (taken + 1)..(next - 1) BY <1>4, <2>2
  <2>4. PICK i \in Floats(w) : w[i].value = taken + 1 BY <2>3 DEF Carries
  <2>5. i = 1
    <3>1. SUFFICES ASSUME i # 1 PROVE FALSE OBVIOUS
    <3>2. 1 < i BY <3>1 DEF Floats
    <3>3. w[1].value < w[i].value BY <2>1, <3>2 DEF Carries
    <3>4. QED BY <1>4, <2>2, <2>4, <3>3
  <2>6. w[1].value = taken + 1 BY <2>4, <2>5
  <2>7. ASSUME NEW k \in (taken + 1 + 1)..(next - 1)
        PROVE  \E j \in Floats(v) : v[j].value = k
    <3>1. k \in (taken + 1)..(next - 1) /\ k # taken + 1 BY <1>4
    <3>2. PICK j \in Floats(w) : w[j].value = k BY <3>1 DEF Carries
    <3>3. j # 1 BY <2>6, <3>1, <3>2
    <3>4. QED BY <1>3, <3>2, <3>3
  <2>8. ASSUME NEW j \in Floats(v) PROVE v[j].value \in (taken + 1 + 1)..(next - 1)
    <3>1. w[1].value < w[j + 1].value /\ w[j + 1].value \in (taken + 1)..(next - 1)
      BY <1>2, <2>1 DEF Carries
    <3>2. QED BY <1>2, <1>4, <2>6, <3>1
  <2>9. taken + 1 < next BY <1>4, <2>3
  <2>10. Carries(v, taken + 1, next) BY <1>4, <1>5, <2>7, <2>8, <2>9 DEF Carries
  <2>11. QED BY <1>1, <1>6, <2>6, <2>9, <2>10 DEF v
<1>7. CASE w[1].kind # "float"
  <2>1. 1 \notin Floats(w) BY <1>7 DEF Floats
  <2>2. ASSUME NEW k \in (taken + 1)..(next - 1)
        PROVE  \E j \in Floats(v) : v[j].value = k
    <3>1. PICK j \in Floats(w) : w[j].value = k BY DEF Carries
    <3>2. QED BY <1>3, <2>1, <3>1
  <2>3. ASSUME NEW j \in Floats(v) PROVE v[j].value \in (taken + 1)..(next - 1)
    BY <1>2 DEF Carries
  <2>4. Carries(v, taken, next) BY <1>4, <1>5, <2>2, <2>3 DEF Carries
  <2>5. QED BY <1>1, <1>7, <2>4 DEF v
<1>8. QED BY <1>6, <1>7
-----------------------------------------------------------------------------
(* Where rx is in each channel's stream. *)

(* The round robins it is done with, and the floats of the next one: the   *)
(* chunks before this one, and what has gone of this one.                  *)
RoundsDone ==
  RoundAt(SlotsPerRound, IF rxpc \in {"repost", "post", "count"} THEN bufferCounter + 1
                         ELSE bufferCounter)
OfThisChunk(ch) ==
  CASE ch = "ch1" /\ step = "data1" -> moved
    [] ch = "ch1" /\ step \in {"look2", "size2", "data2"} -> chunk
    [] ch = "ch2" /\ step = "data2" -> moved
    [] OTHER -> 0
OfThisRound(ch) == IF step = "none" THEN 0 ELSE WorkLen - rem + OfThisChunk(ch)
FloatsSent(ch) == RoundsDone * WorkLen + OfThisRound(ch)

(* On a steady channel's socket are the floats up to there and no further; *)
(* once rx has given up a buffer nothing more comes.                       *)
FloatsOf(ch) ==
  \E next \in Nat :
    /\ next <= NumberAcquisitions * WorkLen
    /\ Carries(wire[ch], received[ch], next)
    /\ apc = "posting" => next = 0
    /\ rxpc \in Working => next = FloatsSent(ch)
FloatInv ==
  /\ received \in [Channels -> Int]
  /\ \A ch \in Steady : FloatsOf(ch)

LEMMA InitFloat == SocketInit => FloatInv
BY DEF SocketInit, FloatInv, Steady, NoData

LEMMA SentSame ==
  ASSUME NEW ch \in Channels, UNCHANGED <<geometry, bufferCounter, step, rem, chunk, moved>>,
         rxpc' \in {"repost", "post", "count"} <=> rxpc \in {"repost", "post", "count"}
  PROVE  FloatsSent(ch)' = FloatsSent(ch)
<1>1. OfThisRound(ch)' = OfThisRound(ch) BY DEF OfThisRound, OfThisChunk
<1>2. RoundsDone' = RoundsDone BY DEF RoundsDone, SlotsPerRound, RoundAt
<1>3. QED BY <1>1, <1>2 DEF FloatsSent

(* A step that leaves a steady channel's stream where it is. *)
LEMMA FloatsKept ==
  ASSUME NEW ch \in Channels, FloatsOf(ch),
         wire'[ch] = wire[ch], received'[ch] = received[ch], geometry' = geometry,
         apc' = "posting" => apc = "posting",
         rxpc' \in Working => rxpc \in Working /\ FloatsSent(ch)' = FloatsSent(ch)
  PROVE  FloatsOf(ch)'
<1>1. PICK next \in Nat :
        /\ next <= NumberAcquisitions * WorkLen
        /\ Carries(wire[ch], received[ch], next)
        /\ apc = "posting" => next = 0
        /\ rxpc \in Working => next = FloatsSent(ch)
  BY DEF FloatsOf
<1>2. NumberAcquisitions' = NumberAcquisitions BY DEF NumberAcquisitions
<1>3. Carries(wire'[ch], received'[ch], next) BY <1>1
<1>4. QED BY <1>1, <1>2, <1>3 DEF FloatsOf

(* The end of a channel's part: channel 1's chunk is out, or both.  With   *)
(* the last chunk of channel 2 the whole round robin is.                   *)
LEMMA DoneSent ==
  ASSUME TypeInv, LoopType, step # "none", rxpc \in {"send1", "send2"},
         Place = SlotsPerRound - 1, UNCHANGED <<geometry, bufferCounter>>,
         NEW ch \in Channels, NEW c \in Channels, ChannelDone(ch)
  PROVE  FloatsSent(c)' = RoundAt(SlotsPerRound, bufferCounter) * WorkLen + (WorkLen - rem)
                            + (IF ch = "ch1" /\ c = "ch2" THEN 0 ELSE chunk)
<1> DEFINE R == RoundAt(SlotsPerRound, bufferCounter)
<1>1. /\ R \in Nat /\ RoundAt(SlotsPerRound, bufferCounter + 1) = R + 1
  BY Places
<1>2. SlotsPerRound' = SlotsPerRound BY SamePlace
<1>3. rem \in Nat /\ chunk \in Nat /\ WorkLen \in Nat
  BY WireAssumption DEF LoopType, SocketBuffSize
<1> HIDE DEF R
<1>4. \A a, b \in Nat : a * b \in Nat /\ (a + 1) * b = a * b + b OBVIOUS
<1>5. PICK rw \in Nat : rw = R * WorkLen /\ (R + 1) * WorkLen = rw + WorkLen
  BY <1>1, <1>3, <1>4
<1>6. CASE ch = "ch2" /\ LastChunk
  <2>1. step' = "none" /\ rxpc' = "repost" BY <1>6 DEF ChannelDone, RxGoto
  <2>2. RoundsDone' = R + 1 BY <1>1, <1>2, <2>1 DEF RoundsDone
  <2>3. FloatsSent(c)' = (R + 1) * WorkLen + 0 BY <2>1, <2>2 DEF FloatsSent, OfThisRound
  <2>4. rem = chunk BY <1>6 DEF LastChunk
  <2>5. QED BY <1>3, <1>5, <1>6, <2>3, <2>4 DEF R
<1>7. CASE ~(ch = "ch2" /\ LastChunk)
  <2>1. rxpc' \in {"send1", "send2"}
    BY <1>7 DEF ChannelDone, RxGoto, Channels
  <2>2. RoundsDone' = R BY <1>2, <2>1 DEF RoundsDone, R
  <2>3. OfThisRound(c)' = (WorkLen - rem) + (IF ch = "ch1" /\ c = "ch2" THEN 0 ELSE chunk)
    <3>1. CASE ch = "ch1"
      <4>1. step' = "look2" /\ rem' = rem /\ chunk' = chunk BY <3>1 DEF ChannelDone
      <4>2. QED BY <1>3, <3>1, <4>1 DEF OfThisRound, OfThisChunk, Channels
    <3>2. CASE ch = "ch2"
      <4>1. step' = "look1" /\ rem' = rem - chunk BY <1>7, <3>2 DEF ChannelDone
      <4>2. QED BY <1>3, <3>2, <4>1 DEF OfThisRound, OfThisChunk, Channels
    <3>3. QED BY <3>1, <3>2 DEF Channels
  <2>4. FloatsSent(c)' = R * WorkLen + OfThisRound(c)' BY <2>2 DEF FloatsSent
  <2>5. QED BY <1>3, <1>5, <2>3, <2>4 DEF R
<1>8. QED BY <1>6, <1>7

(* A whole round robin's floats are no more than the acquisition's. *)
LEMMA RoundFits ==
  ASSUME TypeInv, bufferCounter < geometry.nbrBuffers, Place = SlotsPerRound - 1
  PROVE  RoundAt(SlotsPerRound, bufferCounter) * WorkLen + WorkLen
           <= NumberAcquisitions * WorkLen
<1>1. /\ bufferCounter \in Nat /\ geometry.nbrBuffers \in Nat
      /\ SlotsPerRound \in Nat \ {0}
      /\ NumberAcquisitions = RoundAt(SlotsPerRound, geometry.nbrBuffers)
  BY GeometryMeans DEF TypeInv, TypeOK, Geometry
<1>2. PICK m \in Nat : m = bufferCounter + 1 BY <1>1
<1>3. m <= geometry.nbrBuffers BY <1>1, <1>2
<1>4. RoundAt(SlotsPerRound, m) <= NumberAcquisitions BY <1>1, <1>2, <1>3, RoundsGrow
<1>5. PICK q \in Nat : q = RoundAt(SlotsPerRound, bufferCounter) BY Places
<1>6. RoundAt(SlotsPerRound, m) = q + 1 BY <1>2, <1>5, Places
<1>7. PICK n \in Nat : n = NumberAcquisitions BY TotalIsNat
<1>8. PICK d \in Nat : n = q + 1 + d
  <2>1. n - q - 1 \in Nat BY <1>4, <1>6, <1>7
  <2>2. n = q + 1 + (n - q - 1) OBVIOUS
  <2>3. QED BY <2>1, <2>2
<1>9. WorkLen \in Nat BY WireAssumption
<1>10. \A a, b, w \in Nat : a * w + w <= (a + 1 + b) * w
  <2> SUFFICES ASSUME NEW a \in Nat, NEW b \in Nat, NEW w \in Nat
               PROVE  a * w + w <= (a + 1 + b) * w
    OBVIOUS
  <2>1. (a + 1 + b) * w = a * w + w + b * w OBVIOUS
  <2>2. a * w \in Nat /\ b * w \in Nat OBVIOUS
  <2>3. QED BY <2>1, <2>2
<1>11. q * WorkLen + WorkLen <= n * WorkLen BY <1>8, <1>9, <1>10
<1>12. QED BY <1>5, <1>7, <1>11

(* One step of the loop over the chunks: what it puts on a steady socket   *)
(* is a size or the stream's next float.                                   *)
LEMMA SendFloats ==
  ASSUME StackInv, RefInv, CountedInv, WorkInv, FloatInv, SendStep, Steady # {}
  PROVE  \A c \in Steady : FloatsOf(c)'
<1>1. /\ step # "none" /\ rxpc \in {"send1", "send2"} /\ LoopType /\ TypeInv
      /\ UNCHANGED <<received, apc, sockets, kept, geometry, bufferCounter, workSlots>>
      /\ wire \in [Channels -> Seq(Items)]
      /\ Steady \subseteq sockets /\ Steady \subseteq Channels
  BY DEF SendStep, Look, SendSize, SendFloat, StackInv, SendInv, SocketType, WireType,
     TypeInv, TypeOK, setupVars, apiVars, Steady
<1>2. /\ RoundOf(workSlots) = RoundAt(SlotsPerRound, bufferCounter)
      /\ Place = SlotsPerRound - 1
  BY <1>1, WholeRoundGoesOut
<1>3. /\ rem \in Nat /\ chunk \in Nat /\ moved \in Nat /\ WorkLen \in Nat
      /\ chunk <= rem /\ rem <= WorkLen /\ moved + 1 <= chunk
  BY <1>1, WireAssumption DEF LoopType, SocketBuffSize
<1> DEFINE sent == RoundAt(SlotsPerRound, bufferCounter) * WorkLen
<1>4. RoundAt(SlotsPerRound, bufferCounter) \in Nat BY <1>1, Places
<1>5. sent \in Nat
  <2>1. \A a, b \in Nat : a * b \in Nat OBVIOUS
  <2>2. QED BY <1>3, <1>4, <2>1
<1>6. SlotsPerRound' = SlotsPerRound BY <1>1, SamePlace
<1>7. RoundsDone = RoundAt(SlotsPerRound, bufferCounter) BY <1>1 DEF RoundsDone
<1>8. \A c : FloatsSent(c) = sent + OfThisRound(c) BY <1>7 DEF FloatsSent
<1>9. rxpc \in Working /\ rxpc' \in {"send1", "send2", "repost", "failed"}
  BY <1>1, ChunkStep DEF Working
<1>10. ASSUME SendFails, NEW c \in Steady PROVE FloatsOf(c)'
  <2>1. wire' = wire /\ rxpc' = "failed" BY <1>10 DEF SendFails, RxReturn
  <2>2. rxpc' \notin Working BY <2>1 DEF Working
  <2>3. QED BY <1>1, <2>1, <2>2, FloatsKept DEF FloatInv
<1> HIDE DEF sent
<1>11. ASSUME NEW ch \in Channels, NEW c \in Channels, ChannelDone(ch)
       PROVE  FloatsSent(c)' = sent + (WorkLen - rem)
                                 + (IF ch = "ch1" /\ c = "ch2" THEN 0 ELSE chunk)
  BY <1>1, <1>2, <1>11, DoneSent DEF sent
<1>12. ASSUME NEW ch \in Channels, NEW here, NEW size, Look(ch, here, size),
              <<ch, here, size>> \in {<<"ch1", "look1", "size1">>, <<"ch2", "look2", "size2">>},
              NEW c \in Steady
       PROVE  FloatsOf(c)'
  <2>1. wire' = wire BY <1>12 DEF Look
  <2>2. FloatsSent(c)' = FloatsSent(c)
    <3>1. CASE ch \in sockets
      <4>1. /\ step = here /\ step' = size
            /\ UNCHANGED <<rem, chunk, moved, rxpc>>
        BY <1>12, <3>1 DEF Look, rxVars
      <4>2. RoundsDone' = RoundsDone BY <1>1, <1>6, <4>1 DEF RoundsDone
      <4>3. OfThisRound(c)' = OfThisRound(c)
        BY <1>12, <4>1 DEF OfThisRound, OfThisChunk
      <4>4. QED BY <4>2, <4>3 DEF FloatsSent
    <3>2. CASE ch \notin sockets
      <4>1. c \in Channels /\ c # ch BY <1>1, <3>2
      <4>2. step = here /\ ChannelDone(ch) BY <1>12, <3>2 DEF Look
      <4>3. OfThisRound(c) = (WorkLen - rem) + (IF ch = "ch1" THEN 0 ELSE chunk)
        BY <1>3, <1>12, <4>1, <4>2 DEF OfThisRound, OfThisChunk, Channels
      <4>4. FloatsSent(c)' = sent + (WorkLen - rem) + (IF ch = "ch1" THEN 0 ELSE chunk)
        BY <1>11, <4>1, <4>2 DEF Channels
      <4>5. QED BY <1>3, <1>5, <1>8, <4>3, <4>4
    <3>3. QED BY <3>1, <3>2
  <2>3. QED BY <1>1, <1>9, <2>1, <2>2, FloatsKept DEF FloatInv
<1>13. ASSUME NEW ch \in Channels, NEW here, NEW data, SendSize(ch, here, data),
              <<ch, here, data>> \in {<<"ch1", "size1", "data1">>, <<"ch2", "size2", "data2">>},
              NEW c \in Steady
       PROVE  FloatsOf(c)'
  <2>1. CASE SendFails BY <1>10, <2>1
  <2>2. CASE ~SendFails
    <3>1. /\ step = here /\ step' = data /\ moved' = 0
          /\ UNCHANGED <<rem, chunk, rxpc>>
          /\ wire' = [wire EXCEPT ![ch] = Append(@, SizeItem(chunk))]
      BY <1>13, <2>2 DEF SendSize, rxVars
    <3>2. FloatsSent(c)' = FloatsSent(c)
      <4>1. RoundsDone' = RoundsDone BY <1>1, <1>6, <3>1 DEF RoundsDone
      <4>2. OfThisRound(c)' = OfThisRound(c)
        BY <1>13, <3>1 DEF OfThisRound, OfThisChunk
      <4>3. QED BY <4>1, <4>2 DEF FloatsSent
    <3>3. PICK next \in Nat :
            /\ next <= NumberAcquisitions * WorkLen
            /\ Carries(wire[c], received[c], next)
            /\ apc = "posting" => next = 0
            /\ rxpc \in Working => next = FloatsSent(c)
      BY DEF FloatInv, FloatsOf
    <3>4. Carries(wire'[c], received[c], next)
      <4>1. CASE c = ch
        <5>1. SizeItem(chunk) \in Items /\ SizeItem(chunk).kind # "float"
          BY <1>3 DEF SizeItem, Items
        <5>2. wire'[c] = Append(wire[c], SizeItem(chunk)) BY <1>1, <3>1, <4>1
        <5>3. wire[c] \in Seq(Items) BY <1>1
        <5>4. QED BY <3>3, <5>1, <5>2, <5>3, CarriesSize
      <4>2. CASE c # ch BY <1>1, <3>1, <3>3, <4>2
      <4>3. QED BY <4>1, <4>2
    <3>5. NumberAcquisitions' = NumberAcquisitions BY <1>1 DEF NumberAcquisitions
    <3>6. QED BY <1>1, <3>1, <3>2, <3>3, <3>4, <3>5 DEF FloatsOf
  <2>3. QED BY <2>1, <2>2
<1>14. ASSUME NEW ch \in Channels, NEW here, SendFloat(ch, here),
              <<ch, here>> \in {<<"ch1", "data1">>, <<"ch2", "data2">>},
              NEW c \in Steady
       PROVE  FloatsOf(c)'
  <2>1. CASE SendFails BY <1>10, <2>1
  <2>2. CASE ~SendFails
    <3>1. /\ step = here
          /\ \/ /\ moved + 1 < chunk /\ moved' = moved + 1
                /\ UNCHANGED <<step, rem, chunk, rxpc>>
             \/ ~(moved + 1 < chunk) /\ ChannelDone(ch)
          /\ wire' = [wire EXCEPT ![ch] = Append(@, FloatItem(sent + (WorkLen - rem) + moved))]
      BY <1>2, <1>14, <2>2 DEF SendFloat, rxVars, sent
    <3>2. c \in Channels BY <1>1
    <3>3. OfThisRound(c) = (WorkLen - rem) + (IF c = ch THEN moved
                                              ELSE IF c = "ch1" THEN chunk ELSE 0)
      BY <1>3, <1>14, <3>1, <3>2 DEF OfThisRound, OfThisChunk, Channels
    <3>4. FloatsSent(c)' = FloatsSent(c) + (IF c = ch THEN 1 ELSE 0)
      <4>1. CASE moved + 1 < chunk
        <5>1. RoundsDone' = RoundsDone BY <1>1, <1>6, <3>1, <4>1 DEF RoundsDone
        <5>2. moved' = moved + 1 /\ UNCHANGED <<step, rem, chunk>> BY <3>1, <4>1
        <5>3. OfThisRound(c)' = OfThisRound(c) + (IF c = ch THEN 1 ELSE 0)
          BY <1>3, <1>14, <3>1, <3>2, <5>2 DEF OfThisRound, OfThisChunk, Channels
        <5>4. FloatsSent(c)' = sent + OfThisRound(c)'
          BY <1>1, <1>6, <1>7, <5>1 DEF FloatsSent, sent
        <5>5. QED BY <1>3, <1>5, <1>8, <3>3, <5>3, <5>4
      <4>2. CASE ~(moved + 1 < chunk)
        <5>1. moved + 1 = chunk BY <1>3, <4>2
        <5>2. FloatsSent(c)' = sent + (WorkLen - rem)
                                 + (IF ch = "ch1" /\ c = "ch2" THEN 0 ELSE chunk)
          BY <1>11, <3>1, <3>2, <4>2
        <5>3. (IF ch = "ch1" /\ c = "ch2" THEN 0 ELSE chunk)
                = (IF c = ch THEN moved ELSE IF c = "ch1" THEN chunk ELSE 0)
                    + (IF c = ch THEN 1 ELSE 0)
          BY <1>3, <3>2, <5>1 DEF Channels
        <5>4. QED BY <1>3, <1>5, <1>8, <3>3, <5>2, <5>3
      <4>3. QED BY <4>1, <4>2
    <3>5. PICK next \in Nat :
            /\ next <= NumberAcquisitions * WorkLen
            /\ Carries(wire[c], received[c], next)
            /\ apc = "posting" => next = 0
            /\ rxpc \in Working => next = FloatsSent(c)
      BY DEF FloatInv, FloatsOf
    <3>6. apc # "posting" BY <1>1 DEF StackInv, SendInv
    <3>7. next = FloatsSent(c) BY <1>9, <3>5
    <3>8. NumberAcquisitions' = NumberAcquisitions BY <1>1 DEF NumberAcquisitions
    <3>9. CASE c = ch
      <4>1. next = sent + (WorkLen - rem) + moved BY <1>3, <1>5, <1>8, <3>3, <3>7, <3>9
      <4>2. wire[c] \in Seq(Items) BY <1>1
      <4>3. wire'[c] = Append(wire[c], FloatItem(next)) BY <1>1, <3>1, <3>9, <4>1
      <4>4. Carries(wire'[c], received'[c], next + 1)
        BY <1>1, <3>5, <4>2, <4>3, CarriesFloat
      <4>5. next + 1 <= NumberAcquisitions * WorkLen
        <5>1. sent + WorkLen <= NumberAcquisitions * WorkLen
          BY <1>1, <1>2, RoundFits DEF CountedInv, HasBuffer, sent
        <5>2. next + 1 <= sent + WorkLen BY <1>3, <1>5, <4>1
        <5>3. NumberAcquisitions * WorkLen \in Int
          BY <1>1, <1>3, TotalIsNat
        <5>4. QED BY <1>3, <1>5, <5>1, <5>2, <5>3
      <4>6. FloatsSent(c)' = next + 1 BY <3>4, <3>7, <3>9
      <4>7. next + 1 \in Nat OBVIOUS
      <4>8. QED BY <1>1, <3>6, <3>8, <4>4, <4>5, <4>6, <4>7 DEF FloatsOf
    <3>10. CASE c # ch
      <4>1. wire'[c] = wire[c] BY <1>1, <3>1, <3>10
      <4>2. FloatsSent(c)' = FloatsSent(c) BY <3>4, <3>5, <3>7, <3>10
      <4>3. FloatsOf(c) BY DEF FloatInv
      <4>4. QED BY <1>1, <1>9, <3>2, <4>1, <4>2, <4>3, FloatsKept
    <3>11. QED BY <3>9, <3>10
  <2>3. QED BY <2>1, <2>2
<1>15. "ch1" \in Channels /\ "ch2" \in Channels BY DEF Channels
<1>16. QED BY <1>12, <1>13, <1>14, <1>15 DEF SendStep

(* The rest of rx only has to agree with itself on the round robins done.  *)
LEMMA RxFloats ==
  ASSUME StackInv, RefInv, CountedInv, WorkInv, FloatInv, SocketRx, Steady # {}
  PROVE  \A c \in Steady : FloatsOf(c)'
<1>a. /\ TypeInv /\ Steady \subseteq Channels /\ Steady \subseteq sockets
      /\ \A c \in Steady : FloatsOf(c)
      /\ UNCHANGED <<geometry, apc>> /\ SlotsPerRound' = SlotsPerRound
      /\ step # "none" => rxpc \in {"send1", "send2"}
  BY RxLeavesSetup
  DEF StackInv, SendInv, SocketType, TypeInv, TypeOK, Steady, FloatInv, SlotsPerRound
<1>1. CASE SendStep BY <1>1, SendFloats
<1>2. ASSUME UNCHANGED <<wire, received>>,
             \A c \in Steady : rxpc' \in Working =>
               rxpc \in Working /\ FloatsSent(c)' = FloatsSent(c)
      PROVE  \A c \in Steady : FloatsOf(c)'
  BY <1>a, <1>2, FloatsKept
<1>3. CASE BeginSend
  <2>1. /\ step = "none" /\ rem' = WorkLen /\ step' = "look1" /\ rxpc = "send1"
        /\ UNCHANGED <<rxpc, bufferCounter, wire, received>>
    BY <1>3 DEF BeginSend, engineVars, rxVars, listenVars
  <2>2. RoundsDone' = RoundsDone BY <1>a, <2>1 DEF RoundsDone
  <2>3. ASSUME NEW c \in Steady PROVE OfThisRound(c)' = OfThisRound(c)
    BY <2>1, WireAssumption DEF OfThisRound, OfThisChunk
  <2>4. QED BY <1>2, <2>1, <2>2, <2>3 DEF FloatsSent, Working
<1>b. \A r \in {"repost", "post", "count"} : r \in Working BY DEF Working
<1>4. ASSUME UNCHANGED <<bufferCounter, step, rem, chunk, moved, wire, received>>,
             \/ rxpc' \notin Working
             \/ {rxpc, rxpc'} \subseteq Working \ {"repost", "post", "count"}
             \/ {rxpc, rxpc'} \subseteq {"repost", "post", "count"}
      PROVE  \A c \in Steady : FloatsOf(c)'
  <2>1. ASSUME NEW c \in Steady, rxpc' \in Working
        PROVE  rxpc \in Working /\ FloatsSent(c)' = FloatsSent(c)
    BY <1>a, <1>b, <1>4, <2>1, SentSame
  <2>2. QED BY <1>2, <1>4, <2>1
<1>5. CASE SimWait /\ UNCHANGED <<sendVars, listenVars>>
  <2>1. /\ rxpc = "wait" /\ rxpc' \in {"wait", "route", "failed"}
        /\ UNCHANGED <<bufferCounter, step, rem, chunk, moved, wire, received>>
    BY <1>5 DEF SimWait, SimDequeue, SimRecord, SimSuccess, RxGoto, RxReturn, StackInv,
       SendInv, sendVars, listenVars, rxVars
  <2>2. QED BY <1>4, <2>1 DEF Working
<1> USE DEF RxGoto, RxReturn, Working
<1>6. CASE /\ \/ RxReady \/ RxLoop \/ RxPop \/ RxPopEmpty \/ RxCheckStop \/ RxRoute
              \/ RxQueue \/ RxProcess \/ RxRepost \/ RxPost \/ RxCount \/ RxAbort
           /\ Quiet
  <2>a. UNCHANGED <<step, rem, chunk, moved, wire, received>>
    BY <1>6 DEF Quiet, sendVars, listenVars
  <2>1. CASE RxReady BY <1>4, <2>a, <2>1 DEF RxReady
  <2>2. CASE RxLoop BY <1>4, <2>a, <2>2 DEF RxLoop
  <2>3. CASE RxPop BY <1>4, <2>a, <2>3 DEF RxPop
  <2>4. CASE RxPopEmpty BY <1>4, <2>a, <2>4 DEF RxPopEmpty
  <2>5. CASE RxCheckStop BY <1>4, <2>a, <2>5 DEF RxCheckStop
  <2>6. CASE RxRoute BY <1>4, <2>a, <2>6 DEF RxRoute
  <2>7. CASE RxQueue BY <1>a, <2>7 DEF RxQueue, StackInv, SendInv
  <2>8. CASE RxRepost BY <1>4, <2>a, <2>8 DEF RxRepost
  <2>9. CASE RxPost BY <1>4, <2>a, <2>9 DEF RxPost
  <2>10. CASE RxAbort BY <1>4, <2>a, <2>10 DEF RxAbort
  <2>11. CASE RxProcess
    <3>1. /\ rxpc = "process" /\ UNCHANGED bufferCounter
          /\ rxpc' = IF RoundFull THEN "send1" ELSE "repost"
      BY <2>11 DEF RxProcess
    <3>2. step = "none" BY <1>a, <3>1
    <3>3. RoundsDone' = RoundsDone
      <4>1. CASE RoundFull BY <1>a, <3>1, <4>1 DEF RoundsDone
      <4>2. CASE ~RoundFull
        <5>1. Place # SlotsPerRound - 1 BY <1>a, <4>2, Places
        <5>2. RoundAt(SlotsPerRound, bufferCounter + 1) = RoundAt(SlotsPerRound, bufferCounter)
          BY <1>a, <5>1, Places
        <5>3. QED BY <1>a, <3>1, <4>2, <5>2 DEF RoundsDone
      <4>3. QED BY <4>1, <4>2
    <3>4. ASSUME NEW c \in Steady PROVE FloatsSent(c)' = FloatsSent(c)
      BY <2>a, <3>2, <3>3 DEF FloatsSent, OfThisRound
    <3>5. QED BY <1>2, <2>a, <3>1, <3>4
  <2>12. CASE RxCount /\ threadStop
    <3>1. rxpc' = "exited" /\ UNCHANGED bufferCounter BY <2>12 DEF RxCount
    <3>2. QED BY <1>4, <2>a, <3>1
  <2>13. CASE RxCount /\ ~threadStop
    <3>1. /\ rxpc = "count" /\ rxpc' = "loop" /\ bufferCounter' = bufferCounter + 1
      BY <2>13 DEF RxCount
    <3>2. step = "none" BY <1>a, <3>1
    <3>3. RoundsDone' = RoundsDone BY <1>a, <3>1 DEF RoundsDone
    <3>4. ASSUME NEW c \in Steady PROVE FloatsSent(c)' = FloatsSent(c)
      BY <2>a, <3>2, <3>3 DEF FloatsSent, OfThisRound
    <3>5. QED BY <1>2, <2>a, <3>1, <3>4
  <2>14. QED
    BY <1>6, <2>1, <2>2, <2>3, <2>4, <2>5, <2>6, <2>7, <2>8, <2>9, <2>10, <2>11, <2>12,
       <2>13
<1>7. QED BY <1>1, <1>3, <1>5, <1>6 DEF SocketRx

(* A listener takes the next float of its stream, or a size. *)
LEMMA TakenFloat ==
  ASSUME StackInv, FloatInv, NEW ch \in Steady, Listen(ch)
  PROVE  /\ FloatsOf(ch)'
         /\ \/ received'[ch] = received[ch]
            \/ /\ received'[ch] = received[ch] + 1
               /\ received[ch] + 1 < NumberAcquisitions * WorkLen
<1>1. /\ ch \in Channels /\ ch \in sockets /\ wire \in [Channels -> Seq(Items)]
      /\ received \in [Channels -> Int] /\ TypeInv
      /\ UNCHANGED <<engineVars, simVars, sendVars>> /\ wire[ch] # <<>>
      /\ wire' = [wire EXCEPT ![ch] = Tail(@)]
  BY DEF Steady, StackInv, SocketType, WireType, TypeInv, TypeOK, FloatInv, Listen
<1>2. PICK next \in Nat :
        /\ next <= NumberAcquisitions * WorkLen
        /\ Carries(wire[ch], received[ch], next)
        /\ apc = "posting" => next = 0
        /\ rxpc \in Working => next = FloatsSent(ch)
  BY DEF FloatInv, FloatsOf
<1>3. wire[ch] \in Seq(Items) /\ Head(wire[ch]) \in Items BY <1>1
<1>4. (Head(wire[ch]).kind = "size") = (expecting[ch] = 0)
  <2>1. PICK o \in Nat : Frames(wire[ch], expecting[ch], o)
    BY <1>1 DEF StackInv, FrameInv
  <2>2. QED BY <1>1, <1>3, <2>1, FramesTaken
<1>5. /\ NumberAcquisitions' = NumberAcquisitions /\ wire'[ch] = Tail(wire[ch])
      /\ UNCHANGED <<apc, rxpc>>
  BY <1>1 DEF NumberAcquisitions, engineVars, setupVars, rxVars, apiVars
<1>6. FloatsSent(ch)' = FloatsSent(ch)
  BY <1>1, SentSame DEF engineVars, setupVars, rxVars, sendVars
<1>7. CASE expecting[ch] = 0
  <2>1. received' = received BY <1>7 DEF Listen
  <2>2. Head(wire[ch]).kind # "float" BY <1>4, <1>7
  <2>3. Carries(wire'[ch], received'[ch], next)
    BY <1>1, <1>2, <1>3, <1>5, <2>1, <2>2, CarriesTail
  <2>4. QED BY <1>2, <1>5, <1>6, <2>1, <2>3 DEF FloatsOf
<1>8. CASE expecting[ch] # 0
  <2>1. received'[ch] = Head(wire[ch]).value BY <1>1, <1>8 DEF Listen
  <2>2. Head(wire[ch]).kind = "float" BY <1>3, <1>4, <1>8 DEF Items
  <2>3. /\ Head(wire[ch]).value = received[ch] + 1 /\ received[ch] + 1 < next
        /\ Carries(Tail(wire[ch]), received[ch] + 1, next)
    BY <1>1, <1>2, <1>3, <2>2, CarriesTail
  <2>4. FloatsOf(ch)' BY <1>2, <1>5, <1>6, <2>1, <2>3 DEF FloatsOf
  <2>5. received[ch] + 1 < NumberAcquisitions * WorkLen
    <3>1. NumberAcquisitions * WorkLen \in Int BY <1>1, TotalIsNat, WireAssumption
    <3>2. received[ch] \in Int BY <1>1
    <3>3. QED BY <1>2, <2>3, <3>1, <3>2
  <2>6. QED BY <2>1, <2>3, <2>4, <2>5
<1>9. QED BY <1>7, <1>8

(* What a listener was given last changes when it takes an item, and with  *)
(* its socket.                                                             *)
LEMMA ReceivedChanges ==
  ASSUME Disciplined, StackInv, CountedInv, [SocketNext]_allVars, ~Begin, Steady' # {}
  PROVE  \/ \E ch \in Channels : Listen(ch)
         \/ UNCHANGED received
<1>1. CASE SocketRx
  BY <1>1 DEF SocketRx, BeginSend, SendStep, listenVars, Quiet
<1>2. CASE SocketCall
  <2>1. CASE Unregister BY <2>1 DEF Unregister, UnregisterSockets, Steady
  <2>2. ASSUME NEW ch \in Channels, Register(ch) PROVE FALSE
    BY <2>2 DEF Register, RegisterSocket, listenVars, Steady, CountedInv
  <2>3. QED BY <1>2, <2>1, <2>2 DEF SocketCall, Quiet, listenVars
<1>3. CASE SocketApi
  BY <1>3 DEF SocketApi, End, Steady, Quiet, listenVars
<1>4. QED BY <1>1, <1>2, <1>3 DEF SocketNext, allVars, listenVars

LEMMA ReceivedType ==
  ASSUME StackInv, FloatInv, [SocketNext]_allVars
  PROVE  received' \in [Channels -> Int]
<1>1. /\ received \in [Channels -> Int] /\ wire \in [Channels -> Seq(Items)]
      /\ NoData \in Int
  BY DEF FloatInv, StackInv, SocketType, WireType, NoData
<1>2. ASSUME NEW ch \in Channels, Listen(ch) PROVE received' \in [Channels -> Int]
  <2>1. wire[ch] \in Seq(Items) /\ wire[ch] # <<>> BY <1>1, <1>2 DEF Listen
  <2>2. Head(wire[ch]).value \in Int
    <3>1. Head(wire[ch]) \in Items BY <2>1
    <3>2. QED BY <3>1 DEF Items
  <2>3. QED BY <1>1, <1>2, <2>2 DEF Listen
<1>3. CASE SocketRx
  BY <1>1, <1>3 DEF SocketRx, BeginSend, SendStep, listenVars, Quiet
<1>4. CASE SocketCall
  BY <1>1, <1>4 DEF SocketCall, Begin, Unregister, Register, ListenersGone, Quiet, listenVars
<1>5. CASE SocketApi BY <1>1, <1>5 DEF SocketApi, End, ListenersGone, Quiet, listenVars
<1>6. CASE UNCHANGED allVars BY <1>1, <1>6 DEF allVars, listenVars
<1>7. QED BY <1>2, <1>3, <1>4, <1>5, <1>6 DEF SocketNext

LEMMA FloatStep ==
  ASSUME Disciplined, StackInv, RefInv, CountedInv, WorkInv, FloatInv, [SocketNext]_allVars
  PROVE  FloatInv'
<1>1. received' \in [Channels -> Int] BY ReceivedType
<1>2. SUFFICES ASSUME NEW ch \in Steady' PROVE FloatsOf(ch)'
  BY <1>1 DEF FloatInv
<1>a. /\ TypeInv /\ ch \in Steady' /\ Steady' # {}
      /\ threadRunning <=> rxpc # "none"
      /\ ~threadRunning => step = "none"
      /\ apc \in {"posting", "abort", "clear"} => ~threadRunning
      /\ apc \in {"ready", "process", "push", "post", "join"} => threadRunning
  BY DEF StackInv, SendInv, RefInv
<1>b. "none" \notin Working BY DEF Working
<1>3. CASE Begin
  <2>1. /\ \A c \in sockets : Unused(c)
        /\ UNCHANGED <<rxpc, wire, received, sockets, geometry>> /\ kept' = sockets
        /\ rxpc = "none"
    BY <1>a, <1>3 DEF Begin, SimAcquire, rxVars, setupVars
  <2>2. Unused(ch) BY <1>2, <2>1 DEF Steady
  <2>3. Carries(wire'[ch], received'[ch], 0)
    BY <2>1, <2>2, CarriesNothing DEF Unused
  <2>4. 0 <= NumberAcquisitions' * WorkLen
    <3>1. NumberAcquisitions' = NumberAcquisitions BY <2>1 DEF NumberAcquisitions
    <3>2. \A a, b \in Nat : 0 <= a * b OBVIOUS
    <3>3. QED BY <1>a, <3>1, <3>2, TotalIsNat, WireAssumption
  <2>5. rxpc' \notin Working BY <1>b, <2>1
  <2>6. 0 \in Nat OBVIOUS
  <2>7. QED BY <2>3, <2>4, <2>5, <2>6 DEF FloatsOf
<1>4. CASE ~Begin
  <2>1. Steady' = Steady /\ geometry' = geometry BY <1>a, <1>4, SteadyStays
  <2>2. ch \in Steady /\ Steady # {} /\ FloatsOf(ch) BY <1>2, <2>1 DEF FloatInv
  <2>3. ch \in Channels /\ wire \in [Channels -> Seq(Items)]
    BY <2>2 DEF Steady, StackInv, SocketType, WireType, TypeInv, TypeOK
  <2>4. CASE SocketRx BY <2>2, <2>4, RxFloats
  <2>5. CASE Listen(ch) BY <2>2, <2>5, TakenFloat
  <2>6. ASSUME wire'[ch] = wire[ch], received'[ch] = received[ch],
               UNCHANGED <<rxpc, bufferCounter, sendVars>>,
               apc' = "posting" => apc = "posting"
        PROVE  FloatsOf(ch)'
    <3>1. FloatsSent(ch)' = FloatsSent(ch) BY <2>1, <2>3, <2>6, SentSame DEF sendVars
    <3>2. QED BY <2>1, <2>2, <2>3, <2>6, <3>1, FloatsKept
  <2>7. ASSUME NEW c \in Channels, c # ch, Listen(c) PROVE FloatsOf(ch)'
    <3>1. wire'[ch] = wire[ch] BY <2>3, <2>7 DEF Listen
    <3>2. received'[ch] = received[ch] BY <2>3, <2>7 DEF Listen, FloatInv
    <3>3. UNCHANGED <<rxpc, bufferCounter, sendVars, apc>>
      BY <2>7 DEF Listen, engineVars, rxVars, apiVars
    <3>4. QED BY <2>6, <3>1, <3>2, <3>3
  <2>8. CASE SocketCall
    <3>1. CASE Unregister BY <1>a, <3>1 DEF Unregister, UnregisterSockets, Steady
    <3>2. ASSUME NEW c \in Channels, Register(c) PROVE FALSE
      BY <2>2, <3>2 DEF Register, RegisterSocket, Steady, CountedInv
    <3>3. ASSUME NEW c \in Configs, SetAll(c), Quiet PROVE FloatsOf(ch)'
      BY <2>6, <3>3 DEF SetAll, Quiet, listenVars, rxVars, apiVars
    <3>4. CASE (WaitForAcquisition \/ Stop) /\ Quiet
      BY <2>6, <3>4 DEF WaitForAcquisition, Stop, Quiet, listenVars, rxVars
    <3>5. QED BY <1>4, <2>8, <3>1, <3>2, <3>3, <3>4 DEF SocketCall
  <2>9. CASE SocketApi
    <3>1. CASE End BY <1>a, <3>1 DEF End, Steady
    <3>2. CASE StartAcquire /\ Quiet
      <4>1. /\ apc = "posting" /\ apc' # "posting" /\ bufferCounter' = 0
            /\ rxpc' = "start"
            /\ UNCHANGED <<wire, received, step>>
        BY <3>2 DEF StartAcquire, Quiet, listenVars, sendVars
      <4>2. step' = "none" BY <1>a, <4>1
      <4>3. RoundsDone' = 0
        <5>1. SlotsPerRound' = SlotsPerRound BY <2>1 DEF SlotsPerRound
        <5>2. 0 \div SlotsPerRound = 0 BY <1>a, Places
        <5>3. QED BY <4>1, <5>1, <5>2 DEF RoundsDone, RoundAt
      <4>4. FloatsSent(ch)' = 0
        BY <4>2, <4>3, WireAssumption DEF FloatsSent, OfThisRound
      <4>5. NumberAcquisitions' = NumberAcquisitions BY <2>1 DEF NumberAcquisitions
      <4>6. 0 <= NumberAcquisitions * WorkLen /\ Carries(wire[ch], received[ch], 0)
        BY <2>2, <4>1 DEF FloatsOf
      <4>7. Carries(wire'[ch], received'[ch], 0) BY <4>1, <4>6
      <4>8. 0 \in Nat OBVIOUS
      <4>9. QED BY <4>4, <4>5, <4>6, <4>7, <4>8 DEF FloatsOf
    <3>3. ASSUME NEW b \in Buffers, PostInitial(b), Quiet PROVE FloatsOf(ch)'
      BY <2>6, <3>3 DEF PostInitial, Quiet, listenVars, rxVars
    <3>4. CASE JoinRx /\ Quiet
      <4>1. rxpc' \notin Working /\ apc' # "posting" BY <1>b, <3>4 DEF JoinRx
      <4>2. UNCHANGED <<wire, received>> BY <3>4 DEF Quiet, listenVars
      <4>3. QED BY <2>1, <2>2, <2>3, <4>1, <4>2, FloatsKept
    <3>5. CASE /\ AcquireReturn \/ ProcessForApp \/ PushForApp \/ PostForApp \/ AbortOnStop
               /\ Quiet
      BY <2>6, <3>5 DEF AcquireReturn, ProcessForApp, PushForApp, PostForApp, AbortOnStop,
         Quiet, listenVars, rxVars
    <3>6. QED BY <2>9, <3>1, <3>2, <3>3, <3>4, <3>5 DEF SocketApi
  <2>10. CASE UNCHANGED allVars
    BY <2>6, <2>10 DEF allVars, engineVars, rxVars, apiVars, listenVars
  <2>11. QED BY <2>4, <2>5, <2>7, <2>8, <2>9, <2>10 DEF SocketNext
<1>5. QED BY <1>3, <1>4
-----------------------------------------------------------------------------
(* The streams, step by step. *)

LEMMA FloatDelivery ==
  ASSUME Disciplined, StackInv, CountedInv, FloatInv, FloatInv', [SocketNext]_allVars,
         NEW ch \in Channels
  PROVE  \/ ch \notin Steady /\ ch \notin Steady'
         \/ /\ ch \notin Steady /\ ch \in Steady'
            /\ received'[ch] = NoData /\ NumberAcquisitions' * WorkLen \in Nat
         \/ ch \in Steady /\ ch \notin Steady'
         \/ /\ ch \in Steady /\ ch \in Steady'
            /\ NumberAcquisitions' = NumberAcquisitions
            /\ \/ received'[ch] = received[ch]
               \/ /\ received'[ch] = received[ch] + 1
                  /\ received[ch] + 1 < NumberAcquisitions * WorkLen
<1>1. CASE ch \in Steady' /\ Begin
  <2>1. /\ \A c \in sockets : Unused(c)
        /\ apc = "idle" /\ ~threadRunning
        /\ UNCHANGED <<wire, received, sockets, geometry>> /\ kept' = sockets
    BY <1>1 DEF Begin, SimAcquire, setupVars
  <2>2. Unused(ch) /\ ch \notin Steady BY <1>1, <2>1 DEF Steady, CountedInv
  <2>3. NumberAcquisitions' * WorkLen \in Nat
    <3>1. NumberAcquisitions' = NumberAcquisitions BY <2>1 DEF NumberAcquisitions
    <3>2. \A a, b \in Nat : a * b \in Nat OBVIOUS
    <3>3. TypeInv BY DEF StackInv, SocketType
    <3>4. QED BY <3>1, <3>2, <3>3, TotalIsNat, WireAssumption
  <2>4. QED BY <1>1, <2>1, <2>2, <2>3 DEF Unused
<1>2. CASE ch \in Steady' /\ ~Begin
  <2>1. Steady' = Steady /\ geometry' = geometry BY <1>2, SteadyStays
  <2>2. NumberAcquisitions' = NumberAcquisitions BY <2>1 DEF NumberAcquisitions
  <2>3. CASE Listen(ch) BY <1>2, <2>1, <2>2, <2>3, TakenFloat
  <2>4. ASSUME NEW c \in Channels, c # ch, Listen(c) PROVE received'[ch] = received[ch]
    BY <2>4 DEF Listen, FloatInv
  <2>5. CASE UNCHANGED received BY <1>2, <2>1, <2>2, <2>5
  <2>6. QED BY <1>2, <2>1, <2>2, <2>3, <2>4, <2>5, ReceivedChanges
<1>3. QED BY <1>1, <1>2

LEMMA FloatsMap ==
  ASSUME Disciplined, StackInv, CountedInv, FloatInv, FloatInv', [SocketNext]_allVars
  PROVE  /\ [Ch1FloatStream!Next]_(Ch1FloatStream!streamVars)
         /\ [Ch2FloatStream!Next]_(Ch2FloatStream!streamVars)
<1> USE DEF FloatsDue, LastFloat
<1>1. NoData = -1 BY DEF NoData
<1>2. [Ch1FloatStream!Next]_(Ch1FloatStream!streamVars)
  <2>1. \/ "ch1" \notin Steady /\ "ch1" \notin Steady'
        \/ /\ "ch1" \notin Steady /\ "ch1" \in Steady'
           /\ received'["ch1"] = NoData /\ NumberAcquisitions' * WorkLen \in Nat
        \/ "ch1" \in Steady /\ "ch1" \notin Steady'
        \/ /\ "ch1" \in Steady /\ "ch1" \in Steady'
           /\ NumberAcquisitions' = NumberAcquisitions
           /\ \/ received'["ch1"] = received["ch1"]
              \/ /\ received'["ch1"] = received["ch1"] + 1
                 /\ received["ch1"] + 1 < NumberAcquisitions * WorkLen
    BY FloatDelivery DEF Channels
  <2>2. QED
    BY <1>1, <2>1 DEF Ch1FloatStream!Next, Ch1FloatStream!streamVars, Ch1FloatStream!Start,
       Ch1FloatStream!Deliver, Ch1FloatStream!Stop
<1>3. [Ch2FloatStream!Next]_(Ch2FloatStream!streamVars)
  <2>1. \/ "ch2" \notin Steady /\ "ch2" \notin Steady'
        \/ /\ "ch2" \notin Steady /\ "ch2" \in Steady'
           /\ received'["ch2"] = NoData /\ NumberAcquisitions' * WorkLen \in Nat
        \/ "ch2" \in Steady /\ "ch2" \notin Steady'
        \/ /\ "ch2" \in Steady /\ "ch2" \in Steady'
           /\ NumberAcquisitions' = NumberAcquisitions
           /\ \/ received'["ch2"] = received["ch2"]
              \/ /\ received'["ch2"] = received["ch2"] + 1
                 /\ received["ch2"] + 1 < NumberAcquisitions * WorkLen
    BY FloatDelivery DEF Channels
  <2>2. QED
    BY <1>1, <2>1 DEF Ch2FloatStream!Next, Ch2FloatStream!streamVars, Ch2FloatStream!Start,
       Ch2FloatStream!Deliver, Ch2FloatStream!Stop
<1>4. QED BY <1>2, <1>3

(* The listener of each channel that stays registered takes the floats of  *)
(* the acquisition's results one by one and in order, across chunks and    *)
(* results, and no float more than there are, for every pool, geometry,    *)
(* work buffer and socket size, however slowly the listeners read and      *)
(* whenever the client stops or unregisters: the chunks that               *)
(* libAlazar.cpp:396-449 cuts lose, repeat and mix up nothing.             *)
THEOREM FloatsInOrder ==
  ASSUME Disciplined PROVE SocketSpec => FloatStreams
<1> DEFINE Inv == StackInv /\ RefInv /\ CountedInv /\ WorkInv /\ FloatInv
<1>1. SocketInit => Inv
  BY InitStack, InitMaps, InitCounted, InitFloat
<1>2. ASSUME Inv, [SocketNext]_allVars PROVE Inv'
  <2>1. StackInv' BY <1>2, StackStep
  <2>2. RefInv' BY <1>2, StepMaps DEF Maps
  <2>3. CountedInv' BY <1>2, CountedStep
  <2>4. WorkInv' BY <1>2, WorkStep
  <2>5. FloatInv' BY <1>2, FloatStep
  <2>6. QED BY <2>1, <2>2, <2>3, <2>4, <2>5
<1>3. SocketInit => Ch1FloatStream!Init /\ Ch2FloatStream!Init
  BY DEF SocketInit, Ch1FloatStream!Init, Ch2FloatStream!Init, Steady, FloatsDue, LastFloat,
     NoData
<1>4. Inv /\ Inv' /\ [SocketNext]_allVars =>
        /\ [Ch1FloatStream!Next]_(Ch1FloatStream!streamVars)
        /\ [Ch2FloatStream!Next]_(Ch2FloatStream!streamVars)
  BY FloatsMap
<1> HIDE DEF Inv
<1>5. QED
  BY <1>1, <1>2, <1>3, <1>4, PTL
  DEF SocketSpec, FloatStreams, Ch1FloatStream!Spec, Ch2FloatStream!Spec
=============================================================================
