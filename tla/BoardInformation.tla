--------------------------- MODULE BoardInformation ---------------------------
(***************************************************************************)
(* What connectBoard does: sysInfo walks over the board systems the driver *)
(* reports, queries and logs each board and flashes its LED.  Sources:     *)
(* libAlazar.cpp (sysInfo, DisplaySystemInfo, DisplayBoardInfo, FlashLed), *)
(* libAlazarAPI.cpp (connectBoard).  The loops look at return values in a  *)
(* way that reads inverted, "if (!DisplayBoardInfo(...)) return -1", and   *)
(* FlashLed returns 0, so DisplayBoardInfo never returns 0; the return     *)
(* values below are the code's.                                            *)
(*                                                                         *)
(* The module has no specification of its own: ExampleClient composes its  *)
(* actions.  What the driver answers is up to it; the answers themselves   *)
(* are only logged.                                                        *)
(***************************************************************************)
EXTENDS Integers

CONSTANTS MaxSystems, MaxBoards   \* bounds on what the driver reports

SystemIds == 1..MaxSystems
BoardIds == 1..MaxBoards

ASSUME InstallationAssumption == MaxSystems \in Nat /\ MaxBoards \in Nat

VARIABLES
  infopc,               \* where connectBoard is
  systems, boards,      \* systemCount, boardCount
  systemId, boardId,    \* the loop counters
  flashes,              \* LED commands given to this board
  led, stuck,           \* the LEDs that are on; those whose last "off" failed
  described, visited    \* systems that answered; boards looked at

infoVars == <<infopc, systems, boards, systemId, boardId, flashes, led, stuck,
              described, visited>>

BugCycles == 3
LedCommands == 4        \* cycleCount = 2, two phases each

InfoInit ==
  /\ infopc = "idle"
  /\ systems = 0 /\ boards = 0 /\ systemId = 0 /\ boardId = 0 /\ flashes = 0
  /\ led = {} /\ stuck = {} /\ described = {} /\ visited = {}

(* sysInfo: a failing AlazarGetSDKVersion is only logged. *)
SysInfo ==
  /\ infopc = "idle"
  /\ \E n \in 0..MaxSystems :
       /\ systems' = n
       /\ infopc' = IF n > 0 THEN "system" ELSE "done"
  /\ systemId' = 1
  /\ UNCHANGED <<boards, boardId, flashes, led, stuck, described, visited>>

(* sysInfo ends at the first system whose DisplaySystemInfo returns 0. *)
SystemReturns(value) ==
  IF value # 0 /\ systemId < systems
  THEN infopc' = "system" /\ systemId' = systemId + 1
  ELSE infopc' = "done" /\ UNCHANGED systemId

(* DisplaySystemInfo up to its loop: -1 when there is no board, no handle,  *)
(* an unknown board type or no driver version.                             *)
DisplaySystemInfo ==
  /\ infopc = "system"
  /\ \/ /\ SystemReturns(-1)
        /\ UNCHANGED <<boards, boardId, described>>
     \/ /\ boards' \in BoardIds
        /\ boardId' = 1
        /\ described' = described \cup {systemId}
        /\ infopc' = "board"
        /\ UNCHANGED systemId
  /\ UNCHANGED <<systems, flashes, led, stuck, visited>>

(* The loop over the boards of a system goes on unless DisplayBoardInfo     *)
(* returned 0, and DisplaySystemInfo returns 0 at its end.                 *)
BoardReturns(value) ==
  \/ /\ value = 0
     /\ SystemReturns(-1)
     /\ UNCHANGED boardId
  \/ /\ value # 0 /\ boardId < boards
     /\ boardId' = boardId + 1
     /\ infopc' = "board"
     /\ UNCHANGED systemId
  \/ /\ value # 0 /\ boardId = boards
     /\ SystemReturns(0)
     /\ UNCHANGED boardId

(* DisplayBoardInfo up to FlashLed: -1 when a query fails. *)
DisplayBoardInfo ==
  /\ infopc = "board"
  /\ visited' = visited \cup {<<systemId, boardId>>}
  /\ \/ BoardReturns(-1)
     \/ infopc' = "led" /\ UNCHANGED <<systemId, boardId>>
  /\ flashes' = 0
  /\ UNCHANGED <<systems, boards, led, stuck, described>>

BugTrue == 1
FlashLedReturns == 0

DisplayBoardInfoReturns == IF FlashLedReturns = 0 THEN -1 ELSE 0

(* One AlazarSetLED of FlashLed; a failure is only printed. *)
FlashLed ==
  LET board == <<systemId, boardId>>
      on == flashes % 2 = 0
  IN /\ infopc = "led"
     /\ \/ /\ led' = IF on THEN led \cup {board} ELSE led \ {board}
           /\ stuck' = stuck \ {board}
        \/ /\ stuck' = IF on THEN stuck ELSE stuck \cup ({board} \cap led)
           /\ UNCHANGED led
     /\ flashes' = flashes + 1
     /\ IF flashes' < LedCommands THEN UNCHANGED <<infopc, systemId, boardId>>
        ELSE BoardReturns(DisplayBoardInfoReturns)
     /\ UNCHANGED <<systems, boards, described, visited>>

(* connectBoard has returned: its locals are gone, and what it looked at no *)
(* property asks for again.  The LEDs stay as they are.                    *)
InfoForgotten ==
  /\ infopc' = "idle"
  /\ systems' = 0 /\ boards' = 0 /\ systemId' = 0 /\ boardId' = 0 /\ flashes' = 0
  /\ described' = {} /\ visited' = {}
  /\ UNCHANGED <<led, stuck>>

InfoStep == SysInfo \/ DisplaySystemInfo \/ DisplayBoardInfo \/ FlashLed

(* Each board of a system that answered is looked at, whatever happened to *)
(* the boards before it (libAlazar.cpp:897, "Display informataion about    *)
(* each board in this board system"), in one system at most.               *)
EveryBoardVisited ==
  infopc \in {"system", "done"} =>
    visited = IF described = {} THEN {} ELSE described \X (1..boards)

(* No LED is left on by an aborted flash: when connectBoard returns, an LED *)
(* is on only if the driver refused the last command to turn it off.       *)
LedsOff == infopc \in {"system", "done"} => led \subseteq stuck
==============================================================================
