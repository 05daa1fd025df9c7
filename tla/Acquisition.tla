---------------------------- MODULE Acquisition ----------------------------
(***************************************************************************)
(* One acquisition engine of libAlazar: the receive thread (rx) and the    *)
(* one application thread that calls the C API, sharing the buffer queues, *)
(* the bufferCounter, the sockets and the geometry setAll computed, on top *)
(* of the board (AlazarBoard).  Sources: src/lib/libAlazar.cpp,            *)
(* src/lib/libAlazarAPI.cpp, src/lib/alazarBuff.h.                         *)
(*                                                                         *)
(* A step is what one thread does between two accesses to shared state; a  *)
(* queue operation is one step because AlazarBufferQ::push/pop lock.       *)
(* Samples are abstracted to capture numbers, a channel buffer of the      *)
(* application (or ch?WorkBuff) to the slots one round robin fills.        *)
(***************************************************************************)
EXTENDS AlazarBoard, Functions

CONSTANTS
  NoBuffer,        \* an empty shared_ptr
  MaxNumBuffers,   \* MAX_NUM_BUFFERS
  MinNumBuffers,   \* MIN_NUM_BUFFERS
  Configs,         \* the geometries setAll can leave behind
  MaxSlots,        \* bound on the buffers of one round robin
  Faults,          \* driver or socket calls that may fail
  MidRun           \* what the client changes while an acquisition is on

Channels == {"ch1", "ch2"}
Slots == 0..(MaxSlots - 1)

(* bufferLen is counted in samples of both channels, like recordLength.    *)
Geometry == [nbrBuffers : Nat, partialBuffer : BOOLEAN,
             buffersPerRoundRobin : 0..MaxSlots,
             bufferLen : Nat, recordLength : Nat]

(* The zeroed members of a board that was never configured. *)
Unconfigured ==
  [nbrBuffers |-> 0, partialBuffer |-> FALSE, buffersPerRoundRobin |-> 0,
   bufferLen |-> 0, recordLength |-> 0]

ASSUME NoBufferAssumption == NoBuffer \notin Buffers
ASSUME PoolAssumption ==
  /\ MinNumBuffers \in Nat \ {0}
  /\ MaxNumBuffers \in Nat
  /\ MinNumBuffers <= MaxNumBuffers
ASSUME SlotsAssumption == MaxSlots \in Nat \ {0}
ASSUME ConfigsAssumption ==
  /\ Configs \subseteq Geometry
  /\ \A c \in Configs : c.partialBuffer => c.buffersPerRoundRobin > 0
  /\ \A c \in Configs : c.recordLength \in 1..c.bufferLen
ASSUME FaultsAssumption == Faults \subseteq {"post", "start", "wait", "send", "abort"}
ASSUME MidRunAssumption == MidRun \subseteq {"sockets", "setAll"}

VARIABLES
  threadStop, threadRunning,   \* the two atomic flags
  bufferQ, dataQ,              \* the two FIFOs of buffers
  ownerQ,                      \* the buffers ownerQ keeps alive
  bufferCounter,               \* buffers rx is done with
  sockets,                     \* channels with a registered socket
  geometry,                    \* result of the last setAll
  room,                        \* what each buffer was allocated with
  rxpc, rxBuf,                 \* rx: where it is, its local buff
  apc, apiBuf, apiCount,       \* API thread: where it is, its buff, its i
  apiFull,                     \* ... and what processBuffer returned to it
  workSlots,                   \* ch1WorkBuff/ch2WorkBuff of rx
  appSlots,                    \* the buffers wait_for_acquisition assembles
  sentRound,                   \* last round robin sent on each socket
  appRound                     \* last round robin the application was given

flagVars == <<threadStop, threadRunning>>
queueVars == <<bufferQ, dataQ, ownerQ>>
setupVars == <<sockets, geometry, room>>
rxVars == <<rxpc, rxBuf>>
apiVars == <<apc, apiBuf, apiCount, apiFull>>
outVars == <<workSlots, appSlots, sentRound, appRound>>
vars == <<boardVars, flagVars, queueVars, bufferCounter, setupVars,
          rxVars, apiVars, outVars>>
-----------------------------------------------------------------------------
(* How many buffers rxThreadRun allocates. *)
PoolSize ==
  LET atMost == IF geometry.nbrBuffers < MaxNumBuffers
                THEN geometry.nbrBuffers ELSE MaxNumBuffers
  IN IF atMost > MinNumBuffers THEN atMost ELSE MinNumBuffers

(* acqParams.numberAcquisitions, as ConfigureBoard returns it. *)
NumberAcquisitions ==
  IF geometry.partialBuffer
  THEN geometry.nbrBuffers \div geometry.buffersPerRoundRobin
  ELSE geometry.nbrBuffers

BugIndexAhead == (bufferCounter + 1) % geometry.buffersPerRoundRobin
(* processBuffer: where a buffer goes in the round robin (processPartial-  *)
(* Buffer's partialIndex), and whether it is the last one of it.           *)
PartialIndex == bufferCounter % geometry.buffersPerRoundRobin
SlotIndex == IF geometry.partialBuffer THEN PartialIndex ELSE 0
BugFullEarly ==
  geometry.partialBuffer => PartialIndex = geometry.buffersPerRoundRobin - 2
RoundFull ==
  geometry.partialBuffer => PartialIndex = geometry.buffersPerRoundRobin - 1
Process(slots, b) == [slots EXCEPT ![SlotIndex] = content[b]]

(* The round robin that slots hold, if it is one whole round robin.        *)
Torn == -2
SlotsPerRound ==
  IF geometry.partialBuffer THEN geometry.buffersPerRoundRobin ELSE 1
RoundOf(slots) ==
  IF /\ slots[0] # NoData
     /\ slots[0] % SlotsPerRound = 0
     /\ \A i \in 0..(SlotsPerRound - 1) : slots[i] = slots[0] + i
  THEN slots[0] \div SlotsPerRound
  ELSE Torn

EmptySlots == [i \in Slots |-> NoData]

BugPushFront(q, b) == <<b>> \o q
(* AlazarBufferQ::push. *)
Push(q, b) == Append(q, b)

BugNoOwner(b) ==
  /\ bufferQ' = Push(bufferQ, b)
  /\ UNCHANGED <<dataQ, ownerQ>>
(* postBuffer's first half: a copy of the pointer for ownerQ, then bufferQ. *)
Enqueue(b) ==
  /\ ownerQ' = ownerQ \cup {b}
  /\ bufferQ' = Push(bufferQ, b)
  /\ UNCHANGED dataQ
-----------------------------------------------------------------------------
Init ==
  /\ BoardInit
  /\ threadStop = FALSE /\ threadRunning = FALSE
  /\ bufferQ = <<>> /\ dataQ = <<>> /\ ownerQ = {}
  /\ bufferCounter = 0
  /\ sockets = {} /\ geometry = Unconfigured /\ room = NoRoom
  /\ rxpc = "none" /\ rxBuf = NoBuffer
  /\ apc = "idle" /\ apiBuf = NoBuffer /\ apiCount = 0 /\ apiFull = FALSE
  /\ workSlots = EmptySlots /\ appSlots = EmptySlots
  /\ sentRound = [ch \in Channels |-> NoData] /\ appRound = NoData
-----------------------------------------------------------------------------
(* The API thread.                                                         *)

(* setAll -> ConfigureBoard: nothing keeps it from running while rx does.  *)
SetAll(c) ==
  /\ apc = "idle"
  /\ threadRunning => "setAll" \in MidRun
  /\ geometry' = c
  /\ UNCHANGED <<boardVars, flagVars, queueVars, bufferCounter, sockets, room,
                 rxVars, apiVars, outVars>>

RegisterSocket(ch) ==
  /\ apc = "idle"
  /\ threadRunning => "sockets" \in MidRun
  /\ sockets' = sockets \cup {ch}
  /\ UNCHANGED <<boardVars, flagVars, queueVars, bufferCounter, geometry, room,
                 rxVars, apiVars, outVars>>

UnregisterSockets ==
  /\ apc = "idle"
  /\ threadRunning => "sockets" \in MidRun
  /\ sockets' = {}
  /\ UNCHANGED <<boardVars, flagVars, queueVars, bufferCounter, geometry, room,
                 rxVars, apiVars, outVars>>

(* acquire -> rxThreadRun up to AlazarBeforeAsyncRead; refused while a     *)
(* thread is running.                                                      *)
Acquire ==
  /\ apc = "idle"
  /\ ~threadRunning
  /\ BeforeAsyncRead(geometry.nbrBuffers)
  /\ apc' = "posting"
  /\ apiCount' = 0
  /\ UNCHANGED <<flagVars, queueVars, bufferCounter, setupVars, rxVars,
                 apiBuf, apiFull, outVars>>

BugSharedBuffer(b) == ownerQ \subseteq {b}
(* make_shared: memory that no live buffer has. *)
Fresh(b) == b \notin ownerQ

(* One round of rxThreadRun's loop: make_shared of bufferLen bytes and     *)
(* postBuffer, whose result is not looked at.                              *)
PostInitial(b) ==
  /\ apc = "posting"
  /\ apiCount < PoolSize
  /\ Fresh(b)
  /\ room' = [room EXCEPT ![b] = geometry.bufferLen]
  /\ Enqueue(b)
  /\ \/ PostAsyncBuffer(b, geometry.bufferLen)
     \/ "post" \in Faults /\ UNCHANGED boardVars
  /\ apiCount' = apiCount + 1
  /\ UNCHANGED <<flagVars, bufferCounter, sockets, geometry, rxVars,
                 apc, apiBuf, apiFull, outVars>>

(* The rest of rxThreadRun: reset the counter, AlazarStartCapture (a       *)
(* failure is only printed), create the thread, raise threadRunning.       *)
StartAcquire ==
  /\ apc = "posting"
  /\ apiCount = PoolSize
  /\ bufferCounter' = 0
  /\ StartCapture \/ ("start" \in Faults /\ UNCHANGED boardVars)
  /\ rxpc' = "start"
  /\ threadRunning' = TRUE
  /\ apc' = "ready"
  /\ workSlots' = EmptySlots /\ appSlots' = EmptySlots
  /\ sentRound' = [ch \in Channels |-> NoData] /\ appRound' = NoData
  /\ UNCHANGED <<threadStop, queueVars, setupVars, rxBuf,
                 apiBuf, apiCount, apiFull>>

(* rxThreadRun sees ready = 1 and acquire returns. *)
AcquireReturn ==
  /\ apc = "ready"
  /\ rxpc # "start"
  /\ apc' = "idle"
  /\ UNCHANGED <<boardVars, flagVars, queueVars, bufferCounter, setupVars,
                 rxVars, apiBuf, apiCount, apiFull, outVars>>

(* wait_for_acquisition: refused with a socket, 0 at once without data.    *)
WaitForAcquisition ==
  /\ apc = "idle"
  /\ sockets = {}
  /\ dataQ # <<>>
  /\ apiBuf' = Head(dataQ)
  /\ dataQ' = Tail(dataQ)
  /\ apc' = "process"
  /\ UNCHANGED <<boardVars, flagVars, bufferQ, ownerQ, bufferCounter,
                 setupVars, rxVars, apiCount, apiFull, outVars>>

BugMovedAway ==
  /\ apc = "process"
  /\ appSlots' = Process(appSlots, apiBuf)
  /\ apiFull' = RoundFull
  /\ apiBuf' = NoBuffer
  /\ apc' = "push"
  /\ UNCHANGED <<boardVars, flagVars, queueVars, bufferCounter, setupVars,
                 rxVars, apiCount, workSlots, sentRound, appRound>>
ProcessForApp ==
  /\ apc = "process"
  /\ appSlots' = Process(appSlots, apiBuf)
  /\ apiFull' = RoundFull
  /\ apc' = "push"
  /\ UNCHANGED <<boardVars, flagVars, queueVars, bufferCounter, setupVars,
                 rxVars, apiBuf, apiCount, workSlots, sentRound, appRound>>

PushForApp ==
  /\ apc = "push"
  /\ Enqueue(apiBuf)
  /\ apc' = "post"
  /\ UNCHANGED <<boardVars, flagVars, bufferCounter, setupVars, rxVars,
                 apiBuf, apiCount, apiFull, outVars>>

(* The board gets the buffer back and the application its answer: 1 when   *)
(* the buffer completed a round robin, -1 when the board refused.          *)
PostForApp ==
  /\ apc = "post"
  /\ \/ /\ PostAsyncBuffer(apiBuf, geometry.bufferLen)
        /\ appRound' = IF apiFull THEN RoundOf(appSlots) ELSE appRound
     \/ /\ "post" \in Faults
        /\ UNCHANGED <<boardVars, appRound>>
  /\ apiBuf' = NoBuffer
  /\ apc' = "idle"
  /\ UNCHANGED <<flagVars, queueVars, bufferCounter, setupVars, rxVars,
                 apiCount, apiFull, workSlots, appSlots, sentRound>>

BugStopUnseen ==
  /\ apc = "idle"
  /\ threadStop' = FALSE
  /\ apc' = IF threadRunning THEN "join" ELSE apc
  /\ UNCHANGED <<boardVars, threadRunning, queueVars, bufferCounter,
                 setupVars, rxVars, apiBuf, apiCount, apiFull, outVars>>
(* stop, or disconnect, -> rxThreadStop. *)
Stop ==
  /\ apc = "idle"
  /\ IF threadRunning
     THEN threadStop' = TRUE /\ apc' = "join"
     ELSE threadStop' = FALSE /\ UNCHANGED apc
  /\ UNCHANGED <<boardVars, threadRunning, queueVars, bufferCounter,
                 setupVars, rxVars, apiBuf, apiCount, apiFull, outVars>>

RxReturned == rxpc \in {"exited", "failed"}

JoinRx ==
  /\ apc = "join"
  /\ RxReturned
  /\ rxpc' = "none"
  /\ threadRunning' = FALSE
  /\ apc' = "abort"
  /\ UNCHANGED <<boardVars, threadStop, queueVars, bufferCounter, setupVars,
                 rxBuf, apiBuf, apiCount, apiFull, outVars>>

(* A failing AlazarAbortAsyncRead is printed and stop goes on. *)
AbortOnStop ==
  /\ apc = "abort"
  /\ AbortAsyncRead \/ ("abort" \in Faults /\ UNCHANGED boardVars)
  /\ apc' = "clear"
  /\ UNCHANGED <<flagVars, queueVars, bufferCounter, setupVars, rxVars,
                 apiBuf, apiCount, apiFull, outVars>>

BugStaleStop ==
  /\ apc = "clear"
  /\ bufferQ' = <<>> /\ dataQ' = <<>> /\ ownerQ' = {}
  /\ content' = Blank /\ room' = NoRoom
  /\ apc' = "idle"
  /\ UNCHANGED <<posted, nFilled, armed, captured, quota, length, flagVars,
                 bufferCounter, sockets, geometry, rxVars,
                 apiBuf, apiCount, apiFull, outVars>>

BugStaleData ==
  /\ apc = "clear"
  /\ bufferQ' = <<>> /\ ownerQ' = {}
  /\ threadStop' = FALSE
  /\ apc' = "idle"
  /\ UNCHANGED <<boardVars, threadRunning, dataQ, bufferCounter, setupVars,
                 rxVars, apiBuf, apiCount, apiFull, outVars>>

(* The three clear calls free every buffer: what it held is gone. *)
ClearQueues ==
  /\ apc = "clear"
  /\ bufferQ' = <<>> /\ dataQ' = <<>> /\ ownerQ' = {}
  /\ content' = Blank /\ room' = NoRoom
  /\ threadStop' = FALSE
  /\ apc' = "idle"
  /\ UNCHANGED <<posted, nFilled, armed, captured, quota, length, threadRunning,
                 bufferCounter, sockets, geometry, rxVars,
                 apiBuf, apiCount, apiFull, outVars>>
-----------------------------------------------------------------------------
(* The receive thread, rx. *)

RxGoto(pc) == rxpc' = pc /\ UNCHANGED rxBuf
(* Its return: the local buff goes out of scope. *)
RxReturn(pc) == rxpc' = pc /\ rxBuf' = NoBuffer

BugReadyLate ==
  /\ rxpc = "start"
  /\ nFilled > 0
  /\ RxGoto("loop")
  /\ UNCHANGED <<boardVars, flagVars, queueVars, bufferCounter, setupVars,
                 apiVars, outVars>>
RxReady ==
  /\ rxpc = "start"
  /\ RxGoto("loop")
  /\ UNCHANGED <<boardVars, flagVars, queueVars, bufferCounter, setupVars,
                 apiVars, outVars>>

BugStopShort ==
  /\ rxpc = "loop"
  /\ RxGoto(IF bufferCounter + 1 < geometry.nbrBuffers THEN "pop" ELSE "abort")
  /\ UNCHANGED <<boardVars, flagVars, queueVars, bufferCounter, setupVars,
                 apiVars, outVars>>
RxLoop ==
  /\ rxpc = "loop"
  /\ RxGoto(IF bufferCounter < geometry.nbrBuffers THEN "pop" ELSE "abort")
  /\ UNCHANGED <<boardVars, flagVars, queueVars, bufferCounter, setupVars,
                 apiVars, outVars>>

RxPop ==
  /\ rxpc = "pop"
  /\ bufferQ # <<>>
  /\ rxBuf' = Head(bufferQ)
  /\ bufferQ' = Tail(bufferQ)
  /\ rxpc' = "check"
  /\ UNCHANGED <<boardVars, flagVars, dataQ, ownerQ, bufferCounter, setupVars,
                 apiVars, outVars>>

RxPopEmpty ==
  /\ rxpc = "pop"
  /\ bufferQ = <<>>
  /\ RxGoto("empty")
  /\ UNCHANGED <<boardVars, flagVars, queueVars, bufferCounter, setupVars,
                 apiVars, outVars>>

BugDeafWait ==
  /\ rxpc \in {"empty", "check"}
  /\ IF threadStop /\ rxpc = "empty" THEN RxReturn("exited")
     ELSE RxGoto(IF rxpc = "empty" THEN "pop" ELSE "wait")
  /\ UNCHANGED <<boardVars, flagVars, queueVars, bufferCounter, setupVars,
                 apiVars, outVars>>

(* threadStop is looked at after a pop that found nothing, and before each *)
(* wait on the board.                                                      *)
RxCheckStop ==
  /\ rxpc \in {"empty", "check"}
  /\ IF threadStop THEN RxReturn("exited")
     ELSE RxGoto(IF rxpc = "empty" THEN "pop" ELSE "wait")
  /\ UNCHANGED <<boardVars, flagVars, queueVars, bufferCounter, setupVars,
                 apiVars, outVars>>

BugTimeoutIsData ==
  /\ rxpc = "wait"
  /\ \/ WaitComplete(rxBuf) \/ WaitTimeout(rxBuf)
  /\ RxGoto("route")
  /\ UNCHANGED <<flagVars, queueVars, bufferCounter, setupVars, apiVars, outVars>>

(* AlazarWaitAsyncBufferComplete: success, time-out (tried again), or any  *)
(* other code, which ends the thread.                                      *)
RxWait ==
  /\ rxpc = "wait"
  /\ \/ WaitComplete(rxBuf) /\ RxGoto("route")
     \/ WaitTimeout(rxBuf) /\ RxGoto("check")
     \/ WaitInvalid(rxBuf) /\ RxReturn("failed")
     \/ "wait" \in Faults /\ UNCHANGED boardVars /\ RxReturn("failed")
  /\ UNCHANGED <<flagVars, queueVars, bufferCounter, setupVars, apiVars, outVars>>

RxRoute ==
  /\ rxpc = "route"
  /\ RxGoto(IF sockets # {} THEN "process" ELSE "queue")
  /\ UNCHANGED <<boardVars, flagVars, queueVars, bufferCounter, setupVars,
                 apiVars, outVars>>

BugQueueAndPost ==
  /\ rxpc = "queue"
  /\ dataQ' = Push(dataQ, rxBuf)
  /\ RxGoto("repost")
  /\ UNCHANGED <<boardVars, flagVars, bufferQ, ownerQ, bufferCounter,
                 setupVars, apiVars, outVars>>
RxQueue ==
  /\ rxpc = "queue"
  /\ dataQ' = Push(dataQ, rxBuf)
  /\ RxGoto("count")
  /\ UNCHANGED <<boardVars, flagVars, bufferQ, ownerQ, bufferCounter,
                 setupVars, apiVars, outVars>>

RxProcess ==
  /\ rxpc = "process"
  /\ workSlots' = Process(workSlots, rxBuf)
  /\ RxGoto(IF RoundFull THEN "send1" ELSE "repost")
  /\ UNCHANGED <<boardVars, flagVars, queueVars, bufferCounter, setupVars,
                 apiVars, appSlots, sentRound, appRound>>

(* The work buffer goes out on a channel that has a socket by now.  The    *)
(* step is the return of the two send() calls, which block for as long as  *)
(* the listener does not read: no fairness is assumed of it.  (The chunks  *)
(* of one send are abstracted to one message; SocketTransmission has them, *)
(* and shows how a send also fails on a socket that was unregistered since *)
(* rx looked.)                                                             *)
RxSend(ch, pc, next) ==
  /\ rxpc = pc
  /\ \/ /\ sentRound' = IF ch \in sockets
                        THEN [sentRound EXCEPT ![ch] = RoundOf(workSlots)]
                        ELSE sentRound
        /\ RxGoto(next)
     \/ /\ "send" \in Faults
        /\ RxReturn("failed")
        /\ UNCHANGED sentRound
  /\ UNCHANGED <<boardVars, flagVars, queueVars, bufferCounter, setupVars,
                 apiVars, workSlots, appSlots, appRound>>

BugNoRepost ==
  /\ rxpc = "repost"
  /\ RxGoto("count")
  /\ UNCHANGED <<boardVars, flagVars, queueVars, bufferCounter, setupVars,
                 apiVars, outVars>>
RxRepost ==
  /\ rxpc = "repost"
  /\ IF bufferCounter < geometry.nbrBuffers
     THEN Enqueue(rxBuf) /\ RxGoto("post")
     ELSE RxGoto("count") /\ UNCHANGED queueVars
  /\ UNCHANGED <<boardVars, flagVars, bufferCounter, setupVars, apiVars, outVars>>

RxPost ==
  /\ rxpc = "post"
  /\ \/ PostAsyncBuffer(rxBuf, geometry.bufferLen) /\ RxGoto("count")
     \/ "post" \in Faults /\ UNCHANGED boardVars /\ RxReturn("failed")
  /\ UNCHANGED <<flagVars, queueVars, bufferCounter, setupVars, apiVars, outVars>>

RxCount ==
  /\ rxpc = "count"
  /\ IF threadStop
     THEN RxReturn("exited") /\ UNCHANGED bufferCounter
     ELSE RxReturn("loop") /\ bufferCounter' = bufferCounter + 1
  /\ UNCHANGED <<boardVars, flagVars, queueVars, setupVars, apiVars, outVars>>

RxAbort ==
  /\ rxpc = "abort"
  /\ AbortAsyncRead \/ ("abort" \in Faults /\ UNCHANGED boardVars)
  /\ RxReturn("exited")
  /\ UNCHANGED <<flagVars, queueVars, bufferCounter, setupVars, apiVars, outVars>>
-----------------------------------------------------------------------------
Rx ==
  \/ RxReady \/ RxLoop \/ RxPop \/ RxPopEmpty \/ RxCheckStop \/ RxWait
  \/ RxRoute \/ RxQueue \/ RxProcess
  \/ RxSend("ch1", "send1", "send2") \/ RxSend("ch2", "send2", "repost")
  \/ RxRepost \/ RxPost \/ RxCount \/ RxAbort

(* The calls a client chooses to make, and the inside of a call. *)
ApiCall ==
  \/ \E c \in Configs : SetAll(c)
  \/ \E ch \in Channels : RegisterSocket(ch)
  \/ UnregisterSockets \/ Acquire \/ WaitForAcquisition \/ Stop
ApiStep ==
  \/ \E b \in Buffers : PostInitial(b)
  \/ StartAcquire \/ AcquireReturn
  \/ ProcessForApp \/ PushForApp \/ PostForApp
  \/ JoinRx \/ AbortOnStop \/ ClearQueues

(* The board fills a buffer: triggers (force_trigger's too) keep coming.   *)
BoardStep ==
  /\ DMA
  /\ UNCHANGED <<flagVars, queueVars, bufferCounter, setupVars, rxVars,
                 apiVars, outVars>>

Next == Rx \/ ApiCall \/ ApiStep \/ BoardStep

Spec == Init /\ [][Next]_vars

(* rx is in a send, which returns only when the listener makes room.       *)
Sending == rxpc \in {"send1", "send2"}

(* Both threads are scheduled, but a send may last for ever; what the      *)
(* client, the board and the listeners do is up to them.                   *)
ThreadSpec == Spec /\ WF_vars(~Sending /\ Rx) /\ WF_vars(ApiStep)
-----------------------------------------------------------------------------
(* Every variable has its type. *)
TypeOK ==
  /\ BoardTypeOK
  /\ threadStop \in BOOLEAN /\ threadRunning \in BOOLEAN
  /\ bufferQ \in Seq(Buffers) /\ dataQ \in Seq(Buffers)
  /\ ownerQ \subseteq Buffers
  /\ bufferCounter \in Nat
  /\ sockets \subseteq Channels
  /\ geometry \in Geometry
  /\ geometry.partialBuffer => geometry.buffersPerRoundRobin > 0
  /\ room \in [Buffers -> Nat]
  /\ rxpc \in {"none", "start", "loop", "pop", "empty", "check", "wait",
                "route", "queue", "process", "send1", "send2", "repost",
                "post", "count", "abort", "exited", "failed"}
  /\ rxBuf \in Buffers \cup {NoBuffer}
  /\ apc \in {"idle", "posting", "ready", "process", "push", "post",
               "join", "abort", "clear"}
  /\ apiBuf \in Buffers \cup {NoBuffer}
  /\ apiCount \in Nat
  /\ apiFull \in BOOLEAN
  /\ workSlots \in [Slots -> Nat \cup {NoData}]
  /\ appSlots \in [Slots -> Nat \cup {NoData}]
  /\ sentRound \in [Channels -> Nat \cup {NoData, Torn}]
  /\ appRound \in Nat \cup {NoData, Torn}

(* The buffer each thread holds outside every queue, and may read.         *)
RxHolds ==
  IF rxpc \in {"route", "queue", "process", "send1", "send2", "repost", "post"}
  THEN {rxBuf} ELSE {}
ApiHolds == IF apc \in {"process", "push", "post"} THEN {apiBuf} ELSE {}

(* Some shared_ptr keeps the buffer's memory allocated. *)
Allocated ==
  ownerQ \cup Range(bufferQ) \cup Range(dataQ) \cup {rxBuf, apiBuf}

(* The board never has freed memory to write into: a posted buffer is kept *)
(* alive by a queue or a thread, also after rx returned with the pointer   *)
(* it had popped, until AlazarAbortAsyncRead took the buffer off the board *)
(* (libAlazar.h:64-66, libAlazar.cpp:534-538).                             *)
MemoryLive == Range(posted) \subseteq Allocated

(* The board never writes beyond a buffer's end: it was told a length the  *)
(* buffer was allocated with, although postBuffer takes the bufferLen of   *)
(* the moment (libAlazar.cpp:495-497, 556).  (False when the client        *)
(* configures larger buffers while an acquisition is on: see the README.)  *)
PostedFits == \A b \in Range(posted) : length[b] <= room[b]

(* No buffer is in two places: the board cannot overwrite one that waits   *)
(* in dataQ or that a thread is processing, rx and the API thread never    *)
(* work on the same one, and none is posted or queued twice.               *)
ExclusiveBuffers ==
  /\ IsInjective(posted)
  /\ IsInjective(dataQ)
  /\ Range(posted) \cap Range(dataQ) = {}
  /\ (RxHolds \cup ApiHolds) \cap (Range(posted) \cup Range(dataQ)) = {}
  /\ RxHolds \cap ApiHolds = {}

(* rx waits for buffers in the order in which the board completes them:    *)
(* bufferQ, behind the buffer rx waits for, is the board's FIFO, except    *)
(* for one that postBuffer queued and has yet to post.  This is why        *)
(* AlazarWaitAsyncBufferComplete never reports an invalid buffer.          *)
QueueAgreement ==
  threadRunning /\ rxpc # "exited" =>
    /\ rxpc # "failed"
    /\ (IF rxpc \in {"check", "wait"} THEN <<rxBuf>> ELSE <<>>) \o bufferQ
         = posted \o (IF rxpc = "post" THEN <<rxBuf>> ELSE <<>>)
                  \o (IF apc = "post" THEN <<apiBuf>> ELSE <<>>)

(* While rx works, every buffer of the pool is on its way round: posted,   *)
(* waiting for the application, or in a thread's hands; none drops out.    *)
NoBufferLost ==
  threadRunning /\ ~RxReturned =>
    ownerQ = Range(posted) \cup Range(dataQ) \cup RxHolds \cup ApiHolds

(* What was captured and not consumed yet, oldest first. *)
Pending ==
  (IF apc = "process" THEN <<apiBuf>> ELSE <<>>) \o dataQ
    \o (IF rxpc \in {"route", "queue", "process"} THEN <<rxBuf>> ELSE <<>>)
    \o SubSeq(posted, 1, nFilled)

(* Captures are consumed in capture order with no gap, however the two     *)
(* threads and the board interleave: the unconsumed ones are the latest    *)
(* Len(Pending), in order.                                                 *)
CapturesInOrder ==
  threadRunning =>
    \A i \in 1..Len(Pending) :
      content[Pending[i]] = captured - Len(Pending) + i - 1

(* After stop (or before acquire) nothing of an acquisition is left over   *)
(* for the next one: no thread, no stop request, no posted or queued       *)
(* buffer, no memory.                                                      *)
CleanWhenStopped ==
  apc = "idle" /\ ~threadRunning =>
    /\ rxpc = "none" /\ ~threadStop
    /\ posted = <<>> /\ bufferQ = <<>> /\ dataQ = <<>> /\ ownerQ = {}

(* What wait_for_acquisition returns 1 for is one whole round robin, its   *)
(* buffers in their places (libAlazarAPI.cpp:153-155: "if there are        *)
(* multiple buffers per roundrobin the partial index logic is used to      *)
(* process the data from the individual buffers into one application       *)
(* channel buffer").                                                       *)
AppRoundsWhole == appRound # Torn

(* The application sees a BufferStream: numberAcquisitions results, in     *)
(* capture order, none lost, repeated or torn - as long as a buffer holds  *)
(* whole round robins (otherwise see AppRoundsWhole).                      *)
StreamTotal(running) == IF running THEN NumberAcquisitions ELSE 0
StreamLast(running, last) == IF running THEN last ELSE NoData
PolledWhole == threadRunning /\ ~geometry.partialBuffer
AppStream == INSTANCE BufferStream WITH
  running <- PolledWhole, total <- StreamTotal(PolledWhole),
  last <- StreamLast(PolledWhole, appRound)
AppStreamSpec == AppStream!Spec

(* So does the listener on channel 1's socket (libAlazar.cpp:403-423). *)
Ch1Stream == INSTANCE BufferStream WITH
  running <- threadRunning, total <- StreamTotal(threadRunning),
  last <- StreamLast(threadRunning, sentRound["ch1"])
Ch1StreamSpec == Ch1Stream!Spec

(* So does the listener on channel 2's socket (libAlazar.cpp:424-443). *)
Ch2Stream == INSTANCE BufferStream WITH
  running <- threadRunning, total <- StreamTotal(threadRunning),
  last <- StreamLast(threadRunning, sentRound["ch2"])
Ch2StreamSpec == Ch2Stream!Spec
-----------------------------------------------------------------------------
(* stop returns, whatever fails and whether or not the board ever          *)
(* completes another buffer, unless rx is in a send that never ends: the   *)
(* join (libAlazar.cpp:522-528) looks at no time-out, and a send           *)
(* (libAlazar.cpp:416, 435) at no threadStop.                              *)
StopReturns == []<>~Sending => (apc = "join" ~> apc = "idle")

(* acquire returns: its wait for rx's ready flag is not in vain. *)
AcquireReturns == apc = "posting" ~> apc = "idle"
=============================================================================
