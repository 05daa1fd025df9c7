------------------------- MODULE AcquisitionProofs -------------------------
(***************************************************************************)
(* What holds of Acquisition for every number of buffers, every geometry,  *)
(* every pool size and every choice of faults and mid-run calls a theorem  *)
(* does not exclude by name.                                               *)
(***************************************************************************)
EXTENDS Acquisition, SequenceTheorems, TLAPS

-----------------------------------------------------------------------------
(* Lemmas on the values a queue holds.                                     *)

(* A queue holds what it held and what was pushed. *)
LEMMA RangeOfPush ==
  ASSUME NEW S, NEW q \in Seq(S), NEW b \in S
  PROVE  /\ Push(q, b) \in Seq(S)
         /\ Range(Push(q, b)) = Range(q) \cup {b}
<1>1. /\ Append(q, b) \in Seq(S)
      /\ Len(Append(q, b)) = Len(q) + 1
      /\ \A i \in 1..Len(q) : Append(q, b)[i] = q[i]
      /\ Append(q, b)[Len(q) + 1] = b
  BY AppendProperties
<1>2. DOMAIN Append(q, b) = 1..(Len(q) + 1) /\ DOMAIN q = 1..Len(q)
  BY <1>1, LenProperties
<1>3. 1..(Len(q) + 1) = (1..Len(q)) \cup {Len(q) + 1}
  BY LenProperties
<1>4. QED BY <1>1, <1>2, <1>3 DEF Push, Range

(* A pop takes the head out of the queue and nothing else. *)
LEMMA RangeOfPop ==
  ASSUME NEW S, NEW q \in Seq(S), q # <<>>
  PROVE  /\ Head(q) \in S /\ Tail(q) \in Seq(S)
         /\ Range(q) = Range(Tail(q)) \cup {Head(q)}
         /\ Len(Tail(q)) = Len(q) - 1 /\ Len(q) > 0
<1>1. /\ Head(q) = q[1] /\ Tail(q) \in Seq(S) /\ Head(q) \in S
      /\ Len(Tail(q)) = Len(q) - 1
      /\ \A i \in 1..Len(Tail(q)) : Tail(q)[i] = q[i + 1]
  BY HeadTailProperties
<1>2. /\ DOMAIN q = 1..Len(q) /\ DOMAIN Tail(q) = 1..(Len(q) - 1)
      /\ Len(q) \in Nat /\ Len(q) > 0
  BY <1>1, LenProperties, EmptySeq
<1>3. ASSUME NEW i \in 1..Len(q) PROVE q[i] \in Range(Tail(q)) \cup {Head(q)}
  <2>1. CASE i = 1 BY <1>1, <2>1
  <2>2. CASE i # 1
    <3>1. i - 1 \in DOMAIN Tail(q) /\ Tail(q)[i - 1] = q[i]
      BY <1>1, <1>2, <2>2
    <3>2. QED BY <3>1 DEF Range
  <2>3. QED BY <2>1, <2>2
<1>4. ASSUME NEW i \in DOMAIN Tail(q) PROVE Tail(q)[i] \in Range(q)
  <2>1. i + 1 \in DOMAIN q /\ Tail(q)[i] = q[i + 1] BY <1>1, <1>2
  <2>2. QED BY <2>1 DEF Range
<1>5. Head(q) \in Range(q) BY <1>1, <1>2 DEF Range
<1>6. QED BY <1>1, <1>2, <1>3, <1>4, <1>5 DEF Range

LEMMA RangeInSet == ASSUME NEW S, NEW q \in Seq(S) PROVE Range(q) \subseteq S
BY LenProperties, ElementOfSeq DEF Range

(* Nothing is in a cleared queue. *)
LEMMA RangeOfEmpty == Range(<<>>) = {}
BY DEF Range
-----------------------------------------------------------------------------
(* Type correctness.                                                       *)

(* The buffers that threads hold are buffers, not empty pointers. *)
HeldBuffers ==
  /\ rxpc \in {"check", "wait", "route", "queue", "process", "send1", "send2",
              "repost", "post", "count"} => rxBuf \in Buffers
  /\ apc \in {"process", "push", "post"} => apiBuf \in Buffers
TypeInv == TypeOK /\ HeldBuffers

LEMMA InitType == Init => TypeInv
BY SlotsAssumption
   DEF Init, TypeInv, TypeOK, HeldBuffers, BoardInit, BoardTypeOK, Blank, NoRoom,
       Unconfigured, Geometry, EmptySlots, Slots, NoData, Channels

(* A round robin's number, or Torn. *)
LEMMA RoundType ==
  ASSUME TypeOK, NEW slots \in [Slots -> Nat \cup {NoData}]
  PROVE  RoundOf(slots) \in Nat \cup {NoData, Torn}
<1>1. 0 \in Slots BY SlotsAssumption DEF Slots
<1>2. SlotsPerRound \in Nat /\ SlotsPerRound > 0
  BY SlotsAssumption DEF SlotsPerRound, TypeOK, Geometry
<1>3. slots[0] # NoData => slots[0] \div SlotsPerRound \in Nat
  BY <1>1, <1>2
<1>4. QED BY <1>3 DEF RoundOf

(* Putting a capture into a round robin's slots. *)
LEMMA ProcessType ==
  ASSUME TypeOK, NEW slots \in [Slots -> Nat \cup {NoData}], NEW b \in Buffers
  PROVE  Process(slots, b) \in [Slots -> Nat \cup {NoData}]
BY DEF Process, TypeOK, BoardTypeOK

(* The board's calls keep the board's types. *)
LEMMA PostType ==
  ASSUME BoardTypeOK, NEW b \in Buffers, NEW n \in Nat, PostAsyncBuffer(b, n)
  PROVE  BoardTypeOK'
<1>1. /\ Append(posted, b) \in Seq(Buffers)
      /\ Len(Append(posted, b)) = Len(posted) + 1 /\ Len(posted) \in Nat
  BY AppendProperties, LenProperties DEF BoardTypeOK
<1>2. QED BY <1>1 DEF BoardTypeOK, PostAsyncBuffer

LEMMA EngineBufferLen == ASSUME TypeOK PROVE geometry.bufferLen \in Nat
BY DEF TypeOK, Geometry

LEMMA AbortType == ASSUME BoardTypeOK, AbortAsyncRead PROVE BoardTypeOK'
<1>1. posted' \in Seq(Buffers) /\ Len(posted') = 0 BY DEF AbortAsyncRead
<1>2. nFilled' \in 0..Len(posted') BY <1>1 DEF AbortAsyncRead
<1>3. armed' \in BOOLEAN BY DEF AbortAsyncRead
<1>4. /\ captured' \in Nat /\ quota' \in Nat /\ content' \in [Buffers -> Nat \cup {NoData}]
      /\ length' \in [Buffers -> Nat]
  BY DEF BoardTypeOK, AbortAsyncRead, NoRoom
<1>5. QED BY <1>1, <1>2, <1>3, <1>4 DEF BoardTypeOK

LEMMA WaitCompleteType ==
  ASSUME BoardTypeOK, NEW b, WaitComplete(b) PROVE BoardTypeOK'
<1>1. posted # <<>>
  BY EmptySeq DEF BoardTypeOK, WaitComplete
<1>2. Tail(posted) \in Seq(Buffers) /\ Len(Tail(posted)) = Len(posted) - 1
  BY <1>1, RangeOfPop DEF BoardTypeOK
<1>3. QED BY <1>2, LenProperties DEF BoardTypeOK, WaitComplete

LEMMA WaitInvalidType ==
  ASSUME BoardTypeOK, NEW b, WaitInvalid(b) PROVE BoardTypeOK'
<1>1. /\ Tail(posted) \in Seq(Buffers) /\ Len(Tail(posted)) = Len(posted) - 1
      /\ Len(posted) > 0 /\ Len(posted) \in Nat
  BY RangeOfPop, LenProperties DEF BoardTypeOK, WaitInvalid
<1>2. posted' = Tail(posted) BY DEF WaitInvalid
<1>3. nFilled' \in 0..(Len(posted) - 1) BY <1>1 DEF BoardTypeOK, WaitInvalid
<1>4. UNCHANGED <<armed, captured, quota, content, length>> BY DEF WaitInvalid
<1>5. QED BY <1>1, <1>2, <1>3, <1>4 DEF BoardTypeOK

LEMMA DMAType == ASSUME BoardTypeOK, DMA PROVE BoardTypeOK'
BY LenProperties DEF BoardTypeOK, DMA

LEMMA BoardSame == ASSUME BoardTypeOK, UNCHANGED boardVars PROVE BoardTypeOK'
BY DEF BoardTypeOK, boardVars

LEMMA ApiCallType == ASSUME TypeInv, ApiCall PROVE TypeInv'
<1> USE DEF TypeInv, TypeOK, HeldBuffers, flagVars, queueVars, setupVars, rxVars, apiVars,
          outVars
<1>b. ASSUME UNCHANGED boardVars PROVE BoardTypeOK' BY <1>b, BoardSame
<1>1. ASSUME NEW c \in Configs, SetAll(c) PROVE TypeInv'
  BY <1>b, <1>1, ConfigsAssumption DEF SetAll
<1>2. ASSUME NEW ch \in Channels, RegisterSocket(ch) PROVE TypeInv'
  BY <1>b, <1>2 DEF RegisterSocket
<1>3. CASE UnregisterSockets BY <1>b, <1>3 DEF UnregisterSockets
<1>4. CASE Acquire
  <2>1. BoardTypeOK' BY <1>4 DEF Acquire, BeforeAsyncRead, BoardTypeOK, Geometry
  <2>2. QED BY <1>4, <2>1 DEF Acquire
<1>5. CASE WaitForAcquisition
  <2>1. Head(dataQ) \in Buffers /\ Tail(dataQ) \in Seq(Buffers)
    BY <1>5, RangeOfPop DEF WaitForAcquisition
  <2>2. apiBuf' \in Buffers /\ dataQ' \in Seq(Buffers)
    BY <1>5, <2>1 DEF WaitForAcquisition
  <2>3. BoardTypeOK' BY <1>b, <1>5 DEF WaitForAcquisition
  <2>4. apc' = "process" BY <1>5 DEF WaitForAcquisition
  <2>5. UNCHANGED <<flagVars, bufferQ, ownerQ, bufferCounter, setupVars, rxVars,
                    apiCount, apiFull, outVars>>
    BY <1>5 DEF WaitForAcquisition
  <2>6. QED BY <2>2, <2>3, <2>4, <2>5
<1>6. CASE Stop
  <2>1. threadStop' \in BOOLEAN /\ apc' \in {"idle", "join"} BY <1>6 DEF Stop
  <2>2. UNCHANGED <<boardVars, threadRunning, queueVars, bufferCounter,
                    setupVars, rxVars, apiBuf, apiCount, apiFull, outVars>>
    BY <1>6 DEF Stop
  <2>3. BoardTypeOK' BY <1>b, <2>2
  <2>4. QED BY <2>1, <2>2, <2>3
<1>7. QED BY <1>1, <1>2, <1>3, <1>4, <1>5, <1>6 DEF ApiCall

LEMMA ApiStepType == ASSUME TypeInv, ApiStep PROVE TypeInv'
<1> USE DEF TypeInv, TypeOK, HeldBuffers, flagVars, queueVars, setupVars, rxVars, apiVars,
          outVars
<1>b. ASSUME UNCHANGED boardVars PROVE BoardTypeOK' BY <1>b, BoardSame
<1>1. ASSUME NEW b \in Buffers, PostInitial(b) PROVE TypeInv'
  <2>1. Push(bufferQ, b) \in Seq(Buffers) BY RangeOfPush
  <2>2. BoardTypeOK' BY <1>b, <1>1, PostType, EngineBufferLen DEF PostInitial
  <2>3. room' \in [Buffers -> Nat] BY <1>1, EngineBufferLen DEF PostInitial
  <2>4. QED BY <1>1, <2>1, <2>2, <2>3 DEF PostInitial, Enqueue
<1>2. CASE StartAcquire
  <2>1. BoardTypeOK' BY <1>b, <1>2 DEF StartAcquire, StartCapture, BoardTypeOK
  <2>2. QED BY <1>2, <2>1, SlotsAssumption DEF StartAcquire, EmptySlots, Slots
<1>3. CASE AcquireReturn BY <1>b, <1>3 DEF AcquireReturn
<1>4. CASE ProcessForApp
  <2>1. appSlots' \in [Slots -> Nat \cup {NoData}]
    BY <1>4, ProcessType DEF ProcessForApp
  <2>2. apiFull' \in BOOLEAN BY <1>4 DEF ProcessForApp, RoundFull
  <2>3. QED BY <1>b, <1>4, <2>1, <2>2 DEF ProcessForApp
<1>5. CASE PushForApp
  <2>1. Push(bufferQ, apiBuf) \in Seq(Buffers) BY <1>5, RangeOfPush DEF PushForApp
  <2>2. QED BY <1>b, <1>5, <2>1 DEF PushForApp, Enqueue
<1>6. CASE PostForApp
  <2>1. BoardTypeOK' BY <1>b, <1>6, PostType, EngineBufferLen DEF PostForApp
  <2>2. RoundOf(appSlots) \in Nat \cup {NoData, Torn} BY RoundType
  <2>3. QED BY <1>6, <2>1, <2>2 DEF PostForApp
<1>7. CASE JoinRx BY <1>b, <1>7 DEF JoinRx
<1>8. CASE AbortOnStop
  <2>1. BoardTypeOK' BY <1>b, <1>8, AbortType DEF AbortOnStop
  <2>2. QED BY <1>8, <2>1 DEF AbortOnStop
<1>9. CASE ClearQueues
  <2>1. bufferQ' \in Seq(Buffers) /\ dataQ' \in Seq(Buffers)
    BY <1>9 DEF ClearQueues
  <2>2. ownerQ' = {} /\ threadStop' = FALSE /\ apc' = "idle" /\ content' = Blank
    BY <1>9 DEF ClearQueues
  <2>3. /\ content' \in [Buffers -> Nat \cup {NoData}]
        /\ room' \in [Buffers -> Nat]
    BY <1>9, <2>2 DEF ClearQueues, Blank, NoRoom
  <2>4. BoardTypeOK' BY <1>9, <2>3 DEF ClearQueues, BoardTypeOK
  <2>5. UNCHANGED <<threadRunning, bufferCounter, sockets, geometry, rxpc, rxBuf,
                    apiBuf, apiCount, apiFull, workSlots, appSlots, sentRound,
                    appRound>>
    BY <1>9 DEF ClearQueues
  <2>6. HeldBuffers' BY <2>2, <2>5
  <2> HIDE DEF HeldBuffers
  <2>7. TypeOK' BY <2>1, <2>2, <2>3, <2>4, <2>5
  <2>8. QED BY <2>6, <2>7
<1>10. QED
  BY <1>1, <1>2, <1>3, <1>4, <1>5, <1>6, <1>7, <1>8, <1>9 DEF ApiStep

LEMMA RxType == ASSUME TypeInv, Rx PROVE TypeInv'
<1> USE DEF TypeInv, TypeOK, HeldBuffers, flagVars, queueVars, setupVars, rxVars, apiVars,
          outVars, RxGoto, RxReturn
<1>b. ASSUME UNCHANGED boardVars PROVE BoardTypeOK' BY <1>b, BoardSame
<1>1. CASE RxReady BY <1>b, <1>1 DEF RxReady
<1>2. CASE RxLoop BY <1>b, <1>2 DEF RxLoop
<1>3. CASE RxPop
  <2>1. Head(bufferQ) \in Buffers /\ Tail(bufferQ) \in Seq(Buffers)
    BY <1>3, RangeOfPop DEF RxPop
  <2>2. rxBuf' \in Buffers /\ bufferQ' \in Seq(Buffers) /\ rxpc' = "check"
    BY <1>3, <2>1 DEF RxPop
  <2>3. UNCHANGED <<boardVars, flagVars, dataQ, ownerQ, bufferCounter,
                    setupVars, apiVars, outVars>>
    BY <1>3 DEF RxPop
  <2>4. BoardTypeOK' BY <1>b, <2>3
  <2>5. QED BY <2>2, <2>3, <2>4
<1>4. CASE RxPopEmpty BY <1>b, <1>4 DEF RxPopEmpty
<1>5. CASE RxCheckStop BY <1>b, <1>5 DEF RxCheckStop
<1>6. CASE RxWait
  <2>1. rxpc' \in {"route", "check", "failed"} /\ rxBuf' \in {rxBuf, NoBuffer}
        /\ (rxpc' # "failed" => rxBuf' = rxBuf) /\ rxpc = "wait"
    BY <1>6 DEF RxWait
  <2>2. BoardTypeOK'
    <3>1. CASE WaitComplete(rxBuf) BY <3>1, WaitCompleteType
    <3>2. CASE WaitInvalid(rxBuf) BY <3>2, WaitInvalidType
    <3>3. CASE UNCHANGED boardVars BY <1>b, <3>3
    <3>4. QED BY <1>6, <3>1, <3>2, <3>3 DEF RxWait, WaitTimeout
  <2>3. UNCHANGED <<flagVars, queueVars, bufferCounter, setupVars, apiVars,
                    outVars>>
    BY <1>6 DEF RxWait
  <2>4. QED BY <2>1, <2>2, <2>3
<1>7. CASE RxRoute BY <1>b, <1>7 DEF RxRoute
<1>8. CASE RxQueue
  <2>1. dataQ' \in Seq(Buffers) BY <1>8, RangeOfPush DEF RxQueue
  <2>2. QED BY <1>b, <1>8, <2>1 DEF RxQueue
<1>9. CASE RxProcess
  <2>1. workSlots' \in [Slots -> Nat \cup {NoData}]
    BY <1>9, ProcessType DEF RxProcess
  <2>2. QED BY <1>b, <1>9, <2>1 DEF RxProcess
<1>10. ASSUME NEW ch \in Channels, NEW pc, NEW next \in {"send2", "repost"},
              pc \in {"send1", "send2"}, RxSend(ch, pc, next)
       PROVE  TypeInv'
  <2>1. RoundOf(workSlots) \in Nat \cup {NoData, Torn} BY RoundType
  <2>2. sentRound' \in [Channels -> Nat \cup {NoData, Torn}]
    BY <1>10, <2>1 DEF RxSend
  <2>3. \/ rxpc' \in {"send2", "repost"} /\ rxBuf' = rxBuf
        \/ rxpc' = "failed" /\ rxBuf' = NoBuffer
    BY <1>10 DEF RxSend
  <2>4. UNCHANGED <<boardVars, flagVars, queueVars, bufferCounter, setupVars,
                    apiVars, workSlots, appSlots, appRound>>
        /\ rxpc \in {"send1", "send2"}
    BY <1>10 DEF RxSend
  <2>5. BoardTypeOK' BY <1>b, <2>4
  <2>6. QED BY <2>2, <2>3, <2>4, <2>5
<1>11. CASE RxRepost
  <2>1. bufferQ' \in Seq(Buffers) /\ ownerQ' \subseteq Buffers /\ dataQ' = dataQ
    BY <1>11, RangeOfPush DEF RxRepost, Enqueue
  <2>2. QED BY <1>b, <1>11, <2>1 DEF RxRepost
<1>12. CASE RxPost
  <2>1. BoardTypeOK' BY <1>b, <1>12, PostType, EngineBufferLen DEF RxPost
  <2>2. QED BY <1>12, <2>1 DEF RxPost
<1>13. CASE RxCount BY <1>b, <1>13 DEF RxCount
<1>14. CASE RxAbort
  <2>1. BoardTypeOK' BY <1>b, <1>14, AbortType DEF RxAbort
  <2>2. QED BY <1>14, <2>1 DEF RxAbort
<1>15. "ch1" \in Channels /\ "ch2" \in Channels BY DEF Channels
<1>16. QED
  BY <1>1, <1>2, <1>3, <1>4, <1>5, <1>6, <1>7, <1>8, <1>9, <1>10, <1>11,
     <1>12, <1>13, <1>14, <1>15 DEF Rx

LEMMA StutterType == ASSUME TypeInv, UNCHANGED vars PROVE TypeInv'
<1>1. BoardTypeOK' BY BoardSame DEF TypeInv, TypeOK, vars
<1>2. QED
  BY <1>1 DEF TypeInv, TypeOK, HeldBuffers, vars, flagVars, queueVars, setupVars, rxVars,
     apiVars, outVars

LEMMA BoardStepType == ASSUME TypeInv, BoardStep PROVE TypeInv'
<1>1. BoardTypeOK' BY DMAType DEF TypeInv, TypeOK, BoardStep
<1>2. QED
  BY <1>1 DEF TypeInv, TypeOK, HeldBuffers, BoardStep, flagVars, queueVars,
              setupVars, rxVars, apiVars, outVars

LEMMA TypeInvStep == TypeInv /\ [Next]_vars => TypeInv'
BY ApiCallType, ApiStepType, RxType, BoardStepType, StutterType DEF Next

LEMMA TypeInvHolds == Spec => []TypeInv
BY InitType, TypeInvStep, PTL DEF Spec

(* Every variable of the engine and of the board keeps its type, whatever  *)
(* fails and whatever the client calls: in particular nFilled never        *)
(* exceeds the number of posted buffers, no round robin gets a negative    *)
(* number, and no step is taken with an empty pointer where the code       *)
(* dereferences one.                                                       *)
THEOREM TypeCorrect == Spec => []TypeOK
BY TypeInvHolds, PTL DEF TypeInv
-----------------------------------------------------------------------------
(* The life cycle of an acquisition.                                       *)

(* The rx thread exists exactly while threadRunning is up; where the API   *)
(* thread can be with and without it; a stop request is only pending       *)
(* inside stop; the board holds no buffer when stop frees them, and        *)
(* nothing is left once stop has returned.                                 *)
LifeInv ==
  /\ threadRunning <=> rxpc # "none"
  /\ apc \in {"posting", "abort", "clear"} => ~threadRunning
  /\ apc \in {"ready", "process", "push", "post", "join"} => threadRunning
  /\ threadStop => apc \in {"join", "abort", "clear"}
  /\ apc = "clear" => posted = <<>>
  /\ apc = "idle" /\ ~threadRunning =>
       posted = <<>> /\ bufferQ = <<>> /\ dataQ = <<>> /\ ownerQ = {}
  /\ apc = "posting" => dataQ = <<>>

LEMMA InitLife == Init => LifeInv
BY DEF Init, LifeInv, BoardInit

(* Without a thread, the board's fill step is all that touches the board,  *)
(* and it posts nothing.                                                   *)
LEMMA LifeStep ==
  ASSUME "abort" \notin Faults, TypeInv, LifeInv, [Next]_vars
  PROVE  LifeInv'
<1> USE DEF LifeInv, boardVars, flagVars, queueVars, setupVars, rxVars,
            apiVars, outVars
<1>1. CASE ApiCall
  <2>1. ASSUME NEW c \in Configs, SetAll(c) PROVE LifeInv'
    BY <2>1 DEF SetAll
  <2>2. ASSUME NEW ch \in Channels, RegisterSocket(ch) PROVE LifeInv'
    BY <2>2 DEF RegisterSocket
  <2>3. CASE UnregisterSockets BY <2>3 DEF UnregisterSockets
  <2>4. CASE Acquire BY <2>4 DEF Acquire, BeforeAsyncRead
  <2>5. CASE WaitForAcquisition BY <2>5 DEF WaitForAcquisition
  <2>6. CASE Stop BY <2>6 DEF Stop
  <2>7. QED BY <1>1, <2>1, <2>2, <2>3, <2>4, <2>5, <2>6 DEF ApiCall
<1>2. CASE ApiStep
  <2>1. ASSUME NEW b \in Buffers, PostInitial(b) PROVE LifeInv'
    BY <2>1 DEF PostInitial, Enqueue
  <2>2. CASE StartAcquire BY <2>2 DEF StartAcquire, StartCapture
  <2>3. CASE AcquireReturn BY <2>3 DEF AcquireReturn
  <2>4. CASE ProcessForApp BY <2>4 DEF ProcessForApp
  <2>5. CASE PushForApp BY <2>5 DEF PushForApp, Enqueue
  <2>6. CASE PostForApp BY <2>6 DEF PostForApp, PostAsyncBuffer
  <2>7. CASE JoinRx BY <2>7 DEF JoinRx
  <2>8. CASE AbortOnStop BY <2>8 DEF AbortOnStop, AbortAsyncRead
  <2>9. CASE ClearQueues BY <2>9 DEF ClearQueues
  <2>10. QED BY <1>2, <2>1, <2>2, <2>3, <2>4, <2>5, <2>6, <2>7, <2>8, <2>9
             DEF ApiStep
<1>3. CASE Rx
  <2>1. rxpc # "none" /\ rxpc' # "none"
    BY <1>3 DEF Rx, RxReady, RxLoop, RxPop, RxPopEmpty, RxCheckStop, RxWait,
       RxRoute, RxQueue, RxProcess, RxSend, RxRepost, RxPost, RxCount,
       RxAbort, RxGoto, RxReturn
  <2>2. UNCHANGED <<flagVars, apiVars>>
    BY <1>3 DEF Rx, RxReady, RxLoop, RxPop, RxPopEmpty, RxCheckStop, RxWait,
       RxRoute, RxQueue, RxProcess, RxSend, RxRepost, RxPost, RxCount, RxAbort
  <2>3. QED BY <2>1, <2>2
<1>4. CASE BoardStep BY <1>4 DEF BoardStep, DMA
<1>5. CASE UNCHANGED vars BY <1>5 DEF vars
<1>6. QED BY <1>1, <1>2, <1>3, <1>4, <1>5 DEF Next

LEMMA LifeHolds ==
  ASSUME "abort" \notin Faults PROVE Spec => [](TypeInv /\ LifeInv)
<1>1. Init => TypeInv /\ LifeInv BY InitType, InitLife
<1>2. TypeInv /\ LifeInv /\ [Next]_vars => TypeInv' /\ LifeInv'
  BY TypeInvStep, LifeStep
<1>3. QED BY <1>1, <1>2, PTL DEF Spec

(* stop leaves nothing behind for the next acquire, whatever else fails    *)
(* and whatever the client changes mid-run, as long as the board's own     *)
(* abort does its work.                                                    *)
THEOREM CleanAfterStop ==
  ASSUME "abort" \notin Faults PROVE Spec => []CleanWhenStopped
<1>1. LifeInv => CleanWhenStopped BY DEF LifeInv, CleanWhenStopped
<1>2. QED BY <1>1, LifeHolds, PTL
-----------------------------------------------------------------------------
(* Ownership of the memory the board writes to.                            *)

(* ownerQ has a copy of every posted buffer's pointer, from before the     *)
(* post until after the abort: also of one that a thread is about to post. *)
OwnInv ==
  /\ Range(posted) \subseteq ownerQ
  /\ rxpc = "post" => rxBuf \in ownerQ
  /\ apc = "post" => apiBuf \in ownerQ

LEMMA InitOwn == Init => OwnInv
BY RangeOfEmpty DEF Init, OwnInv, BoardInit

(* What the board's calls do to the set of posted buffers. *)
LEMMA PostedAfterPost ==
  ASSUME BoardTypeOK, NEW b \in Buffers, NEW n, PostAsyncBuffer(b, n)
  PROVE  Range(posted') = Range(posted) \cup {b}
BY RangeOfPush DEF BoardTypeOK, PostAsyncBuffer, Push

LEMMA PostedAfterWait ==
  ASSUME BoardTypeOK, NEW b, WaitComplete(b) \/ WaitTimeout(b) \/ WaitInvalid(b)
  PROVE  Range(posted') \subseteq Range(posted)
<1>1. CASE WaitComplete(b)
  <2>1. posted # <<>> BY <1>1, EmptySeq DEF BoardTypeOK, WaitComplete
  <2>2. QED BY <1>1, <2>1, RangeOfPop DEF BoardTypeOK, WaitComplete
<1>2. CASE WaitTimeout(b) BY <1>2 DEF WaitTimeout, boardVars
<1>3. CASE WaitInvalid(b) BY <1>3, RangeOfPop DEF BoardTypeOK, WaitInvalid
<1>4. QED BY <1>1, <1>2, <1>3

LEMMA OwnStep ==
  ASSUME TypeInv, LifeInv, OwnInv, [Next]_vars PROVE OwnInv'
<1> USE DEF OwnInv
<1>a. BoardTypeOK BY DEF TypeInv, TypeOK
<1>1. CASE ApiCall
  BY <1>1 DEF ApiCall, SetAll, RegisterSocket, UnregisterSockets, Acquire,
     BeforeAsyncRead, WaitForAcquisition, Stop, boardVars, queueVars, rxVars,
     apiVars
<1>2. CASE ApiStep
  <2>1. ASSUME NEW b \in Buffers, PostInitial(b) PROVE OwnInv'
    <3>1. Range(posted') \subseteq Range(posted) \cup {b}
      BY <1>a, <2>1, PostedAfterPost DEF PostInitial, boardVars
    <3>2. QED BY <2>1, <3>1 DEF PostInitial, Enqueue, rxVars
  <2>2. CASE StartAcquire
    BY <2>2 DEF StartAcquire, StartCapture, boardVars, queueVars
  <2>3. CASE PushForApp
    BY <2>3 DEF PushForApp, Enqueue, boardVars, rxVars
  <2>4. CASE PostForApp
    <3>1. Range(posted') \subseteq Range(posted) \cup {apiBuf}
      BY <1>a, <2>4, PostedAfterPost DEF PostForApp, boardVars, TypeInv, HeldBuffers
    <3>2. QED BY <2>4, <3>1 DEF PostForApp, queueVars, rxVars
  <2>5. CASE AbortOnStop
    <3>1. posted' = <<>> \/ posted' = posted
      BY <2>5 DEF AbortOnStop, AbortAsyncRead, boardVars
    <3>2. QED
      BY <2>5, <3>1, RangeOfEmpty DEF AbortOnStop, queueVars, rxVars
  <2>6. CASE ClearQueues
    BY <2>6, RangeOfEmpty DEF ClearQueues, LifeInv, rxVars
  <2>7. CASE AcquireReturn \/ ProcessForApp \/ JoinRx
    BY <2>7 DEF AcquireReturn, ProcessForApp, JoinRx, boardVars, queueVars, rxVars
  <2>8. QED BY <1>2, <2>1, <2>2, <2>3, <2>4, <2>5, <2>6, <2>7 DEF ApiStep
<1>3. CASE Rx
  <2>a. UNCHANGED apiVars
    BY <1>3 DEF Rx, RxReady, RxLoop, RxPop, RxPopEmpty, RxCheckStop, RxWait,
       RxRoute, RxQueue, RxProcess, RxSend, RxRepost, RxPost, RxCount, RxAbort
  <2>1. CASE RxWait
    <3>1. Range(posted') \subseteq Range(posted)
      BY <1>a, <2>1, PostedAfterWait DEF RxWait, boardVars
    <3>2. QED BY <2>1, <3>1, <2>a DEF RxWait, RxGoto, RxReturn, queueVars, apiVars
  <2>2. CASE RxRepost
    BY <2>2, <2>a DEF RxRepost, Enqueue, RxGoto, boardVars, queueVars, apiVars
  <2>3. CASE RxPost
    <3>1. Range(posted') \subseteq Range(posted) \cup {rxBuf}
      BY <1>a, <2>3, PostedAfterPost DEF RxPost, boardVars, TypeInv, HeldBuffers
    <3>2. QED BY <2>3, <3>1, <2>a DEF RxPost, RxGoto, RxReturn, queueVars, apiVars
  <2>4. CASE RxAbort
    <3>1. posted' = <<>> \/ posted' = posted
      BY <2>4 DEF RxAbort, AbortAsyncRead, boardVars
    <3>2. QED
      BY <2>4, <3>1, <2>a, RangeOfEmpty DEF RxAbort, RxReturn, queueVars, apiVars
  <2>5. CASE \/ RxReady \/ RxLoop \/ RxPop \/ RxPopEmpty \/ RxCheckStop
             \/ RxRoute \/ RxQueue \/ RxProcess \/ RxCount
    BY <2>5, <2>a DEF RxReady, RxLoop, RxPop, RxPopEmpty, RxCheckStop, RxRoute,
       RxQueue, RxProcess, RxCount, RxGoto, RxReturn, boardVars, queueVars, apiVars
  <2>6. ASSUME NEW ch, NEW pc, NEW next \in {"send2", "repost"}, RxSend(ch, pc, next)
        PROVE  OwnInv'
    BY <2>6, <2>a DEF RxSend, RxGoto, RxReturn, boardVars, queueVars, apiVars
  <2>7. QED BY <1>3, <2>1, <2>2, <2>3, <2>4, <2>5, <2>6 DEF Rx
<1>4. CASE BoardStep
  BY <1>4 DEF BoardStep, DMA, queueVars, rxVars, apiVars
<1>5. CASE UNCHANGED vars BY <1>5 DEF vars, boardVars, queueVars, rxVars, apiVars
<1>6. QED BY <1>1, <1>2, <1>3, <1>4, <1>5 DEF Next

LEMMA OwnHolds ==
  ASSUME "abort" \notin Faults PROVE Spec => [](TypeInv /\ LifeInv /\ OwnInv)
<1>1. Init => TypeInv /\ LifeInv /\ OwnInv BY InitType, InitLife, InitOwn
<1>2. TypeInv /\ LifeInv /\ OwnInv /\ [Next]_vars => TypeInv' /\ LifeInv' /\ OwnInv'
  BY TypeInvStep, LifeStep, OwnStep
<1>3. QED BY <1>1, <1>2, PTL DEF Spec

(* The board never has a pointer to freed memory, whatever else fails and  *)
(* whatever the client changes mid-run, as long as the board's own abort   *)
(* does its work: otherwise stop frees what the board still has.           *)
THEOREM BoardMemoryLive ==
  ASSUME "abort" \notin Faults PROVE Spec => []MemoryLive
<1>1. OwnInv => MemoryLive BY DEF OwnInv, MemoryLive, Allocated
<1>2. QED BY <1>1, OwnHolds, PTL
-----------------------------------------------------------------------------
(* How far the board writes.                                               *)

(* A posted buffer is as long as the board was told; and one on its way to *)
(* be posted, in a queue or in a thread's hands, was allocated with the    *)
(* length that postBuffer will give.                                       *)
OnItsWay ==
  Range(bufferQ) \cup Range(dataQ) \cup ApiHolds
    \cup (IF rxpc \in {"check", "wait"} THEN {rxBuf} ELSE {}) \cup RxHolds
RoomInv ==
  /\ PostedFits
  /\ threadRunning \/ apc = "posting" => \A b \in OnItsWay : room[b] = geometry.bufferLen

LEMMA InitRoom == Init => RoomInv
BY RangeOfEmpty DEF Init, RoomInv, PostedFits, BoardInit

(* A buffer posted with no more than its room, the others keeping theirs. *)
LEMMA FitsAfterPost ==
  ASSUME TypeOK, PostedFits, NEW b \in Buffers, PostAsyncBuffer(b, geometry.bufferLen),
         room' \in [Buffers -> Nat], room'[b] = geometry.bufferLen,
         \A c \in Buffers : c # b => room'[c] = room[c]
  PROVE  PostedFits'
<1>1. Range(posted') = Range(posted) \cup {b} /\ Range(posted) \subseteq Buffers
  BY PostedAfterPost, RangeInSet DEF TypeOK, BoardTypeOK
<1>2. /\ length \in [Buffers -> Nat] /\ geometry.bufferLen \in Nat
      /\ length' = [length EXCEPT ![b] = geometry.bufferLen]
  BY EngineBufferLen DEF TypeOK, BoardTypeOK, PostAsyncBuffer
<1>3. ASSUME NEW c \in Range(posted') PROVE length'[c] <= room'[c]
  <2>1. CASE c = b BY <1>2, <2>1
  <2>2. CASE c # b BY <1>1, <1>2, <1>3, <2>2 DEF PostedFits
  <2>3. QED BY <2>1, <2>2
<1>4. QED BY <1>3 DEF PostedFits

LEMMA RoomApi ==
  ASSUME "setAll" \notin MidRun, TypeInv, LifeInv, OwnInv, RoomInv, ApiCall \/ ApiStep
  PROVE  RoomInv'
<1> USE DEF RoomInv, OnItsWay, RxHolds, ApiHolds, boardVars, flagVars, queueVars, setupVars,
            rxVars, apiVars
<1>a. TypeOK /\ BoardTypeOK /\ bufferQ \in Seq(Buffers) /\ dataQ \in Seq(Buffers)
  BY DEF TypeInv, TypeOK
<1>0. ASSUME UNCHANGED <<posted, length, room>> PROVE PostedFits' BY <1>0 DEF PostedFits
<1>1. ASSUME NEW c \in Configs, SetAll(c) PROVE RoomInv' BY <1>0, <1>1 DEF SetAll
<1>2. CASE (\E ch \in Channels : RegisterSocket(ch)) \/ UnregisterSockets \/ Stop
  BY <1>0, <1>2 DEF RegisterSocket, UnregisterSockets, Stop
<1>3. CASE Acquire
  <2>1. OnItsWay' = {} BY <1>3, RangeOfEmpty DEF Acquire, BeforeAsyncRead, LifeInv
  <2>2. PostedFits' BY <1>0, <1>3 DEF Acquire, BeforeAsyncRead
  <2>3. QED BY <2>1, <2>2
<1>4. CASE WaitForAcquisition
  <2>1. Range(dataQ') \cup {apiBuf'} = Range(dataQ)
    BY <1>a, <1>4, RangeOfPop DEF WaitForAcquisition
  <2>2. QED BY <1>0, <1>4, <2>1 DEF WaitForAcquisition
<1>5. ASSUME NEW b \in Buffers, PostInitial(b) PROVE RoomInv'
  <2>1. /\ room' \in [Buffers -> Nat] /\ room'[b] = geometry.bufferLen
        /\ \A c \in Buffers : c # b => room'[c] = room[c]
    BY <1>a, <1>5, EngineBufferLen DEF PostInitial, TypeOK
  <2>2. PostedFits'
    <3>1. CASE PostAsyncBuffer(b, geometry.bufferLen) BY <1>a, <2>1, <3>1, FitsAfterPost
    <3>2. CASE UNCHANGED boardVars
      <4>1. Range(posted) \subseteq Buffers /\ length \in [Buffers -> Nat]
        BY <1>a, RangeInSet DEF BoardTypeOK
      <4>2. ASSUME NEW c \in Range(posted) PROVE length[c] <= room'[c]
        <5>1. CASE c # b BY <2>1, <4>1, <5>1 DEF PostedFits
        <5>2. CASE c = b BY <1>5, <4>2, <5>2 DEF PostInitial, Fresh, OwnInv
        <5>3. QED BY <5>1, <5>2
      <4>3. QED BY <3>2, <4>2 DEF PostedFits
    <3>3. QED BY <1>5, <3>1, <3>2 DEF PostInitial
  <2>a. bufferQ' = Push(bufferQ, b) BY <1>5 DEF PostInitial, Enqueue
  <2>b. Range(bufferQ') = Range(bufferQ) \cup {b} /\ Range(bufferQ) \subseteq Buffers
    BY <1>a, <2>a, RangeOfPush, RangeInSet
  <2>3. apc = "posting" /\ rxpc = "none" /\ dataQ = <<>> BY <1>5 DEF PostInitial, LifeInv
  <2>4. OnItsWay' = Range(bufferQ) \cup {b} /\ Range(bufferQ) \subseteq OnItsWay
    BY <1>5, <2>b, <2>3, RangeOfEmpty DEF PostInitial, Enqueue
  <2>5. geometry' = geometry BY <1>5 DEF PostInitial
  <2>6. QED BY <2>1, <2>2, <2>b, <2>3, <2>4, <2>5
<1>6. CASE StartAcquire
  BY <1>0, <1>6 DEF StartAcquire, StartCapture, LifeInv
<1>7. CASE AcquireReturn \/ ProcessForApp \/ JoinRx
  BY <1>0, <1>7 DEF AcquireReturn, ProcessForApp, JoinRx, LifeInv
<1>8. CASE PushForApp
  <2>1. Range(bufferQ') = Range(bufferQ) \cup {apiBuf}
    BY <1>a, <1>8, RangeOfPush DEF PushForApp, Enqueue, TypeInv, HeldBuffers
  <2>2. QED BY <1>0, <1>8, <2>1 DEF PushForApp, Enqueue
<1>9. CASE PostForApp
  <2>1. apiBuf \in Buffers /\ threadRunning /\ room[apiBuf] = geometry.bufferLen
    BY <1>9 DEF PostForApp, TypeInv, HeldBuffers, LifeInv
  <2>2. PostedFits'
    <3>1. room' = room /\ room \in [Buffers -> Nat]
      BY <1>a, <1>9 DEF PostForApp, TypeOK
    <3>2. QED BY <1>0, <1>a, <1>9, <2>1, <3>1, FitsAfterPost DEF PostForApp
  <2>3. QED BY <1>9, <2>2 DEF PostForApp
<1>10. CASE AbortOnStop
  <2>1. PostedFits' BY <1>0, <1>10, RangeOfEmpty DEF AbortOnStop, AbortAsyncRead, PostedFits
  <2>2. ~threadRunning' /\ apc' = "clear" BY <1>10 DEF AbortOnStop, LifeInv
  <2>3. QED BY <2>1, <2>2
<1>11. CASE ClearQueues
  <2>1. posted' = <<>> /\ ~threadRunning' /\ apc' = "idle" BY <1>11 DEF ClearQueues, LifeInv
  <2>2. QED BY <2>1, RangeOfEmpty DEF PostedFits
<1>12. QED
  BY <1>1, <1>2, <1>3, <1>4, <1>5, <1>6, <1>7, <1>8, <1>9, <1>10, <1>11 DEF ApiCall, ApiStep

LEMMA RoomRx ==
  ASSUME TypeInv, LifeInv, RoomInv, Rx PROVE RoomInv'
<1> USE DEF RoomInv, OnItsWay, RxHolds, ApiHolds, boardVars, flagVars, queueVars, setupVars,
            apiVars
<1>a. TypeOK /\ BoardTypeOK /\ bufferQ \in Seq(Buffers) /\ dataQ \in Seq(Buffers)
  BY DEF TypeInv, TypeOK
<1>b. /\ UNCHANGED <<apc, apiBuf, room, geometry, threadRunning>>
      /\ threadRunning
  BY DEF Rx, RxReady, RxLoop, RxPop, RxPopEmpty, RxCheckStop, RxWait, RxRoute, RxQueue,
     RxProcess, RxSend, RxRepost, RxPost, RxCount, RxAbort, LifeInv
<1>0. ASSUME OnItsWay' \subseteq OnItsWay PROVE
        \A b \in OnItsWay' : room'[b] = geometry'.bufferLen
  BY <1>0, <1>b
<1>1. ASSUME UNCHANGED <<posted, length>> PROVE PostedFits' BY <1>1, <1>b DEF PostedFits
<1>2. CASE RxReady \/ RxLoop \/ RxPopEmpty \/ RxCheckStop \/ RxRoute \/ RxProcess \/ RxCount
  <2>1. OnItsWay' \subseteq OnItsWay
    BY <1>b, <1>2 DEF RxReady, RxLoop, RxPopEmpty, RxCheckStop, RxRoute, RxProcess, RxCount,
       RxGoto, RxReturn
  <2>2. UNCHANGED <<posted, length>>
    BY <1>2 DEF RxReady, RxLoop, RxPopEmpty, RxCheckStop, RxRoute, RxProcess, RxCount
  <2>3. QED BY <1>0, <1>1, <2>1, <2>2
<1>3. ASSUME NEW ch, NEW pc \in {"send1", "send2"}, NEW next \in {"send2", "repost"},
             RxSend(ch, pc, next)
      PROVE  RoomInv'
  <2>1. OnItsWay' \subseteq OnItsWay BY <1>b, <1>3 DEF RxSend, RxGoto, RxReturn
  <2>2. QED BY <1>0, <1>1, <1>3, <2>1 DEF RxSend
<1>4. CASE RxPop
  <2>1. Range(bufferQ') \cup {rxBuf'} = Range(bufferQ) BY <1>a, <1>4, RangeOfPop DEF RxPop
  <2>2. OnItsWay' \subseteq OnItsWay BY <1>b, <1>4, <2>1 DEF RxPop
  <2>3. QED BY <1>0, <1>1, <1>4, <2>2 DEF RxPop
<1>5. CASE RxWait
  <2>1. OnItsWay' \subseteq OnItsWay BY <1>b, <1>5 DEF RxWait, RxGoto, RxReturn
  <2>2. Range(posted') \subseteq Range(posted) /\ length' = length
    BY <1>a, <1>5, PostedAfterWait DEF RxWait, WaitComplete, WaitTimeout, WaitInvalid
  <2>3. PostedFits' BY <1>b, <2>2 DEF PostedFits
  <2>4. QED BY <1>0, <2>1, <2>3
<1>6. CASE RxQueue
  <2>1. Range(dataQ') = Range(dataQ) \cup {rxBuf}
    BY <1>a, <1>6, RangeOfPush DEF RxQueue, TypeInv, HeldBuffers
  <2>2. OnItsWay' \subseteq OnItsWay BY <1>b, <1>6, <2>1 DEF RxQueue, RxGoto
  <2>3. QED BY <1>0, <1>1, <1>6, <2>2 DEF RxQueue
<1>7. CASE RxRepost
  <2>1. Range(bufferQ') \subseteq Range(bufferQ) \cup {rxBuf}
    BY <1>a, <1>7, RangeOfPush DEF RxRepost, Enqueue, TypeInv, HeldBuffers
  <2>2. OnItsWay' \subseteq OnItsWay BY <1>b, <1>7, <2>1 DEF RxRepost, Enqueue, RxGoto
  <2>3. QED BY <1>0, <1>1, <1>7, <2>2 DEF RxRepost
<1>8. CASE RxPost
  <2>1. OnItsWay' \subseteq OnItsWay BY <1>b, <1>8 DEF RxPost, RxGoto, RxReturn
  <2>2. rxBuf \in Buffers /\ room[rxBuf] = geometry.bufferLen
    BY <1>b, <1>8 DEF RxPost, TypeInv, HeldBuffers
  <2>3. room' = room /\ room \in [Buffers -> Nat] BY <1>a, <1>b DEF TypeOK
  <2>4. PostedFits' BY <1>1, <1>a, <1>8, <2>2, <2>3, FitsAfterPost DEF RxPost
  <2>5. QED BY <1>0, <2>1, <2>4
<1>9. CASE RxAbort
  <2>1. OnItsWay' \subseteq OnItsWay BY <1>b, <1>9 DEF RxAbort, RxReturn
  <2>2. PostedFits' BY <1>1, <1>9, RangeOfEmpty DEF RxAbort, AbortAsyncRead, PostedFits
  <2>3. QED BY <1>0, <2>1, <2>2
<1>10. QED
  BY <1>2, <1>3, <1>4, <1>5, <1>6, <1>7, <1>8, <1>9 DEF Rx

LEMMA RoomStep ==
  ASSUME "setAll" \notin MidRun, TypeInv, LifeInv, OwnInv, RoomInv, [Next]_vars
  PROVE  RoomInv'
<1>1. CASE BoardStep
  BY <1>1 DEF BoardStep, DMA, RoomInv, PostedFits, OnItsWay, RxHolds, ApiHolds, flagVars,
     queueVars, setupVars, rxVars, apiVars
<1>2. CASE UNCHANGED vars
  BY <1>2 DEF vars, boardVars, RoomInv, PostedFits, OnItsWay, RxHolds, ApiHolds, flagVars,
     queueVars, setupVars, rxVars, apiVars
<1>3. QED BY <1>1, <1>2, RoomApi, RoomRx DEF Next

LEMMA RoomHolds ==
  ASSUME "abort" \notin Faults, "setAll" \notin MidRun PROVE Spec => []RoomInv
<1>1. Init => RoomInv BY InitRoom
<1>2. TypeInv /\ LifeInv /\ OwnInv /\ RoomInv /\ [Next]_vars => RoomInv' BY RoomStep
<1>3. QED BY <1>1, <1>2, OwnHolds, PTL DEF Spec

(* The board never writes beyond the end of a buffer, whatever fails but   *)
(* its own abort and however often the client configures other buffer      *)
(* sizes between acquisitions: a buffer of one acquisition is never posted *)
(* with the length of the next (libAlazar.cpp:495-497, 556).  A client     *)
(* that configures larger buffers while an acquisition is on is excluded:  *)
(* postBuffer then gives the board more than was allocated.                *)
THEOREM BoardStaysInBuffers ==
  ASSUME "abort" \notin Faults, "setAll" \notin MidRun PROVE Spec => []PostedFits
<1>1. RoomInv => PostedFits BY DEF RoomInv
<1>2. QED BY <1>1, RoomHolds, PTL

-----------------------------------------------------------------------------
(* No buffer is in two places.                                             *)

(* A push of a new buffer, and a pop, keep a queue free of duplicates. *)
LEMMA InjectivePush ==
  ASSUME NEW S, NEW q \in Seq(S), NEW b \in S, IsInjective(q), b \notin Range(q)
  PROVE  IsInjective(Append(q, b))
<1>1. /\ Append(q, b) \in Seq(S)
      /\ Len(Append(q, b)) = Len(q) + 1
      /\ \A i \in 1..Len(q) : Append(q, b)[i] = q[i]
      /\ Append(q, b)[Len(q) + 1] = b
  BY AppendProperties
<1>2. /\ DOMAIN Append(q, b) = 1..(Len(q) + 1) /\ DOMAIN q = 1..Len(q)
      /\ Len(q) \in Nat
  BY <1>1, LenProperties
<1>3. \A i \in 1..Len(q) : q[i] # b BY <1>2 DEF Range
<1>4. \A i, j \in 1..Len(q) : q[i] = q[j] => i = j BY <1>2 DEF IsInjective
<1>5. ASSUME NEW i \in 1..(Len(q) + 1), NEW j \in 1..(Len(q) + 1),
             Append(q, b)[i] = Append(q, b)[j]
      PROVE  i = j
  <2>1. CASE i \in 1..Len(q) /\ j \in 1..Len(q) BY <1>1, <1>4, <1>5, <2>1
  <2>2. CASE i = Len(q) + 1 /\ j \in 1..Len(q) BY <1>1, <1>3, <1>5, <2>2
  <2>3. CASE i \in 1..Len(q) /\ j = Len(q) + 1 BY <1>1, <1>3, <1>5, <2>3
  <2>4. CASE i = Len(q) + 1 /\ j = Len(q) + 1 BY <2>4
  <2>5. QED BY <1>2, <2>1, <2>2, <2>3, <2>4
<1>6. QED BY <1>2, <1>5 DEF IsInjective

LEMMA InjectivePop ==
  ASSUME NEW S, NEW q \in Seq(S), q # <<>>, IsInjective(q)
  PROVE  IsInjective(Tail(q)) /\ Head(q) \notin Range(Tail(q))
<1>1. /\ Head(q) = q[1] /\ Tail(q) \in Seq(S)
      /\ Len(Tail(q)) = Len(q) - 1
      /\ \A i \in 1..Len(Tail(q)) : Tail(q)[i] = q[i + 1]
  BY HeadTailProperties
<1>2. /\ DOMAIN q = 1..Len(q) /\ DOMAIN Tail(q) = 1..(Len(q) - 1)
      /\ Len(q) \in Nat /\ Len(q) > 0
  BY <1>1, LenProperties, EmptySeq
<1>3. \A i, j \in 1..Len(q) : q[i] = q[j] => i = j BY <1>2 DEF IsInjective
<1>4. ASSUME NEW i \in 1..(Len(q) - 1) PROVE Tail(q)[i] # q[1]
  <2>1. i + 1 \in 1..Len(q) /\ 1 \in 1..Len(q) /\ i + 1 # 1 BY <1>2
  <2>2. QED BY <1>1, <1>2, <1>3, <2>1
<1>5. ASSUME NEW i \in 1..(Len(q) - 1), NEW j \in 1..(Len(q) - 1),
             Tail(q)[i] = Tail(q)[j]
      PROVE  i = j
  <2>1. i + 1 \in 1..Len(q) /\ j + 1 \in 1..Len(q) BY <1>2
  <2>2. q[i + 1] = q[j + 1] BY <1>1, <1>2, <1>5
  <2>3. i + 1 = j + 1 BY <1>3, <2>1, <2>2
  <2>4. QED BY <2>3
<1>6. QED BY <1>1, <1>2, <1>4, <1>5 DEF IsInjective, Range

LEMMA InjectiveEmpty == IsInjective(<<>>)
BY DEF IsInjective

(* A post of a buffer the board does not have. *)
LEMMA InjectivePosted ==
  ASSUME BoardTypeOK, NEW b \in Buffers, IsInjective(posted), b \notin Range(posted),
         NEW n, PostAsyncBuffer(b, n) \/ UNCHANGED boardVars
  PROVE  IsInjective(posted') /\ Range(posted') \subseteq Range(posted) \cup {b}
<1>1. CASE PostAsyncBuffer(b, n)
  <2>1. posted \in Seq(Buffers) /\ posted' = Append(posted, b)
    BY <1>1 DEF BoardTypeOK, PostAsyncBuffer
  <2>2. IsInjective(Append(posted, b)) BY <2>1, InjectivePush
  <2>3. QED BY <1>1, <2>1, <2>2, PostedAfterPost
<1>2. CASE UNCHANGED boardVars BY <1>2 DEF boardVars
<1>3. QED BY <1>1, <1>2

LEMMA InitExclusive == Init => ExclusiveBuffers
BY RangeOfEmpty, InjectiveEmpty
   DEF Init, ExclusiveBuffers, BoardInit, RxHolds, ApiHolds

LEMMA ExclusiveApiCall ==
  ASSUME TypeInv, LifeInv, ExclusiveBuffers, ApiCall PROVE ExclusiveBuffers'
<1> USE DEF ExclusiveBuffers, RxHolds, ApiHolds, boardVars, queueVars, rxVars,
            apiVars
<1>1. CASE WaitForAcquisition
  <2>1. /\ IsInjective(dataQ') /\ Head(dataQ) \notin Range(dataQ')
        /\ Range(dataQ) = Range(dataQ') \cup {Head(dataQ)}
    BY <1>1, InjectivePop, RangeOfPop DEF WaitForAcquisition, TypeInv, TypeOK
  <2>2. apc = "idle" /\ apiBuf' = Head(dataQ) /\ UNCHANGED <<posted, rxpc, rxBuf>>
    BY <1>1 DEF WaitForAcquisition
  <2>3. RxHolds' = RxHolds /\ ApiHolds' \subseteq {Head(dataQ)}
    BY <2>2
  <2>4. QED BY <2>1, <2>2, <2>3
<1>2. CASE \E c \in Configs : SetAll(c) BY <1>2 DEF SetAll
<1>3. CASE \E ch \in Channels : RegisterSocket(ch) BY <1>3 DEF RegisterSocket
<1>4. CASE UnregisterSockets BY <1>4 DEF UnregisterSockets
<1>5. CASE Acquire BY <1>5 DEF Acquire, BeforeAsyncRead
<1>6. CASE Stop BY <1>6 DEF Stop
<1>7. QED BY <1>1, <1>2, <1>3, <1>4, <1>5, <1>6 DEF ApiCall

LEMMA ExclusiveApiStep ==
  ASSUME TypeInv, LifeInv, OwnInv, ExclusiveBuffers, ApiStep
  PROVE  ExclusiveBuffers'
<1> USE DEF ExclusiveBuffers, RxHolds, ApiHolds
<1>1. ASSUME NEW b \in Buffers, PostInitial(b) PROVE ExclusiveBuffers'
  <2>1. apc = "posting" /\ rxpc = "none" /\ dataQ = <<>>
    BY <1>1 DEF PostInitial, LifeInv
  <2>2. UNCHANGED <<dataQ, rxpc, rxBuf, apc, apiBuf>>
    BY <1>1 DEF PostInitial, Enqueue, rxVars
  <2>3. b \notin Range(posted) BY <1>1 DEF PostInitial, Fresh, OwnInv
  <2>4. IsInjective(posted')
    BY <1>1, <2>3, InjectivePosted DEF PostInitial, TypeInv, TypeOK
  <2>5. QED BY <2>1, <2>2, <2>4, RangeOfEmpty
<1>2. CASE PostForApp
  <2>1. apc = "post" /\ apc' = "idle" /\ apiBuf \in Buffers
    BY <1>2 DEF PostForApp, TypeInv, HeldBuffers
  <2>2. UNCHANGED <<dataQ, rxpc, rxBuf>>
    BY <1>2 DEF PostForApp, queueVars, rxVars
  <2>3. PostAsyncBuffer(apiBuf, geometry.bufferLen) \/ UNCHANGED boardVars
    BY <1>2 DEF PostForApp, boardVars
  <2>4. apiBuf \notin Range(posted) BY <2>1
  <2>5. IsInjective(posted') /\ Range(posted') \subseteq Range(posted) \cup {apiBuf}
    BY <2>1, <2>3, <2>4, InjectivePosted DEF TypeInv, TypeOK
  <2>6. QED BY <2>1, <2>2, <2>5
<1>3. CASE AbortOnStop
  <2>1. posted' = <<>> \/ posted' = posted
    BY <1>3 DEF AbortOnStop, AbortAsyncRead, boardVars
  <2>2. apc' = "clear" /\ UNCHANGED <<dataQ, rxpc, rxBuf>>
    BY <1>3 DEF AbortOnStop, queueVars, rxVars
  <2>3. QED BY <2>1, <2>2, RangeOfEmpty, InjectiveEmpty
<1>4. CASE ClearQueues
  <2>1. /\ posted' = posted /\ dataQ' = <<>> /\ apc' = "idle"
        /\ UNCHANGED <<rxpc, rxBuf>>
    BY <1>4 DEF ClearQueues, rxVars
  <2>2. QED BY <2>1, RangeOfEmpty, InjectiveEmpty
<1>5. CASE StartAcquire
  BY <1>5 DEF StartAcquire, StartCapture, boardVars, queueVars, LifeInv
<1>6. CASE JoinRx BY <1>6 DEF JoinRx, boardVars, queueVars
<1>7. CASE AcquireReturn \/ ProcessForApp \/ PushForApp
  BY <1>7 DEF AcquireReturn, ProcessForApp, PushForApp, Enqueue, boardVars,
     queueVars, rxVars
<1>8. QED BY <1>1, <1>2, <1>3, <1>4, <1>5, <1>6, <1>7 DEF ApiStep

LEMMA ExclusiveRx ==
  ASSUME TypeInv, ExclusiveBuffers, Rx PROVE ExclusiveBuffers'
<1> USE DEF ExclusiveBuffers, RxHolds, ApiHolds
<1>a. BoardTypeOK BY DEF TypeInv, TypeOK
<1>b. UNCHANGED <<apc, apiBuf>>
  BY DEF Rx, RxReady, RxLoop, RxPop, RxPopEmpty, RxCheckStop, RxWait, RxRoute,
     RxQueue, RxProcess, RxSend, RxRepost, RxPost, RxCount, RxAbort, apiVars
<1>1. CASE RxWait
  <2>1. rxpc = "wait" /\ UNCHANGED dataQ BY <1>1 DEF RxWait, queueVars
  <2>2. CASE WaitComplete(rxBuf) /\ RxGoto("route")
    <3>1. posted # <<>> /\ Head(posted) = rxBuf /\ posted' = Tail(posted)
      BY <1>a, <2>2, EmptySeq DEF BoardTypeOK, WaitComplete
    <3>2. /\ IsInjective(posted') /\ rxBuf \notin Range(posted')
          /\ Range(posted) = Range(posted') \cup {rxBuf}
      BY <1>a, <3>1, InjectivePop, RangeOfPop DEF BoardTypeOK
    <3>3. QED BY <1>b, <2>1, <2>2, <3>2 DEF RxGoto
  <2>3. CASE posted' = posted /\ rxpc' \in {"check", "failed"}
    BY <1>b, <2>1, <2>3
  <2>4. CASE WaitInvalid(rxBuf) /\ RxReturn("failed")
    <3>1. posted # <<>> /\ posted' = Tail(posted) BY <2>4 DEF WaitInvalid
    <3>2. IsInjective(posted') /\ Range(posted') \subseteq Range(posted)
      BY <1>a, <3>1, InjectivePop, RangeOfPop DEF BoardTypeOK
    <3>3. QED BY <1>b, <2>1, <2>4, <3>2 DEF RxReturn
  <2>5. QED
    BY <1>1, <2>2, <2>3, <2>4
       DEF RxWait, WaitTimeout, boardVars, RxGoto, RxReturn
<1>2. CASE RxQueue
  <2>1. rxpc = "queue" /\ rxpc' = "count" /\ posted' = posted /\ rxBuf \in Buffers
    BY <1>2 DEF RxQueue, RxGoto, boardVars, TypeInv, HeldBuffers
  <2>2. rxBuf \notin Range(dataQ) BY <2>1
  <2>3. IsInjective(dataQ') /\ Range(dataQ') = Range(dataQ) \cup {rxBuf}
    BY <1>2, <2>1, <2>2, InjectivePush, RangeOfPush DEF RxQueue, Push, TypeInv, TypeOK
  <2>4. QED BY <1>b, <2>1, <2>3
<1>3. CASE RxPost
  <2>1. /\ rxpc = "post" /\ rxpc' \in {"count", "failed"} /\ dataQ' = dataQ
        /\ rxBuf \in Buffers
    BY <1>3 DEF RxPost, RxGoto, RxReturn, queueVars, TypeInv, HeldBuffers
  <2>2. PostAsyncBuffer(rxBuf, geometry.bufferLen) \/ UNCHANGED boardVars
    BY <1>3 DEF RxPost, boardVars
  <2>3. rxBuf \notin Range(posted) BY <2>1
  <2>4. IsInjective(posted') /\ Range(posted') \subseteq Range(posted) \cup {rxBuf}
    BY <1>a, <2>1, <2>2, <2>3, InjectivePosted
  <2>5. QED BY <1>b, <2>1, <2>4
<1>4. CASE RxAbort
  <2>1. posted' = <<>> \/ posted' = posted
    BY <1>4 DEF RxAbort, AbortAsyncRead, boardVars
  <2>2. rxpc' = "exited" /\ dataQ' = dataQ
    BY <1>4 DEF RxAbort, RxReturn, queueVars
  <2>3. QED BY <1>b, <2>1, <2>2, RangeOfEmpty, InjectiveEmpty
<1>5. CASE RxReady \/ RxLoop \/ RxPop \/ RxPopEmpty \/ RxCheckStop \/ RxCount
  BY <1>b, <1>5 DEF RxReady, RxLoop, RxPop, RxPopEmpty, RxCheckStop, RxCount,
     RxGoto, RxReturn, boardVars, queueVars
<1>6. CASE RxRoute \/ RxProcess \/ RxRepost
  BY <1>b, <1>6 DEF RxRoute, RxProcess, RxRepost, Enqueue, RxGoto, boardVars, queueVars
<1>7. ASSUME NEW ch, NEW pc \in {"send1", "send2"}, NEW next \in {"send2", "repost"},
             RxSend(ch, pc, next)
      PROVE  ExclusiveBuffers'
  BY <1>b, <1>7 DEF RxSend, RxGoto, RxReturn, boardVars, queueVars
<1>8. QED BY <1>1, <1>2, <1>3, <1>4, <1>5, <1>6, <1>7 DEF Rx

(* The board never overwrites data somebody still reads, and rx and the    *)
(* API thread never work on the same buffer, for any interleaving, any     *)
(* faults but a failing abort, and any calls the client makes mid-run.     *)
THEOREM NoOverwrite ==
  ASSUME "abort" \notin Faults PROVE Spec => []ExclusiveBuffers
<1> DEFINE Inv == TypeInv /\ LifeInv /\ OwnInv /\ ExclusiveBuffers
<1>1. Init => Inv BY InitType, InitLife, InitOwn, InitExclusive
<1>2. ASSUME Inv, [Next]_vars PROVE Inv'
  <2>1. TypeInv' /\ LifeInv' /\ OwnInv'
    BY <1>2, TypeInvStep, LifeStep, OwnStep
  <2>2. ASSUME BoardStep PROVE ExclusiveBuffers'
    BY <1>2, <2>2 DEF BoardStep, DMA, ExclusiveBuffers, RxHolds, ApiHolds,
       queueVars, rxVars, apiVars
  <2>3. ASSUME UNCHANGED vars PROVE ExclusiveBuffers'
    BY <1>2, <2>3 DEF vars, ExclusiveBuffers, RxHolds, ApiHolds, boardVars,
       queueVars, rxVars, apiVars
  <2>4. ExclusiveBuffers'
    BY <1>2, <2>2, <2>3, ExclusiveApiCall, ExclusiveApiStep, ExclusiveRx DEF Next
  <2>5. QED BY <2>1, <2>4
<1>3. Inv => ExclusiveBuffers OBVIOUS
<1>4. QED BY <1>1, <1>2, <1>3, PTL DEF Spec
-----------------------------------------------------------------------------
(* Round robins. *)

(* The round robin that the n-th buffer belongs to, and its place there,   *)
(* P buffers making a round robin.                                         *)
RoundAt(P, n) == n \div P
PlaceAt(P, n) == n % P

LEMMA Division ==
  ASSUME NEW P \in Nat \ {0}, NEW m \in Nat
  PROVE  \E q \in Nat, r \in 0..(P - 1) :
           m = P * q + r /\ q = RoundAt(P, m) /\ r = PlaceAt(P, m)
<1>1. m % P \in 0..(P - 1) /\ m \div P \in Nat
  OBVIOUS
<1>2. PICK q \in Nat : q = m \div P BY <1>1
<1>3. PICK r \in 0..(P - 1) : r = m % P BY <1>1
<1>4. m = P * q + r BY <1>2, <1>3
<1>5. QED BY <1>2, <1>3, <1>4 DEF RoundAt, PlaceAt

LEMMA Quotient ==
  ASSUME NEW P \in Nat \ {0}, NEW q \in Nat, NEW r \in 0..(P - 1), NEW m \in Nat,
         m = P * q + r
  PROVE  m \div P = q /\ m % P = r
OBVIOUS

LEMMA LaterRoundsAreFurther ==
  ASSUME NEW P \in Nat \ {0}, NEW q \in Nat, NEW k \in Nat, k < q
  PROVE  P * q >= P * k + P
<1>1. q - k - 1 \in Nat OBVIOUS
<1>2. P * (q - k - 1) >= 0 BY <1>1
<1>3. P * (q - k - 1) = P * q - P * k - P OBVIOUS
<1>4. P * q \in Int /\ P * k \in Int OBVIOUS
<1>5. QED BY <1>2, <1>3, <1>4

(* The buffer after the n-th; the first buffer of a round robin that the   *)
(* n-th completes.                                                         *)
LEMMA NextPlace ==
  ASSUME NEW P \in Nat \ {0}, NEW n \in Nat
  PROVE  /\ RoundAt(P, n) \in Nat /\ PlaceAt(P, n) \in 0..(P - 1) /\ PlaceAt(P, n) <= n
         /\ PlaceAt(P, n) = P - 1 =>
              /\ PlaceAt(P, n + 1) = 0 /\ RoundAt(P, n + 1) = RoundAt(P, n) + 1
              /\ n - (P - 1) \in Nat
              /\ (n - (P - 1)) % P = 0 /\ (n - (P - 1)) \div P = RoundAt(P, n)
         /\ PlaceAt(P, n) # P - 1 =>
              /\ PlaceAt(P, n + 1) = PlaceAt(P, n) + 1
              /\ RoundAt(P, n + 1) = RoundAt(P, n)
<1>1. PICK q \in Nat, r \in 0..(P - 1) :
        n = P * q + r /\ q = RoundAt(P, n) /\ r = PlaceAt(P, n)
  BY Division
<1>a. q = RoundAt(P, n) /\ r = PlaceAt(P, n) BY <1>1
<1>2. PICK m \in Nat : m = P * q BY <1>1
<1>3. n = m + r BY <1>1, <1>2
<1>4. m \div P = q /\ m % P = 0
  <2>1. m = P * q + 0 BY <1>2
  <2>2. QED BY <2>1, Quotient
<1>5. PICK l \in Nat : l = n + 1 OBVIOUS
<1>6. CASE r = P - 1
  <2>1. PICK k \in Nat : k = q + 1 OBVIOUS
  <2>2. P * k = P * q + P BY <2>1
  <2>3. l = P * k + 0
    <3>1. P * k = m + P BY <1>2, <2>2
    <3>2. l = m + P BY <1>3, <1>5, <1>6
    <3>3. QED BY <3>1, <3>2
  <2>4. l \div P = k /\ l % P = 0 BY <2>3, Quotient
  <2>5. RoundAt(P, n + 1) = k /\ PlaceAt(P, n + 1) = 0
    BY <1>5, <2>4 DEF RoundAt, PlaceAt
  <2>6. n - (P - 1) = m BY <1>3, <1>6
  <2>7. /\ n - (P - 1) \in Nat
        /\ (n - (P - 1)) % P = 0 /\ (n - (P - 1)) \div P = RoundAt(P, n)
    BY <1>a, <1>4, <2>6
  <2>8. PlaceAt(P, n) <= n BY <1>a, <1>3
  <2>9. QED BY <1>a, <1>6, <2>1, <2>5, <2>7, <2>8
<1>7. CASE r # P - 1
  <2>1. PICK s \in 0..(P - 1) : s = r + 1 BY <1>7
  <2>2. l = P * q + s
    <3>1. l = m + s BY <1>3, <1>5, <2>1
    <3>2. QED BY <1>2, <3>1
  <2>3. l \div P = q /\ l % P = s BY <2>2, Quotient
  <2>4. RoundAt(P, n + 1) = q /\ PlaceAt(P, n + 1) = r + 1
    BY <1>5, <2>1, <2>3 DEF RoundAt, PlaceAt
  <2>5. PlaceAt(P, n) <= n BY <1>a, <1>3
  <2>6. QED BY <1>a, <1>7, <2>4, <2>5
<1>8. QED BY <1>6, <1>7

LEMMA RoundsGrow ==
  ASSUME NEW P \in Nat \ {0}, NEW m \in Nat, NEW n \in Nat, m <= n
  PROVE  RoundAt(P, m) <= RoundAt(P, n)
<1>1. PICK q \in Nat, r \in 0..(P - 1) : m = P * q + r /\ q = RoundAt(P, m)
  BY Division
<1>2. PICK k \in Nat, s \in 0..(P - 1) : n = P * k + s /\ k = RoundAt(P, n)
  BY Division
<1>3. SUFFICES ASSUME k < q PROVE FALSE BY <1>1, <1>2
<1>4. P * q >= P * k + P BY <1>3, LaterRoundsAreFurther
<1>5. PICK a \in Nat : a = P * q OBVIOUS
<1>6. PICK b \in Nat : b = P * k OBVIOUS
<1>7. a >= b + P /\ m = a + r /\ n = b + s BY <1>1, <1>2, <1>4, <1>5, <1>6
<1>8. QED BY <1>7

LEMMA RoundOfOne ==
  ASSUME NEW n \in Nat PROVE n % 1 = 0 /\ n \div 1 = n
OBVIOUS

(* The geometry in these terms: whole round robins in a buffer are round   *)
(* robins of one buffer.                                                   *)
LEMMA GeometryMeans ==
  ASSUME TypeInv
  PROVE  /\ SlotsPerRound \in Nat \ {0} /\ 0..(SlotsPerRound - 1) \subseteq Slots
         /\ SlotIndex = PlaceAt(SlotsPerRound, bufferCounter)
         /\ RoundFull <=> PlaceAt(SlotsPerRound, bufferCounter) = SlotsPerRound - 1
         /\ NumberAcquisitions = RoundAt(SlotsPerRound, geometry.nbrBuffers)
<1>1. /\ geometry.nbrBuffers \in Nat /\ bufferCounter \in Nat
      /\ geometry.buffersPerRoundRobin \in 0..MaxSlots
      /\ geometry.partialBuffer \in BOOLEAN
      /\ geometry.partialBuffer => geometry.buffersPerRoundRobin > 0
  BY DEF TypeInv, TypeOK, Geometry
<1>2. CASE geometry.partialBuffer
  BY <1>1, <1>2, SlotsAssumption
     DEF SlotsPerRound, Slots, SlotIndex, PlaceAt, PartialIndex, RoundFull,
         NumberAcquisitions, RoundAt
<1>3. CASE ~geometry.partialBuffer
  <2>1. SlotsPerRound = 1 BY <1>3 DEF SlotsPerRound
  <2>2. 0..(SlotsPerRound - 1) \subseteq Slots BY <2>1, SlotsAssumption DEF Slots
  <2>3. /\ PlaceAt(1, bufferCounter) = 0
        /\ RoundAt(1, geometry.nbrBuffers) = geometry.nbrBuffers
    BY <1>1, RoundOfOne DEF PlaceAt, RoundAt
  <2>4. QED BY <1>3, <2>1, <2>2, <2>3 DEF SlotIndex, RoundFull, NumberAcquisitions
<1>4. QED BY <1>1, <1>2, <1>3

LEMMA TotalIsNat == ASSUME TypeInv PROVE NumberAcquisitions \in Nat
<1>1. geometry.nbrBuffers \in Nat BY DEF TypeInv, TypeOK, Geometry
<1>2. QED BY <1>1, GeometryMeans, NextPlace
=============================================================================
