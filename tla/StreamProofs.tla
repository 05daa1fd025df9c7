---------------------------- MODULE StreamProofs ----------------------------
(***************************************************************************)
(* For every pool, number of buffers and round robin: the queue and the    *)
(* board agree, buffers go round and come in capture order; and, from      *)
(* that, Acquisition implements BufferStream: what the listeners on the    *)
(* sockets, and the application that polls whole round robins, are given.  *)
(***************************************************************************)
EXTENDS AcquisitionProofs

(* No call fails (but AlazarStartCapture, which rxThreadRun only prints),  *)
(* and the client leaves the sockets, or the geometry, alone while an      *)
(* acquisition is on: MCAcquisitionRobust and the violations are about     *)
(* what happens otherwise.                                                 *)
Reliable == Faults \subseteq {"start"}
SocketsStay == "sockets" \notin MidRun
GeometryStays == "setAll" \notin MidRun

(* Sequence facts for the two queues. *)
LEMMA Concatenations ==
  ASSUME NEW S, NEW s \in Seq(S), NEW b \in S
  PROVE  /\ <<>> \o s = s /\ s \o <<>> = s /\ s \o <<b>> = Append(s, b)
         /\ Append(s, b) \in Seq(S)
         /\ <<b>> \o s # <<>> /\ Head(<<b>> \o s) = b /\ Tail(<<b>> \o s) = s
OBVIOUS

LEMMA HeadAndTail ==
  ASSUME NEW S, NEW s \in Seq(S), s # <<>> PROVE <<Head(s)>> \o Tail(s) = s
OBVIOUS

LEMMA AppendBehind ==
  ASSUME NEW S, NEW s \in Seq(S), NEW b \in S, NEW c \in S
  PROVE  /\ Append(<<c>> \o s, b) = <<c>> \o Append(s, b)
         /\ s # <<>> => Head(Append(s, b)) = Head(s) /\ Tail(Append(s, b)) = Append(Tail(s), b)
OBVIOUS
-----------------------------------------------------------------------------
(* With a socket rx consumes every buffer itself and the application polls *)
(* nothing; without one rx hands every buffer to the application.          *)
OneConsumer ==
  /\ sockets # {} => dataQ = <<>> /\ apc \notin {"process", "push", "post"}
  /\ rxpc = "queue" => sockets = {}
  /\ rxpc \in {"process", "send1", "send2", "repost", "post"} => sockets # {}

LEMMA InitConsumer == Init => OneConsumer
BY DEF Init, OneConsumer

LEMMA ConsumerStep ==
  ASSUME SocketsStay, TypeInv, LifeInv, OneConsumer, [Next]_vars
  PROVE  OneConsumer'
<1> USE DEF OneConsumer, LifeInv, boardVars, flagVars, queueVars, setupVars, rxVars,
            apiVars, outVars
<1>1. CASE ApiCall
  <2>1. ASSUME NEW c \in Configs, SetAll(c) PROVE OneConsumer'
    BY <2>1 DEF SetAll
  <2>2. ASSUME NEW ch \in Channels, RegisterSocket(ch) PROVE OneConsumer'
    BY <2>2 DEF RegisterSocket, SocketsStay
  <2>3. CASE UnregisterSockets BY <2>3 DEF UnregisterSockets, SocketsStay
  <2>4. CASE Acquire BY <2>4 DEF Acquire, BeforeAsyncRead
  <2>5. CASE WaitForAcquisition BY <2>5 DEF WaitForAcquisition
  <2>6. CASE Stop BY <2>6 DEF Stop
  <2>7. QED BY <1>1, <2>1, <2>2, <2>3, <2>4, <2>5, <2>6 DEF ApiCall
<1>2. CASE ApiStep
  <2>1. ASSUME NEW b \in Buffers, PostInitial(b) PROVE OneConsumer'
    BY <2>1 DEF PostInitial, Enqueue
  <2>2. CASE StartAcquire BY <2>2 DEF StartAcquire, StartCapture
  <2>3. CASE AcquireReturn BY <2>3 DEF AcquireReturn
  <2>4. CASE ProcessForApp BY <2>4 DEF ProcessForApp
  <2>5. CASE PushForApp BY <2>5 DEF PushForApp, Enqueue
  <2>6. CASE PostForApp BY <2>6 DEF PostForApp
  <2>7. CASE JoinRx BY <2>7 DEF JoinRx
  <2>8. CASE AbortOnStop BY <2>8 DEF AbortOnStop
  <2>9. CASE ClearQueues BY <2>9 DEF ClearQueues
  <2>10. QED BY <1>2, <2>1, <2>2, <2>3, <2>4, <2>5, <2>6, <2>7, <2>8, <2>9
             DEF ApiStep
<1>3. CASE Rx
  <2>1. ASSUME NEW ch, NEW pc \in {"send1", "send2"}, NEW next \in {"send2", "repost"},
               RxSend(ch, pc, next)
        PROVE  OneConsumer'
    BY <2>1 DEF RxSend, RxGoto, RxReturn
  <2>2. CASE RxQueue BY <2>2 DEF RxQueue, RxGoto
  <2>3. CASE RxRepost BY <2>3 DEF RxRepost, RxGoto, Enqueue
  <2>4. CASE RxWait BY <2>4 DEF RxWait, RxGoto, RxReturn
  <2>5. CASE RxPost \/ RxAbort BY <2>5 DEF RxPost, RxAbort, RxGoto, RxReturn
  <2>6. CASE \/ RxReady \/ RxLoop \/ RxPop \/ RxPopEmpty \/ RxCheckStop
             \/ RxRoute \/ RxProcess \/ RxCount
    BY <2>6 DEF RxReady, RxLoop, RxPop, RxPopEmpty, RxCheckStop, RxRoute, RxProcess,
       RxCount, RxGoto, RxReturn
  <2>7. QED BY <1>3, <2>1, <2>2, <2>3, <2>4, <2>5, <2>6 DEF Rx
<1>4. CASE BoardStep BY <1>4 DEF BoardStep, DMA
<1>5. CASE UNCHANGED vars BY <1>5 DEF vars
<1>6. QED BY <1>1, <1>2, <1>3, <1>4, <1>5 DEF Next
-----------------------------------------------------------------------------
(* bufferQ is the board's FIFO.                                            *)

(* QueueAgreement by cases, and the FIFOs while rxThreadRun fills them. *)
Awaited == IF rxpc \in {"check", "wait"} THEN <<rxBuf>> \o bufferQ ELSE bufferQ
Due == IF rxpc = "post" THEN Append(posted, rxBuf)
       ELSE IF apc = "post" THEN Append(posted, apiBuf) ELSE posted
AgreeInv ==
  /\ threadRunning /\ rxpc # "exited" => rxpc # "failed" /\ Awaited = Due
  /\ apc = "posting" => bufferQ = posted

LEMMA AgreeMeans ==
  ASSUME TypeInv, OneConsumer, AgreeInv PROVE QueueAgreement
<1> SUFFICES ASSUME threadRunning, rxpc # "exited"
    PROVE  /\ rxpc # "failed"
           /\ (IF rxpc \in {"check", "wait"} THEN <<rxBuf>> ELSE <<>>) \o bufferQ
                = posted \o (IF rxpc = "post" THEN <<rxBuf>> ELSE <<>>)
                         \o (IF apc = "post" THEN <<apiBuf>> ELSE <<>>)
  BY DEF QueueAgreement
<1>1. /\ posted \in Seq(Buffers) /\ bufferQ \in Seq(Buffers)
      /\ rxpc \in {"check", "wait", "post"} => rxBuf \in Buffers
      /\ apc = "post" => apiBuf \in Buffers
  BY DEF TypeInv, TypeOK, BoardTypeOK, HeldBuffers
<1>2. (IF rxpc \in {"check", "wait"} THEN <<rxBuf>> ELSE <<>>) \o bufferQ = Awaited
  BY <1>1, Concatenations DEF Awaited
<1>3. posted \o (IF rxpc = "post" THEN <<rxBuf>> ELSE <<>>)
             \o (IF apc = "post" THEN <<apiBuf>> ELSE <<>>) = Due
  <2>1. CASE rxpc = "post"
    BY <1>1, <2>1, Concatenations DEF Due, OneConsumer
  <2>2. CASE rxpc # "post"
    BY <1>1, <2>2, Concatenations DEF Due
  <2>3. QED BY <2>1, <2>2
<1>4. QED BY <1>2, <1>3 DEF AgreeInv

LEMMA InitAgree == Init => AgreeInv
BY DEF Init, AgreeInv

LEMMA AgreeStep ==
  ASSUME Reliable, TypeInv, LifeInv, OneConsumer, AgreeInv, [Next]_vars
  PROVE  AgreeInv'
<1> USE DEF AgreeInv, Awaited, Due, boardVars, flagVars, queueVars, setupVars, rxVars,
            apiVars, outVars
<1>a. /\ posted \in Seq(Buffers) /\ bufferQ \in Seq(Buffers)
      /\ rxpc \in {"check", "wait", "repost", "post"} => rxBuf \in Buffers
      /\ apc \in {"push", "post"} => apiBuf \in Buffers
  BY DEF TypeInv, TypeOK, BoardTypeOK, HeldBuffers
<1>b. "post" \notin Faults /\ "wait" \notin Faults /\ "send" \notin Faults
  BY DEF Reliable
<1>1. CASE ApiCall
  <2>1. ASSUME NEW c \in Configs, SetAll(c) PROVE AgreeInv'
    BY <2>1 DEF SetAll
  <2>2. ASSUME NEW ch \in Channels, RegisterSocket(ch) PROVE AgreeInv'
    BY <2>2 DEF RegisterSocket
  <2>3. CASE UnregisterSockets BY <2>3 DEF UnregisterSockets
  <2>4. CASE Acquire BY <2>4 DEF Acquire, BeforeAsyncRead, LifeInv
  <2>5. CASE WaitForAcquisition BY <2>5 DEF WaitForAcquisition
  <2>6. CASE Stop BY <2>6 DEF Stop
  <2>7. QED BY <1>1, <2>1, <2>2, <2>3, <2>4, <2>5, <2>6 DEF ApiCall
<1>2. CASE ApiStep
  <2>1. ASSUME NEW b \in Buffers, PostInitial(b) PROVE AgreeInv'
    <3>1. ~threadRunning /\ apc = "posting" BY <2>1 DEF PostInitial, LifeInv
    <3>2. QED BY <1>b, <2>1, <3>1 DEF PostInitial, Enqueue, PostAsyncBuffer, Push
  <2>2. CASE StartAcquire BY <2>2 DEF StartAcquire, StartCapture
  <2>3. CASE AcquireReturn BY <2>3 DEF AcquireReturn
  <2>4. CASE ProcessForApp BY <2>4 DEF ProcessForApp
  <2>5. CASE PushForApp
    <3>1. /\ apc = "push" /\ apc' = "post" /\ bufferQ' = Append(bufferQ, apiBuf)
          /\ UNCHANGED <<posted, rxpc, rxBuf, apiBuf, threadRunning>>
      BY <2>5 DEF PushForApp, Enqueue, Push
    <3>2. rxpc # "post" BY <3>1 DEF OneConsumer
    <3>3. CASE rxpc \in {"check", "wait"}
      <4>1. <<rxBuf>> \o bufferQ' = Append(<<rxBuf>> \o bufferQ, apiBuf)
        BY <1>a, <3>1, <3>3, AppendBehind
      <4>2. QED BY <3>1, <3>3, <4>1
    <3>4. CASE rxpc \notin {"check", "wait"} BY <3>1, <3>2, <3>4
    <3>5. QED BY <3>3, <3>4
  <2>6. CASE PostForApp
    <3>1. rxpc # "post" BY <2>6 DEF PostForApp, OneConsumer
    <3>2. QED BY <1>b, <2>6, <3>1 DEF PostForApp, PostAsyncBuffer
  <2>7. CASE JoinRx BY <2>7 DEF JoinRx
  <2>8. CASE AbortOnStop
    BY <2>8 DEF AbortOnStop, AbortAsyncRead, LifeInv
  <2>9. CASE ClearQueues BY <2>9 DEF ClearQueues, LifeInv
  <2>10. QED BY <1>2, <2>1, <2>2, <2>3, <2>4, <2>5, <2>6, <2>7, <2>8, <2>9
             DEF ApiStep
<1>3. CASE Rx
  <2>a. /\ threadRunning BY <1>3 DEF Rx, RxReady, RxLoop, RxPop, RxPopEmpty, RxCheckStop,
       RxWait, RxRoute, RxQueue, RxProcess, RxSend, RxRepost, RxPost, RxCount, RxAbort, LifeInv
  <2>b. UNCHANGED <<apc, apiBuf, threadRunning>>
    BY <1>3 DEF Rx, RxReady, RxLoop, RxPop, RxPopEmpty, RxCheckStop, RxWait, RxRoute,
       RxQueue, RxProcess, RxSend, RxRepost, RxPost, RxCount, RxAbort
  <2>c. apc # "posting" BY <2>a DEF LifeInv
  <2>1. CASE RxPop
    <3>1. <<rxBuf'>> \o bufferQ' = bufferQ BY <1>a, <2>1, HeadAndTail DEF RxPop
    <3>2. QED BY <2>a, <2>b, <2>c, <2>1, <3>1 DEF RxPop
  <2>2. CASE RxWait
    <3>1. /\ rxpc = "wait" /\ <<rxBuf>> \o bufferQ = Due /\ rxBuf \in Buffers
          /\ UNCHANGED bufferQ
      BY <1>a, <2>a, <2>2 DEF RxWait
    <3>2. Head(Due) = rxBuf /\ Tail(Due) = bufferQ BY <1>a, <3>1, Concatenations
    <3>3. posted # <<>> =>
            /\ Head(Due) = Head(posted)
            /\ Tail(Due) = IF apc = "post" THEN Append(Tail(posted), apiBuf)
                           ELSE Tail(posted)
      BY <1>a, <3>1, AppendBehind
    <3>4. CASE WaitComplete(rxBuf) /\ RxGoto("route")
      <4>1. posted # <<>> /\ posted' = Tail(posted)
        BY <1>a, <3>4, EmptySeq DEF WaitComplete, TypeInv, TypeOK, BoardTypeOK
      <4>2. QED BY <2>b, <2>c, <3>1, <3>2, <3>3, <3>4, <4>1 DEF RxGoto
    <3>5. CASE WaitTimeout(rxBuf) /\ RxGoto("check")
      BY <2>b, <2>c, <3>1, <3>5 DEF WaitTimeout, RxGoto
    <3>6. ~WaitInvalid(rxBuf) BY <3>2, <3>3 DEF WaitInvalid
    <3>7. QED BY <1>b, <2>2, <3>4, <3>5, <3>6 DEF RxWait
  <2>3. CASE RxRepost
    <3>1. rxpc = "repost" /\ apc # "post" /\ bufferQ = posted /\ rxpc' \in {"post", "count"}
      BY <2>a, <2>3 DEF RxRepost, OneConsumer, RxGoto
    <3>2. QED
      BY <2>b, <2>c, <2>3, <3>1 DEF RxRepost, RxGoto, Enqueue, Push
  <2>4. CASE RxPost
    <3>1. apc # "post" /\ bufferQ = Append(posted, rxBuf)
      BY <2>a, <2>4 DEF RxPost, OneConsumer
    <3>2. QED BY <1>b, <2>b, <2>c, <2>4, <3>1 DEF RxPost, RxGoto, PostAsyncBuffer
  <2>5. CASE RxAbort BY <2>b, <2>c, <2>5 DEF RxAbort, RxReturn
  <2>6. CASE RxCheckStop BY <2>a, <2>b, <2>c, <2>6 DEF RxCheckStop, RxGoto, RxReturn
  <2>7. CASE \/ RxReady \/ RxLoop \/ RxPopEmpty \/ RxRoute \/ RxQueue \/ RxProcess
             \/ RxCount
    BY <2>a, <2>b, <2>c, <2>7 DEF RxReady, RxLoop, RxPopEmpty, RxRoute, RxQueue, RxProcess,
       RxCount, RxGoto, RxReturn
  <2>8. ASSUME NEW ch, NEW pc \in {"send1", "send2"}, NEW next \in {"send2", "repost"},
               RxSend(ch, pc, next)
        PROVE  AgreeInv'
    BY <1>b, <2>a, <2>b, <2>c, <2>8 DEF RxSend, RxGoto
  <2>9. QED BY <1>3, <2>1, <2>2, <2>3, <2>4, <2>5, <2>6, <2>7, <2>8 DEF Rx
<1>4. CASE BoardStep BY <1>4 DEF BoardStep, DMA
<1>5. CASE UNCHANGED vars BY <1>5 DEF vars
<1>6. QED BY <1>1, <1>2, <1>3, <1>4, <1>5 DEF Next

(* rx waits for the buffers in the order in which the board completes      *)
(* them, for every pool and geometry, whether the socket listener or the   *)
(* polling client returns them, and also when the client reconfigures in   *)
(* between: AlazarWaitAsyncBufferComplete is never asked for another       *)
(* buffer than the board's next (libAlazar.cpp:362-398, 534-545).          *)
THEOREM QueuesAgree ==
  ASSUME Reliable, SocketsStay PROVE Spec => []QueueAgreement
<1> DEFINE Inv == TypeInv /\ LifeInv /\ OneConsumer /\ AgreeInv
<1>1. Init => Inv BY InitType, InitLife, InitConsumer, InitAgree
<1>2. Inv /\ [Next]_vars => Inv'
  BY TypeInvStep, LifeStep, ConsumerStep, AgreeStep DEF Reliable
<1>3. Inv => QueueAgreement BY AgreeMeans
<1>4. QED BY <1>1, <1>2, <1>3, PTL DEF Spec
-----------------------------------------------------------------------------
(* What the board has captured and rx has taken.                           *)

Returned == rxpc \in {"exited", "failed"}
Holding == {"route", "queue", "process", "send1", "send2", "repost", "post", "count"}
Completed == IF rxpc \in Holding THEN bufferCounter + 1 ELSE bufferCounter

(* The board is quiet without an acquisition; with one it captures no more *)
(* than it was told to, and what it captured is on it or was taken by rx,  *)
(* which leaves its loop when all of it was.                               *)
CountInv ==
  /\ ~threadRunning /\ apc # "abort" => ~armed
  /\ apc = "posting" => captured = 0 /\ nFilled = 0
  /\ apc = "posting" \/ threadRunning => quota = geometry.nbrBuffers
  /\ captured <= quota
  /\ threadRunning /\ ~Returned => captured = nFilled + Completed
  /\ rxpc \in {"pop", "empty", "check", "wait"} \cup Holding =>
       bufferCounter < geometry.nbrBuffers
  /\ rxpc = "abort" => bufferCounter >= geometry.nbrBuffers

LEMMA InitCount == Init => CountInv
BY DEF Init, BoardInit, CountInv, Unconfigured, Holding

LEMMA CountStep ==
  ASSUME Reliable, GeometryStays, TypeInv, LifeInv, CountInv, [Next]_vars
  PROVE  CountInv'
<1> USE DEF CountInv, Returned, Holding, Completed, boardVars, flagVars, queueVars,
            setupVars, rxVars, apiVars, outVars
<1>a. /\ nFilled \in Nat /\ captured \in Nat /\ quota \in Nat /\ bufferCounter \in Nat
      /\ posted = <<>> => nFilled = 0
      /\ geometry.nbrBuffers \in Nat
  BY LenProperties DEF TypeInv, TypeOK, BoardTypeOK, Geometry
<1>b. /\ "post" \notin Faults /\ "wait" \notin Faults /\ "send" \notin Faults
      /\ "abort" \notin Faults
  BY DEF Reliable
<1>1. CASE ApiCall
  <2>1. ASSUME NEW c \in Configs, SetAll(c) PROVE CountInv'
    BY <2>1 DEF SetAll, GeometryStays, LifeInv
  <2>2. ASSUME NEW ch \in Channels, RegisterSocket(ch) PROVE CountInv'
    BY <2>2 DEF RegisterSocket
  <2>3. CASE UnregisterSockets BY <2>3 DEF UnregisterSockets
  <2>4. CASE Acquire BY <1>a, <2>4 DEF Acquire, BeforeAsyncRead, LifeInv
  <2>5. CASE WaitForAcquisition BY <2>5 DEF WaitForAcquisition, LifeInv
  <2>6. CASE Stop BY <2>6 DEF Stop
  <2>7. QED BY <1>1, <2>1, <2>2, <2>3, <2>4, <2>5, <2>6 DEF ApiCall
<1>2. CASE ApiStep
  <2>1. ASSUME NEW b \in Buffers, PostInitial(b) PROVE CountInv'
    BY <1>b, <2>1 DEF PostInitial, PostAsyncBuffer
  <2>2. CASE StartAcquire BY <1>a, <2>2 DEF StartAcquire, StartCapture, LifeInv
  <2>3. CASE AcquireReturn BY <2>3 DEF AcquireReturn, LifeInv
  <2>4. CASE ProcessForApp BY <2>4 DEF ProcessForApp
  <2>5. CASE PushForApp BY <2>5 DEF PushForApp, Enqueue
  <2>6. CASE PostForApp BY <1>b, <2>6 DEF PostForApp, PostAsyncBuffer, LifeInv
  <2>7. CASE JoinRx BY <2>7 DEF JoinRx
  <2>8. CASE AbortOnStop BY <1>b, <2>8 DEF AbortOnStop, AbortAsyncRead, LifeInv
  <2>9. CASE ClearQueues BY <2>9 DEF ClearQueues, LifeInv
  <2>10. QED BY <1>2, <2>1, <2>2, <2>3, <2>4, <2>5, <2>6, <2>7, <2>8, <2>9
             DEF ApiStep
<1>3. CASE Rx
  <2>b. UNCHANGED <<apc, apiBuf, threadRunning, geometry>>
    BY <1>3 DEF Rx, RxReady, RxLoop, RxPop, RxPopEmpty, RxCheckStop, RxWait, RxRoute,
       RxQueue, RxProcess, RxSend, RxRepost, RxPost, RxCount, RxAbort
  <2>c. threadRunning /\ apc # "posting"
    BY <1>3 DEF Rx, RxReady, RxLoop, RxPop, RxPopEmpty, RxCheckStop,
       RxWait, RxRoute, RxQueue, RxProcess, RxSend, RxRepost, RxPost, RxCount, RxAbort, LifeInv
  <2>1. CASE RxWait
    BY <1>a, <1>b, <2>b, <2>c, <2>1
    DEF RxWait, WaitComplete, WaitTimeout, WaitInvalid, RxGoto, RxReturn
  <2>2. CASE RxCount BY <1>a, <2>b, <2>c, <2>2 DEF RxCount, RxReturn
  <2>3. CASE RxLoop BY <1>a, <2>b, <2>c, <2>3 DEF RxLoop, RxGoto
  <2>4. CASE RxAbort BY <1>a, <1>b, <2>b, <2>c, <2>4 DEF RxAbort, RxReturn, AbortAsyncRead
  <2>5. CASE RxPost BY <1>b, <2>b, <2>c, <2>5 DEF RxPost, RxGoto, PostAsyncBuffer
  <2>6. CASE RxRepost BY <2>b, <2>c, <2>6 DEF RxRepost, Enqueue, RxGoto
  <2>7. CASE \/ RxReady \/ RxPop \/ RxPopEmpty \/ RxCheckStop \/ RxRoute \/ RxQueue
             \/ RxProcess
    BY <2>b, <2>c, <2>7 DEF RxReady, RxPop, RxPopEmpty, RxCheckStop, RxRoute, RxQueue,
       RxProcess, RxGoto, RxReturn
  <2>8. ASSUME NEW ch, NEW pc \in {"send1", "send2"}, NEW next \in {"send2", "repost"},
               RxSend(ch, pc, next)
        PROVE  CountInv'
    BY <1>b, <2>b, <2>c, <2>8 DEF RxSend, RxGoto
  <2>9. QED BY <1>3, <2>1, <2>2, <2>3, <2>4, <2>5, <2>6, <2>7, <2>8 DEF Rx
<1>4. CASE BoardStep BY <1>a, <1>4 DEF BoardStep, DMA, LifeInv
<1>5. CASE UNCHANGED vars BY <1>5 DEF vars
<1>6. QED BY <1>1, <1>2, <1>3, <1>4, <1>5 DEF Next
-----------------------------------------------------------------------------
(* No buffer drops out of the rotation.                                    *)

RotationInv ==
  /\ NoBufferLost
  /\ apc = "posting" => ownerQ = Range(posted)

LEMMA InitRotation == Init => RotationInv
BY RangeOfEmpty DEF Init, BoardInit, RotationInv, NoBufferLost

LEMMA RotationStep ==
  ASSUME Reliable, GeometryStays, TypeInv, LifeInv, CountInv, RotationInv, [Next]_vars
  PROVE  RotationInv'
<1> USE DEF RotationInv, NoBufferLost, RxReturned, RxHolds, ApiHolds, boardVars, flagVars,
            queueVars, setupVars, rxVars, apiVars, outVars
<1>a. /\ BoardTypeOK /\ posted \in Seq(Buffers) /\ dataQ \in Seq(Buffers)
      /\ rxpc \in {"wait", "queue", "post"} => rxBuf \in Buffers
      /\ apc = "post" => apiBuf \in Buffers
  BY DEF TypeInv, TypeOK, BoardTypeOK, HeldBuffers
<1>b. /\ "post" \notin Faults /\ "wait" \notin Faults /\ "send" \notin Faults
      /\ "abort" \notin Faults
  BY DEF Reliable
<1>1. CASE ApiCall
  <2>1. ASSUME NEW c \in Configs, SetAll(c) PROVE RotationInv'
    BY <2>1 DEF SetAll
  <2>2. ASSUME NEW ch \in Channels, RegisterSocket(ch) PROVE RotationInv'
    BY <2>2 DEF RegisterSocket
  <2>3. CASE UnregisterSockets BY <2>3 DEF UnregisterSockets
  <2>4. CASE Acquire
    BY <2>4, RangeOfEmpty DEF Acquire, BeforeAsyncRead, LifeInv
  <2>5. CASE WaitForAcquisition
    <3>1. Range(dataQ) = Range(dataQ') \cup {apiBuf'}
      BY <1>a, <2>5, RangeOfPop DEF WaitForAcquisition
    <3>2. QED BY <2>5, <3>1 DEF WaitForAcquisition
  <2>6. CASE Stop BY <2>6 DEF Stop
  <2>7. QED BY <1>1, <2>1, <2>2, <2>3, <2>4, <2>5, <2>6 DEF ApiCall
<1>2. CASE ApiStep
  <2>1. ASSUME NEW b \in Buffers, PostInitial(b) PROVE RotationInv'
    <3>1. Range(posted') = Range(posted) \cup {b}
      BY <1>a, <1>b, <2>1, PostedAfterPost DEF PostInitial
    <3>2. QED BY <2>1, <3>1 DEF PostInitial, Enqueue, LifeInv
  <2>2. CASE StartAcquire
    BY <2>2, RangeOfEmpty DEF StartAcquire, StartCapture, LifeInv
  <2>3. CASE AcquireReturn BY <2>3 DEF AcquireReturn
  <2>4. CASE ProcessForApp BY <2>4 DEF ProcessForApp
  <2>5. CASE PushForApp BY <2>5 DEF PushForApp, Enqueue
  <2>6. CASE PostForApp
    <3>1. Range(posted') = Range(posted) \cup {apiBuf}
      BY <1>a, <1>b, <2>6, PostedAfterPost DEF PostForApp
    <3>2. QED BY <2>6, <3>1 DEF PostForApp
  <2>7. CASE JoinRx BY <2>7 DEF JoinRx
  <2>8. CASE AbortOnStop BY <2>8 DEF AbortOnStop, LifeInv
  <2>9. CASE ClearQueues BY <2>9 DEF ClearQueues, LifeInv
  <2>10. QED BY <1>2, <2>1, <2>2, <2>3, <2>4, <2>5, <2>6, <2>7, <2>8, <2>9
             DEF ApiStep
<1>3. CASE Rx
  <2>b. UNCHANGED <<apc, apiBuf, threadRunning, geometry>>
    BY <1>3 DEF Rx, RxReady, RxLoop, RxPop, RxPopEmpty, RxCheckStop, RxWait, RxRoute,
       RxQueue, RxProcess, RxSend, RxRepost, RxPost, RxCount, RxAbort
  <2>c. threadRunning /\ apc # "posting"
    BY <1>3 DEF Rx, RxReady, RxLoop, RxPop, RxPopEmpty, RxCheckStop,
       RxWait, RxRoute, RxQueue, RxProcess, RxSend, RxRepost, RxPost, RxCount, RxAbort, LifeInv
  <2>1. CASE RxWait
    <3>1. CASE WaitComplete(rxBuf) /\ RxGoto("route")
      <4>1. posted # <<>> BY <1>a, <3>1, EmptySeq DEF WaitComplete, BoardTypeOK
      <4>2. Range(posted) = Range(posted') \cup {rxBuf}
        BY <1>a, <3>1, <4>1, RangeOfPop DEF WaitComplete
      <4>3. QED BY <2>b, <2>c, <2>1, <3>1, <4>2 DEF RxWait, RxGoto
    <3>2. CASE WaitTimeout(rxBuf) /\ RxGoto("check")
      BY <2>b, <2>c, <2>1, <3>2 DEF RxWait, RxGoto, WaitTimeout
    <3>3. CASE WaitInvalid(rxBuf) /\ RxReturn("failed")
      BY <2>b, <2>c, <3>3 DEF RxReturn
    <3>4. QED BY <1>b, <2>1, <3>1, <3>2, <3>3 DEF RxWait
  <2>2. CASE RxQueue
    <3>1. dataQ' = Push(dataQ, rxBuf) /\ rxBuf \in Buffers
      BY <1>a, <2>2 DEF RxQueue
    <3>2. Range(dataQ') = Range(dataQ) \cup {rxBuf} BY ONLY <1>a, <3>1, RangeOfPush
    <3>3. QED BY <2>b, <2>c, <2>2, <3>2 DEF RxQueue, RxGoto
  <2>3. CASE RxRepost
    <3>1. bufferCounter < geometry.nbrBuffers
      BY <2>3 DEF RxRepost, CountInv, Holding
    <3>2. QED BY <2>b, <2>c, <2>3, <3>1 DEF RxRepost, Enqueue, RxGoto
  <2>4. CASE RxPost
    <3>1. Range(posted') = Range(posted) \cup {rxBuf}
      BY <1>a, <1>b, <2>4, PostedAfterPost DEF RxPost
    <3>2. QED BY <1>b, <2>b, <2>c, <2>4, <3>1 DEF RxPost, RxGoto
  <2>5. CASE RxAbort BY <2>b, <2>c, <2>5 DEF RxAbort, RxReturn
  <2>6. CASE \/ RxReady \/ RxLoop \/ RxPop \/ RxPopEmpty \/ RxCheckStop \/ RxRoute
             \/ RxProcess \/ RxCount
    BY <2>b, <2>c, <2>6 DEF RxReady, RxLoop, RxPop, RxPopEmpty, RxCheckStop, RxRoute,
       RxProcess, RxCount, RxGoto, RxReturn
  <2>7. ASSUME NEW ch, NEW pc \in {"send1", "send2"}, NEW next \in {"send2", "repost"},
               RxSend(ch, pc, next)
        PROVE  RotationInv'
    BY <1>b, <2>b, <2>c, <2>7 DEF RxSend, RxGoto
  <2>8. QED BY <1>3, <2>1, <2>2, <2>3, <2>4, <2>5, <2>6, <2>7 DEF Rx
<1>4. CASE BoardStep BY <1>4 DEF BoardStep, DMA
<1>5. CASE UNCHANGED vars BY <1>5 DEF vars
<1>6. QED BY <1>1, <1>2, <1>3, <1>4, <1>5 DEF Next

(* While rx works no buffer of the pool is lost, for every pool and        *)
(* geometry: what the code allocated is posted, waiting for the            *)
(* application or in a thread's hands (libAlazar.cpp:449-458,              *)
(* libAlazarAPI.cpp:158-172).                                              *)
THEOREM BuffersGoRound ==
  ASSUME Reliable, GeometryStays PROVE Spec => []NoBufferLost
<1> DEFINE Inv == TypeInv /\ LifeInv /\ CountInv /\ RotationInv
<1>1. Init => Inv BY InitType, InitLife, InitCount, InitRotation
<1>2. Inv /\ [Next]_vars => Inv'
  BY TypeInvStep, LifeStep, CountStep, RotationStep DEF Reliable
<1>3. Inv => NoBufferLost BY DEF RotationInv
<1>4. QED BY <1>1, <1>2, <1>3, PTL DEF Spec
-----------------------------------------------------------------------------
(* Captures are consumed in order.                                         *)

(* CapturesInOrder place by place: what is full on the board, in rx's      *)
(* hands, in dataQ and in the application's hands.                         *)
RxPending == IF rxpc \in {"route", "queue", "process"} THEN 1 ELSE 0
Oldest == captured - nFilled - RxPending - Len(dataQ)
OrderInv ==
  threadRunning =>
    /\ \A i \in 1..nFilled : content[posted[i]] = captured - nFilled + i - 1
    /\ RxPending = 1 => content[rxBuf] = captured - nFilled - 1
    /\ \A i \in 1..Len(dataQ) : content[dataQ[i]] = Oldest + i - 1
    /\ apc = "process" => content[apiBuf] = Oldest - 1

LEMMA InitOrder == Init => OrderInv
BY DEF Init, OrderInv

(* The queues after a push and a pop, place by place. *)
LEMMA PushPlaces ==
  ASSUME NEW S, NEW q \in Seq(S), NEW b \in S
  PROVE  /\ Len(Append(q, b)) = Len(q) + 1 /\ Len(q) \in Nat
         /\ \A i \in 1..Len(q) : Append(q, b)[i] = q[i]
         /\ Append(q, b)[Len(q) + 1] = b
BY AppendProperties, LenProperties

LEMMA PopPlaces ==
  ASSUME NEW S, NEW q \in Seq(S), q # <<>>
  PROVE  /\ Len(Tail(q)) = Len(q) - 1 /\ Len(q) \in Nat /\ Len(q) > 0
         /\ Head(q) = q[1] /\ \A i \in 1..(Len(q) - 1) : Tail(q)[i] = q[i + 1]
BY HeadTailProperties, LenProperties, EmptySeq

(* The board writes into a buffer that holds nothing that is still read. *)
LEMMA FillsFree ==
  ASSUME TypeInv, ExclusiveBuffers, nFilled < Len(posted)
  PROVE  /\ posted[nFilled + 1] \in Buffers
         /\ \A i \in 1..nFilled : posted[i] \in Buffers /\ posted[i] # posted[nFilled + 1]
         /\ \A i \in 1..Len(dataQ) : dataQ[i] \in Buffers /\ dataQ[i] # posted[nFilled + 1]
         /\ RxPending = 1 => rxBuf \in Buffers /\ rxBuf # posted[nFilled + 1]
         /\ apc = "process" => apiBuf \in Buffers /\ apiBuf # posted[nFilled + 1]
<1>1. /\ posted \in [1..Len(posted) -> Buffers] /\ Len(posted) \in Nat
      /\ dataQ \in [1..Len(dataQ) -> Buffers] /\ nFilled \in Nat
  BY LenProperties DEF TypeInv, TypeOK, BoardTypeOK
<1>2. posted[nFilled + 1] \in Range(posted) BY <1>1 DEF Range
<1>3. \A i \in 1..Len(dataQ) : dataQ[i] \in Range(dataQ) BY <1>1 DEF Range
<1>4. \A i \in 1..nFilled : posted[i] # posted[nFilled + 1]
  BY <1>1 DEF ExclusiveBuffers, IsInjective
<1>5. RxPending = 1 => rxBuf \in Buffers /\ rxBuf \in RxHolds
  BY DEF RxPending, RxHolds, TypeInv, HeldBuffers
<1>6. apc = "process" => apiBuf \in Buffers /\ apiBuf \in ApiHolds
  BY DEF ApiHolds, TypeInv, HeldBuffers
<1>7. \A i \in 1..nFilled : posted[i] \in Buffers BY <1>1
<1>8. QED BY <1>1, <1>2, <1>3, <1>4, <1>5, <1>6, <1>7 DEF ExclusiveBuffers

LEMMA OrderStep ==
  ASSUME Reliable, SocketsStay, GeometryStays, TypeInv, LifeInv, ExclusiveBuffers,
         OneConsumer, AgreeInv, AgreeInv', CountInv, OrderInv, [Next]_vars
  PROVE  OrderInv'
<1> USE DEF OrderInv, RxPending, Oldest, boardVars, flagVars, queueVars, setupVars, rxVars,
            apiVars, outVars
<1>a. /\ posted \in Seq(Buffers) /\ dataQ \in Seq(Buffers) /\ nFilled \in Nat
      /\ nFilled <= Len(posted) /\ Len(posted) \in Nat /\ Len(dataQ) \in Nat
      /\ captured \in Nat /\ content \in [Buffers -> Nat \cup {NoData}]
      /\ rxpc \in {"queue", "post"} => rxBuf \in Buffers
      /\ apc = "post" => apiBuf \in Buffers
  BY LenProperties DEF TypeInv, TypeOK, BoardTypeOK, HeldBuffers
<1>b. /\ "post" \notin Faults /\ "wait" \notin Faults /\ "send" \notin Faults
      /\ "abort" \notin Faults
  BY DEF Reliable
<1>c. ASSUME NEW b \in Buffers, posted' = Append(posted, b)
      PROVE  \A i \in 1..nFilled : posted'[i] = posted[i]
  BY <1>a, <1>c, PushPlaces
<1>1. CASE ApiCall
  <2>1. ASSUME NEW c \in Configs, SetAll(c) PROVE OrderInv'
    BY <2>1 DEF SetAll
  <2>2. ASSUME NEW ch \in Channels, RegisterSocket(ch) PROVE OrderInv'
    BY <2>2 DEF RegisterSocket
  <2>3. CASE UnregisterSockets BY <2>3 DEF UnregisterSockets
  <2>4. CASE Acquire BY <2>4 DEF Acquire, BeforeAsyncRead
  <2>5. CASE WaitForAcquisition
    <3>1. /\ dataQ # <<>> /\ apiBuf' = Head(dataQ) /\ dataQ' = Tail(dataQ)
          /\ UNCHANGED <<posted, nFilled, captured, content, rxpc, rxBuf, threadRunning>>
      BY <2>5 DEF WaitForAcquisition
    <3>2. /\ Len(dataQ') = Len(dataQ) - 1 /\ Len(dataQ) > 0 /\ apiBuf' = dataQ[1]
          /\ \A i \in 1..Len(dataQ') : dataQ'[i] = dataQ[i + 1]
      BY <1>a, <3>1, PopPlaces
    <3>3. QED BY <1>a, <3>1, <3>2
  <2>6. CASE Stop BY <2>6 DEF Stop
  <2>7. QED BY <1>1, <2>1, <2>2, <2>3, <2>4, <2>5, <2>6 DEF ApiCall
<1>2. CASE ApiStep
  <2>1. ASSUME NEW b \in Buffers, PostInitial(b) PROVE OrderInv'
    BY <2>1 DEF PostInitial, LifeInv
  <2>2. CASE StartAcquire
    <3>1. nFilled' = 0 /\ dataQ' = <<>> /\ rxpc' = "start" /\ apc' = "ready"
      BY <2>2 DEF StartAcquire, StartCapture, CountInv, LifeInv
    <3>2. QED BY <3>1
  <2>3. CASE AcquireReturn BY <2>3 DEF AcquireReturn
  <2>4. CASE ProcessForApp BY <2>4 DEF ProcessForApp
  <2>5. CASE PushForApp BY <2>5 DEF PushForApp, Enqueue
  <2>6. CASE PostForApp
    <3>1. posted' = Append(posted, apiBuf) /\ apiBuf \in Buffers
      BY <1>a, <1>b, <2>6 DEF PostForApp, PostAsyncBuffer
    <3>2. \A i \in 1..nFilled : posted'[i] = posted[i] BY <1>c, <3>1
    <3>3. QED BY <1>b, <2>6, <3>2 DEF PostForApp, PostAsyncBuffer
  <2>7. CASE JoinRx BY <2>7 DEF JoinRx
  <2>8. CASE AbortOnStop BY <2>8 DEF AbortOnStop, LifeInv
  <2>9. CASE ClearQueues BY <2>9 DEF ClearQueues, LifeInv
  <2>10. QED BY <1>2, <2>1, <2>2, <2>3, <2>4, <2>5, <2>6, <2>7, <2>8, <2>9
             DEF ApiStep
<1>3. CASE Rx
  <2>b. UNCHANGED <<apc, apiBuf, threadRunning>>
    BY <1>3 DEF Rx, RxReady, RxLoop, RxPop, RxPopEmpty, RxCheckStop, RxWait, RxRoute,
       RxQueue, RxProcess, RxSend, RxRepost, RxPost, RxCount, RxAbort
  <2>c. threadRunning
    BY <1>3 DEF Rx, RxReady, RxLoop, RxPop, RxPopEmpty, RxCheckStop,
       RxWait, RxRoute, RxQueue, RxProcess, RxSend, RxRepost, RxPost, RxCount, RxAbort, LifeInv
  <2>1. CASE RxWait
    <3>a. rxpc = "wait" /\ UNCHANGED dataQ BY <2>1 DEF RxWait
    <3>1. CASE WaitComplete(rxBuf) /\ RxGoto("route")
      <4>1. posted # <<>> BY <1>a, <3>1, EmptySeq DEF WaitComplete
      <4>2. /\ rxBuf = posted[1] /\ nFilled > 0 /\ nFilled' = nFilled - 1
            /\ posted' = Tail(posted) /\ UNCHANGED <<captured, content, rxBuf>>
            /\ rxpc' = "route"
        BY <1>a, <3>1, <4>1, PopPlaces DEF WaitComplete, RxGoto
      <4>3. \A i \in 1..nFilled' : posted'[i] = posted[i + 1]
        BY <1>a, <4>1, <4>2, PopPlaces
      <4>4. /\ \A i \in 1..nFilled' : i + 1 \in 1..nFilled
            /\ captured' - nFilled' = captured - nFilled + 1
            /\ RxPending = 0 /\ RxPending' = 1 /\ Oldest' = Oldest
        BY <1>a, <3>a, <4>2
      <4>5. \A i \in 1..nFilled' :
              content'[posted'[i]] = captured' - nFilled' + i - 1
        BY <1>a, <2>c, <4>2, <4>3, <4>4
      <4>6. content'[rxBuf'] = captured' - nFilled' - 1
        <5>1. 1 \in 1..nFilled BY <1>a, <4>2
        <5>2. content[posted[1]] = captured - nFilled + 1 - 1 BY <2>c, <5>1
        <5>3. captured - nFilled + 1 - 1 = captured' - nFilled' - 1 BY <1>a, <4>2
        <5>4. QED BY <4>2, <5>2, <5>3
      <4>7. /\ \A i \in 1..Len(dataQ') : content'[dataQ'[i]] = Oldest' + i - 1
            /\ apc' = "process" => content'[apiBuf'] = Oldest' - 1
        <5> HIDE DEF Oldest
        <5>1. QED BY <2>b, <2>c, <3>a, <4>2, <4>4
      <4>8. QED BY <4>5, <4>6, <4>7
    <3>2. CASE WaitTimeout(rxBuf) /\ RxGoto("check")
      BY <2>b, <3>a, <3>2 DEF WaitTimeout, RxGoto
    <3>3. CASE WaitInvalid(rxBuf) /\ RxReturn("failed")
      BY <2>b, <2>c, <3>3 DEF RxReturn, AgreeInv
    <3>4. QED BY <1>b, <2>1, <3>1, <3>2, <3>3 DEF RxWait
  <2>2. CASE RxQueue
    <3>1. /\ rxpc = "queue" /\ rxpc' = "count" /\ rxBuf \in Buffers
          /\ dataQ' = Append(dataQ, rxBuf)
          /\ UNCHANGED <<posted, nFilled, captured, content, rxBuf>>
      BY <1>a, <2>2 DEF RxQueue, RxGoto, Push
    <3>2. /\ Len(dataQ') = Len(dataQ) + 1
          /\ \A i \in 1..Len(dataQ) : dataQ'[i] = dataQ[i]
          /\ dataQ'[Len(dataQ) + 1] = rxBuf
      BY <1>a, <3>1, PushPlaces
    <3>3. Oldest' = Oldest /\ RxPending = 1 /\ RxPending' = 0
      <4>1. RxPending = 1 /\ RxPending' = 0 BY <3>1
      <4> HIDE DEF RxPending
      <4>2. Oldest' = Oldest BY <1>a, <3>1, <3>2, <4>1
      <4>3. QED BY <4>1, <4>2
    <3>4. content[rxBuf] = Oldest + Len(dataQ) BY <1>a, <2>c, <3>3
    <3>5. ASSUME NEW i \in 1..Len(dataQ') PROVE content'[dataQ'[i]] = Oldest' + i - 1
      <4> HIDE DEF Oldest
      <4>1. CASE i \in 1..Len(dataQ) BY <2>c, <3>1, <3>2, <3>3, <4>1
      <4>2. CASE i = Len(dataQ) + 1
        <5>1. Oldest \in Int BY <1>a DEF Oldest
        <5>2. QED BY <1>a, <3>1, <3>2, <3>3, <3>4, <4>2, <5>1
      <4>3. QED BY <1>a, <3>2, <4>1, <4>2
    <3>6. apc' = "process" => content'[apiBuf'] = Oldest' - 1
      <4> HIDE DEF Oldest
      <4>1. QED BY <2>b, <2>c, <3>1, <3>3
    <3>7. QED BY <2>b, <2>c, <3>1, <3>3, <3>5, <3>6
  <2>3. CASE RxProcess
    <3>1. sockets # {} /\ dataQ = <<>> /\ apc # "process"
      BY <2>3 DEF RxProcess, OneConsumer
    <3>2. QED BY <2>b, <2>3, <3>1 DEF RxProcess, RxGoto
  <2>4. CASE RxPost
    <3>1. posted' = Append(posted, rxBuf) /\ rxBuf \in Buffers
      BY <1>a, <1>b, <2>4 DEF RxPost, PostAsyncBuffer
    <3>2. \A i \in 1..nFilled : posted'[i] = posted[i] BY <1>c, <3>1
    <3>3. QED BY <1>b, <2>b, <2>4, <3>2 DEF RxPost, RxGoto, PostAsyncBuffer
  <2>5. CASE RxAbort
    <3>1. nFilled = 0 /\ nFilled' = 0
      BY <1>a, <1>b, <2>c, <2>5
      DEF RxAbort, AbortAsyncRead, CountInv, Returned, Completed, Holding, TypeInv, TypeOK,
          Geometry
    <3>2. QED BY <1>b, <2>b, <2>5, <3>1 DEF RxAbort, AbortAsyncRead, RxReturn
  <2>6. CASE RxRoute
    BY <2>b, <2>6 DEF RxRoute, RxGoto
  <2>7. CASE RxRepost BY <2>b, <2>7 DEF RxRepost, RxGoto, Enqueue
  <2>8. CASE RxReady \/ RxLoop \/ RxPop \/ RxPopEmpty \/ RxCheckStop \/ RxCount
    BY <2>b, <2>8 DEF RxReady, RxLoop, RxPop, RxPopEmpty, RxCheckStop, RxCount, RxGoto,
       RxReturn
  <2>9. ASSUME NEW ch, NEW pc \in {"send1", "send2"}, NEW next \in {"send2", "repost"},
               RxSend(ch, pc, next)
        PROVE  OrderInv'
    BY <1>b, <2>b, <2>9 DEF RxSend, RxGoto
  <2>10. QED BY <1>3, <2>1, <2>2, <2>3, <2>4, <2>5, <2>6, <2>7, <2>8, <2>9 DEF Rx
<1>4. CASE BoardStep
  <2>1. /\ nFilled < Len(posted) /\ nFilled' = nFilled + 1 /\ captured' = captured + 1
        /\ content' = [content EXCEPT ![posted[nFilled + 1]] = captured]
        /\ UNCHANGED <<posted, dataQ, rxpc, rxBuf, apc, apiBuf, threadRunning>>
    BY <1>4 DEF BoardStep, DMA
  <2>2. /\ content'[posted[nFilled + 1]] = captured
        /\ \A b \in Buffers : b # posted[nFilled + 1] => content'[b] = content[b]
    BY <1>a, <2>1, FillsFree
  <2>3. \A i \in 1..nFilled : content'[posted[i]] = content[posted[i]]
    BY <2>1, <2>2, FillsFree
  <2>4. \A i \in 1..Len(dataQ) : content'[dataQ[i]] = content[dataQ[i]]
    BY <2>1, <2>2, FillsFree
  <2>5. RxPending = 1 => content'[rxBuf] = content[rxBuf] BY <2>1, <2>2, FillsFree
  <2>6. apc = "process" => content'[apiBuf] = content[apiBuf] BY <2>1, <2>2, FillsFree
  <2>7. QED BY <1>a, <2>1, <2>2, <2>3, <2>4, <2>5, <2>6
<1>5. CASE UNCHANGED vars BY <1>5 DEF vars
<1>6. QED BY <1>1, <1>2, <1>3, <1>4, <1>5 DEF Next

(* The places put together: a queue whose captures count up from k. *)
InOrder(q, k) == \A i \in 1..Len(q) : content[q[i]] = k + i - 1

LEMMA InOrderConcat ==
  ASSUME NEW s \in Seq(Buffers), NEW t \in Seq(Buffers), NEW k \in Int,
         InOrder(s, k), InOrder(t, k + Len(s))
  PROVE  s \o t \in Seq(Buffers) /\ Len(s \o t) = Len(s) + Len(t) /\ InOrder(s \o t, k)
<1>1. /\ s \o t \in Seq(Buffers) /\ Len(s \o t) = Len(s) + Len(t)
      /\ \A i \in 1..(Len(s) + Len(t)) :
           (s \o t)[i] = IF i <= Len(s) THEN s[i] ELSE t[i - Len(s)]
  BY ConcatProperties
<1>2. Len(s) \in Nat /\ Len(t) \in Nat BY LenProperties
<1>3. ASSUME NEW i \in 1..(Len(s) + Len(t)) PROVE content[(s \o t)[i]] = k + i - 1
  <2>1. CASE i <= Len(s)
    <3>1. i \in 1..Len(s) BY <1>2, <2>1
    <3>2. QED BY <1>1, <2>1, <3>1 DEF InOrder
  <2>2. CASE ~(i <= Len(s))
    <3>1. i - Len(s) \in 1..Len(t) BY <1>2, <2>2
    <3>2. content[t[i - Len(s)]] = k + Len(s) + (i - Len(s)) - 1 BY <3>1 DEF InOrder
    <3>3. QED BY <1>1, <1>2, <2>2, <3>2
  <2>3. QED BY <2>1, <2>2
<1>4. QED BY <1>1, <1>3 DEF InOrder

LEMMA OrderMeans ==
  ASSUME TypeInv, OrderInv PROVE CapturesInOrder
<1> SUFFICES ASSUME threadRunning
    PROVE  \A i \in 1..Len(Pending) : content[Pending[i]] = captured - Len(Pending) + i - 1
  BY DEF CapturesInOrder
<1> DEFINE app == IF apc = "process" THEN <<apiBuf>> ELSE <<>>
           hand == IF rxpc \in {"route", "queue", "process"} THEN <<rxBuf>> ELSE <<>>
           full == SubSeq(posted, 1, nFilled)
           first == captured - Len(app) - Len(dataQ) - Len(hand) - Len(full)
<1>1. /\ posted \in Seq(Buffers) /\ dataQ \in Seq(Buffers) /\ Len(dataQ) \in Nat
      /\ nFilled \in 0..Len(posted) /\ Len(posted) \in Nat /\ captured \in Nat
      /\ apc = "process" => apiBuf \in Buffers
      /\ RxPending = 1 => rxBuf \in Buffers
  BY LenProperties DEF TypeInv, TypeOK, BoardTypeOK, HeldBuffers, RxPending
<1>2. /\ app \in Seq(Buffers) /\ Len(app) = IF apc = "process" THEN 1 ELSE 0
      /\ apc = "process" => app[1] = apiBuf
  BY <1>1
<1>3. /\ hand \in Seq(Buffers) /\ Len(hand) = RxPending /\ RxPending \in {0, 1}
      /\ RxPending = 1 => hand[1] = rxBuf
  BY <1>1 DEF RxPending
<1>4. /\ full \in Seq(Buffers) /\ Len(full) = nFilled
      /\ \A i \in 1..nFilled : full[i] = posted[i]
  BY <1>1, SubSeqProperties
<1> HIDE DEF app, hand, full
<1>a. /\ first + Len(app) = Oldest /\ first \in Int /\ Oldest \in Int
      /\ first + Len(app) + Len(dataQ) + Len(hand) = captured - nFilled
  BY <1>1, <1>2, <1>3, <1>4 DEF Oldest
<1>5. InOrder(app, first)
  <2>1. ASSUME NEW i \in 1..Len(app) PROVE content[app[i]] = first + i - 1
    <3>1. i = 1 /\ Len(app) = 1 /\ app[1] = apiBuf /\ apc = "process" BY <1>2
    <3>2. content[apiBuf] = Oldest - 1 BY <3>1 DEF OrderInv
    <3>3. first + i - 1 = Oldest - 1 BY <1>a, <3>1
    <3>4. QED BY <3>1, <3>2, <3>3
  <2>2. QED BY <2>1 DEF InOrder
<1>6. InOrder(dataQ, first + Len(app))
  BY <1>a DEF OrderInv, InOrder
<1>7. InOrder(hand, first + Len(app) + Len(dataQ))
  <2>1. first + Len(app) + Len(dataQ) = captured - nFilled - RxPending
    BY <1>1, <1>2, <1>3, <1>4
  <2>2. ASSUME NEW i \in 1..Len(hand)
        PROVE  content[hand[i]] = captured - nFilled - RxPending + i - 1
    <3>1. RxPending = 1 /\ i = 1 BY <1>3
    <3>2. content[rxBuf] = captured - nFilled - 1 BY <3>1 DEF OrderInv
    <3>3. QED BY <1>1, <1>3, <3>1, <3>2
  <2>3. QED BY <2>1, <2>2 DEF InOrder
<1>8. InOrder(full, first + Len(app) + Len(dataQ) + Len(hand))
  BY <1>a, <1>4 DEF OrderInv, InOrder
<1>9. first \in Int BY <1>1, <1>2, <1>3, <1>4
<1> HIDE DEF first
<1>10. /\ app \o dataQ \in Seq(Buffers) /\ Len(app \o dataQ) = Len(app) + Len(dataQ)
       /\ InOrder(app \o dataQ, first)
  BY <1>1, <1>2, <1>5, <1>6, <1>9, InOrderConcat
<1>11. /\ app \o dataQ \o hand \in Seq(Buffers)
       /\ Len(app \o dataQ \o hand) = Len(app) + Len(dataQ) + Len(hand)
       /\ InOrder(app \o dataQ \o hand, first)
  <2>1. InOrder(hand, first + Len(app \o dataQ)) BY <1>1, <1>2, <1>7, <1>9, <1>10
  <2>2. QED BY <1>3, <1>9, <1>10, <2>1, InOrderConcat
<1>12. /\ Len(app \o dataQ \o hand \o full) = Len(app) + Len(dataQ) + Len(hand) + Len(full)
       /\ InOrder(app \o dataQ \o hand \o full, first)
  <2>1. InOrder(full, first + Len(app \o dataQ \o hand))
    BY <1>1, <1>2, <1>3, <1>8, <1>9, <1>11
  <2>2. QED BY <1>4, <1>9, <1>11, <2>1, InOrderConcat
<1>13. Pending = app \o dataQ \o hand \o full BY DEF Pending, app, hand, full
<1>14. first = captured - Len(Pending)
  <2>1. Len(Pending) = Len(app) + Len(dataQ) + Len(hand) + Len(full) BY <1>12, <1>13
  <2>2. QED BY <1>1, <1>2, <1>3, <1>4, <2>1 DEF first
<1>15. QED BY <1>12, <1>13, <1>14 DEF InOrder

(* Whatever the two threads and the board do in between, captures reach    *)
(* their consumer in capture order with no gap, for every pool and         *)
(* geometry (libAlazar.cpp:362-458, libAlazarAPI.cpp:134-176).             *)
THEOREM InCaptureOrder ==
  ASSUME Reliable, SocketsStay, GeometryStays PROVE Spec => []CapturesInOrder
<1> DEFINE Inv == /\ TypeInv /\ LifeInv /\ OneConsumer /\ AgreeInv /\ CountInv
                  /\ OrderInv
<1>a. "abort" \notin Faults BY DEF Reliable
<1>1. Init => Inv
  BY InitType, InitLife, InitConsumer, InitAgree, InitCount, InitOrder
<1>2. ExclusiveBuffers /\ Inv /\ [Next]_vars => Inv'
  BY <1>a, TypeInvStep, LifeStep, ConsumerStep, AgreeStep, CountStep, OrderStep
<1>3. Spec => []ExclusiveBuffers BY <1>a, NoOverwrite
<1>4. Inv => CapturesInOrder BY OrderMeans
<1>5. QED BY <1>1, <1>2, <1>3, <1>4, PTL DEF Spec
-----------------------------------------------------------------------------
(* What goes out on the sockets.                                           *)

(* How many buffers' worth rx has offered to a channel's listener, and how *)
(* many places of the round robin being assembled are taken.               *)
Offered(ch) ==
  IF rxpc \in {"repost", "post", "count"} \/ (rxpc = "send2" /\ ch = "ch1")
  THEN bufferCounter + 1 ELSE bufferCounter
Place == PlaceAt(SlotsPerRound, bufferCounter)
Taken ==
  IF rxpc \in {"send1", "send2", "repost", "post", "count"} THEN Place + 1 ELSE Place

(* A listener has every round robin that was completed, the last one last, *)
(* and the work buffer holds the round robin's captures so far.            *)
SendInv ==
  threadRunning /\ ~Returned =>
    /\ rxpc \in {"send1", "send2"} => RoundFull
    /\ sockets # {} => \A i \in 0..(Taken - 1) : workSlots[i] = bufferCounter - Place + i
    /\ \A ch \in sockets : sentRound[ch] = RoundAt(SlotsPerRound, Offered(ch)) - 1

LEMMA InitSend == Init => SendInv
BY DEF Init, SendInv

(* The work buffer of a completed round robin is that round robin. *)
LEMMA WholeRoundSent ==
  ASSUME TypeInv, SendInv, threadRunning, sockets # {}, rxpc \in {"send1", "send2"}
  PROVE  RoundOf(workSlots) = RoundAt(SlotsPerRound, bufferCounter)
<1> DEFINE P == SlotsPerRound
           n == bufferCounter
<1>1. P \in Nat \ {0} /\ n \in Nat /\ Place = P - 1
  BY GeometryMeans DEF SendInv, Returned, Place, TypeInv, TypeOK
<1>2. \A i \in 0..(P - 1) : workSlots[i] = n - (P - 1) + i
  BY <1>1 DEF SendInv, Returned, Taken
<1>3. /\ n - (P - 1) \in Nat /\ (n - (P - 1)) % P = 0
      /\ (n - (P - 1)) \div P = RoundAt(P, n)
  BY <1>1, NextPlace DEF Place
<1> HIDE DEF P, n
<1>4. PICK m \in Nat : m = n - (P - 1) BY <1>3
<1>5. m % P = 0 /\ m \div P = RoundAt(P, n) BY <1>3, <1>4
<1>6. \A i \in 0..(P - 1) : workSlots[i] = m + i BY <1>1, <1>2, <1>4
<1>7. workSlots[0] = m BY <1>1, <1>6
<1>8. RoundOf(workSlots) = m \div P
  BY <1>5, <1>6, <1>7 DEF RoundOf, P, NoData
<1>9. QED BY <1>5, <1>8 DEF P, n

LEMMA RoundsSent ==
  ASSUME TypeInv, SendInv, threadRunning, sockets # {},
         NEW ch \in sockets, NEW pc \in {"send1", "send2"}, NEW next \in {"send2", "repost"},
         <<ch, pc, next>> \in {<<"ch1", "send1", "send2">>, <<"ch2", "send2", "repost">>},
         Reliable, RxSend(ch, pc, next)
  PROVE  /\ sentRound' = [sentRound EXCEPT ![ch] = sentRound[ch] + 1]
         /\ sentRound[ch] + 1 = RoundAt(SlotsPerRound, bufferCounter)
         /\ Place = SlotsPerRound - 1
<1>1. rxpc = pc /\ sentRound' = [sentRound EXCEPT ![ch] = RoundOf(workSlots)]
  BY DEF RxSend, Reliable
<1>2. RoundOf(workSlots) = RoundAt(SlotsPerRound, bufferCounter)
  BY <1>1, WholeRoundSent
<1>3. sentRound[ch] = RoundAt(SlotsPerRound, bufferCounter) - 1
  BY <1>1 DEF SendInv, Returned, Offered
<1>4. PICK q \in Nat : q = RoundAt(SlotsPerRound, bufferCounter)
  BY GeometryMeans, NextPlace DEF TypeInv, TypeOK
<1>5. sentRound[ch] = q - 1 BY <1>3, <1>4
<1>6. sentRound[ch] + 1 = q BY <1>5
<1>7. Place = SlotsPerRound - 1
  BY <1>1, GeometryMeans DEF SendInv, Returned, Place
<1>8. RoundOf(workSlots) = sentRound[ch] + 1 BY <1>2, <1>4, <1>6
<1>9. QED BY <1>1, <1>4, <1>6, <1>7, <1>8

LEMMA SendStep ==
  ASSUME Reliable, SocketsStay, GeometryStays, TypeInv, LifeInv, OneConsumer, AgreeInv,
         CountInv, OrderInv, SendInv, [Next]_vars
  PROVE  SendInv'
<1> DEFINE P == SlotsPerRound
           n == bufferCounter
<1> USE DEF boardVars, flagVars, queueVars, setupVars, rxVars, apiVars, outVars
<1>a. /\ P \in Nat \ {0} /\ n \in Nat /\ Place \in 0..(P - 1)
      /\ workSlots \in [Slots -> Nat \cup {NoData}] /\ 0..(P - 1) \subseteq Slots
      /\ sentRound \in [Channels -> Nat \cup {NoData, Torn}]
      /\ sockets \subseteq Channels
      /\ content \in [Buffers -> Nat \cup {NoData}]
      /\ rxpc = "process" => rxBuf \in Buffers
  BY GeometryMeans, NextPlace DEF Place, TypeInv, TypeOK, BoardTypeOK, HeldBuffers
<1>b. /\ Place = P - 1 => PlaceAt(P, n + 1) = 0 /\ RoundAt(P, n + 1) = RoundAt(P, n) + 1
      /\ Place # P - 1 => PlaceAt(P, n + 1) = Place + 1 /\ RoundAt(P, n + 1) = RoundAt(P, n)
      /\ RoundAt(P, n) \in Nat
  BY <1>a, NextPlace DEF Place
<1>c. RoundFull <=> Place = P - 1 BY GeometryMeans DEF Place
<1>d. ASSUME UNCHANGED <<geometry, bufferCounter>>
      PROVE  P' = P /\ Place' = Place /\ (RoundFull' <=> RoundFull)
  BY <1>d DEF SlotsPerRound, Place, PlaceAt, RoundFull, PartialIndex
<1>e. ASSUME UNCHANGED <<geometry, bufferCounter, sockets, workSlots, sentRound,
                         threadRunning, rxpc>>
      PROVE  SendInv'
  BY <1>d, <1>e DEF SendInv, Returned, Offered, Taken, RoundAt
<1>1. CASE ApiCall
  <2>1. ASSUME NEW c \in Configs, SetAll(c) PROVE SendInv'
    BY <2>1 DEF SetAll, GeometryStays, SendInv
  <2>2. ASSUME NEW ch \in Channels, RegisterSocket(ch) PROVE SendInv'
    BY <2>2 DEF RegisterSocket, SocketsStay, SendInv
  <2>3. CASE UnregisterSockets BY <2>3 DEF UnregisterSockets, SocketsStay, SendInv
  <2>4. CASE Acquire BY <1>e, <2>4 DEF Acquire
  <2>5. CASE WaitForAcquisition BY <1>e, <2>5 DEF WaitForAcquisition
  <2>6. CASE Stop BY <1>e, <2>6 DEF Stop
  <2>7. QED BY <1>1, <2>1, <2>2, <2>3, <2>4, <2>5, <2>6 DEF ApiCall
<1>2. CASE ApiStep
  <2>1. ASSUME NEW b \in Buffers, PostInitial(b) PROVE SendInv'
    BY <1>e, <2>1 DEF PostInitial
  <2>2. CASE StartAcquire
    <3>1. /\ bufferCounter' = 0 /\ rxpc' = "start" /\ geometry' = geometry
          /\ sentRound' = [ch \in Channels |-> NoData] /\ sockets' = sockets
      BY <2>2 DEF StartAcquire
    <3>2. P' = P BY <3>1 DEF SlotsPerRound
    <3>3. PlaceAt(P, 0) = 0 /\ RoundAt(P, 0) = 0 BY <1>a DEF PlaceAt, RoundAt
    <3>4. Place' = 0 BY <3>1, <3>2, <3>3 DEF Place, PlaceAt
    <3>5. Taken' = 0 BY <3>1, <3>4 DEF Taken
    <3>6. \A ch \in sockets' : sentRound'[ch] = RoundAt(P', Offered(ch)') - 1
      BY <1>a, <3>1, <3>2, <3>3 DEF Offered, NoData
    <3>7. QED BY <3>1, <3>5, <3>6 DEF SendInv, RoundAt
  <2>3. CASE AcquireReturn BY <1>e, <2>3 DEF AcquireReturn
  <2>4. CASE ProcessForApp BY <1>e, <2>4 DEF ProcessForApp
  <2>5. CASE PushForApp BY <1>e, <2>5 DEF PushForApp
  <2>6. CASE PostForApp BY <1>e, <2>6 DEF PostForApp
  <2>7. CASE JoinRx BY <2>7 DEF JoinRx, SendInv
  <2>8. CASE AbortOnStop BY <1>e, <2>8 DEF AbortOnStop
  <2>9. CASE ClearQueues BY <1>e, <2>9 DEF ClearQueues
  <2>10. QED BY <1>2, <2>1, <2>2, <2>3, <2>4, <2>5, <2>6, <2>7, <2>8, <2>9
             DEF ApiStep
<1>3. CASE Rx
  <2>a. threadRunning /\ UNCHANGED <<threadRunning, sockets, geometry>>
    BY <1>3 DEF Rx, RxReady, RxLoop, RxPop, RxPopEmpty, RxCheckStop,
       RxWait, RxRoute, RxQueue, RxProcess, RxSend, RxRepost, RxPost, RxCount, RxAbort, LifeInv
  <2>b. ~Returned
    BY <1>3 DEF Returned, Rx, RxReady, RxLoop, RxPop, RxPopEmpty, RxCheckStop,
       RxWait, RxRoute, RxQueue, RxProcess, RxSend, RxRepost, RxPost, RxCount, RxAbort
  <2>c. /\ sockets # {} => \A i \in 0..(Taken - 1) : workSlots[i] = n - Place + i
        /\ \A ch \in sockets : sentRound[ch] = RoundAt(P, Offered(ch)) - 1
    BY <2>a, <2>b DEF SendInv
  <2>e. ASSUME UNCHANGED <<bufferCounter, workSlots, sentRound>>,
               \/ rxpc' \in {"exited", "failed"}
               \/ /\ {rxpc, rxpc'} \subseteq {"start", "loop", "pop", "empty", "check", "wait",
                                              "route", "process"}
               \/ {rxpc, rxpc'} \subseteq {"repost", "post", "count"}
               \/ rxpc' = "abort" /\ rxpc = "loop"
        PROVE  SendInv'
    <3>1. CASE rxpc' \in {"exited", "failed"} BY <3>1 DEF SendInv, Returned
    <3>2. CASE rxpc' \notin {"exited", "failed"}
      <4>1. /\ rxpc' \notin {"send1", "send2"} /\ Taken' = Taken
            /\ \A ch \in sockets : Offered(ch)' = Offered(ch)
        BY <1>d, <2>a, <2>e, <3>2 DEF Taken, Offered
      <4>2. QED BY <1>d, <2>a, <2>c, <2>e, <4>1 DEF SendInv, RoundAt
    <3>3. QED BY <3>1, <3>2
  <2>1. CASE RxReady BY <2>e, <2>1 DEF RxReady, RxGoto
  <2>2. CASE RxLoop BY <2>e, <2>2 DEF RxLoop, RxGoto
  <2>3. CASE RxPop BY <2>e, <2>3 DEF RxPop
  <2>4. CASE RxPopEmpty BY <2>e, <2>4 DEF RxPopEmpty, RxGoto
  <2>5. CASE RxCheckStop BY <2>e, <2>5 DEF RxCheckStop, RxGoto, RxReturn
  <2>6. CASE RxWait BY <2>e, <2>6 DEF RxWait, RxGoto, RxReturn
  <2>7. CASE RxRoute
    <3>1. CASE sockets # {} BY <2>e, <2>7, <3>1 DEF RxRoute, RxGoto
    <3>2. CASE sockets = {} BY <2>7, <2>a, <3>2 DEF RxRoute, RxGoto, SendInv
    <3>3. QED BY <3>1, <3>2
  <2>8. CASE RxQueue
    BY <2>8, <2>a DEF RxQueue, RxGoto, OneConsumer, SendInv
  <2>9. CASE RxProcess
    <3>1. /\ rxpc = "process" /\ UNCHANGED <<bufferCounter, sentRound, content, rxBuf>>
          /\ workSlots' = [workSlots EXCEPT ![Place] = content[rxBuf]]
          /\ rxpc' = IF RoundFull THEN "send1" ELSE "repost"
          /\ sockets # {}
      BY <2>9, GeometryMeans DEF RxProcess, Process, RxGoto, Place, OneConsumer
    <3>2. content[rxBuf] = n
      BY <2>a, <3>1 DEF OrderInv, RxPending, CountInv, Returned, Completed, Holding,
         TypeInv, TypeOK, BoardTypeOK
    <3>3. P' = P /\ Place' = Place /\ (RoundFull' <=> RoundFull) BY <1>d, <2>a, <3>1
    <3>4. Taken = Place /\ Taken' = Place + 1 BY <3>1, <3>3 DEF Taken
    <3>5. ASSUME NEW i \in 0..Place PROVE workSlots'[i] = n - Place + i
      <4>1. Place \in Slots /\ i \in Slots BY <1>a, <3>5
      <4>2. CASE i = Place BY <1>a, <3>1, <3>2, <4>1, <4>2
      <4>3. CASE i # Place
        <5>1. i \in 0..(Taken - 1) BY <1>a, <3>4, <4>3
        <5>2. workSlots'[i] = workSlots[i] BY <1>a, <3>1, <4>1, <4>3
        <5>3. QED BY <2>c, <3>1, <5>1, <5>2
      <4>4. QED BY <4>2, <4>3
    <3>6. \A i \in 0..(Taken' - 1) : workSlots'[i] = n - Place + i
      BY <1>a, <3>4, <3>5
    <3>7. ASSUME NEW ch \in sockets
          PROVE  sentRound'[ch] = RoundAt(P, Offered(ch)') - 1
      <4>1. sentRound[ch] = RoundAt(P, n) - 1 BY <2>c, <3>1 DEF Offered
      <4>2. CASE RoundFull
        <5>1. Offered(ch)' = n BY <3>1, <4>2 DEF Offered
        <5>2. QED BY <3>1, <4>1, <5>1
      <4>3. CASE ~RoundFull
        <5>1. Offered(ch)' = n + 1 BY <3>1, <4>3 DEF Offered
        <5>2. RoundAt(P, n + 1) = RoundAt(P, n) BY <1>b, <1>c, <4>3
        <5>3. QED BY <3>1, <4>1, <5>1, <5>2
      <4>4. QED BY <4>2, <4>3
    <3>8. rxpc' \in {"send1", "send2"} => RoundFull' BY <3>1, <3>3
    <3>9. QED BY <2>a, <3>1, <3>3, <3>6, <3>7, <3>8 DEF SendInv, RoundAt
  <2>10. ASSUME NEW ch \in Channels, NEW pc, NEW next, RxSend(ch, pc, next),
                \/ ch = "ch1" /\ pc = "send1" /\ next = "send2"
                \/ ch = "ch2" /\ pc = "send2" /\ next = "repost"
         PROVE  SendInv'
    <3>1. /\ rxpc = pc /\ rxpc' = next /\ UNCHANGED <<bufferCounter, workSlots>>
          /\ ch \notin sockets => sentRound' = sentRound
      BY <2>10 DEF RxSend, RxGoto, Reliable
    <3>2. P' = P /\ Place' = Place /\ (RoundFull' <=> RoundFull) /\ Taken' = Taken
      BY <1>d, <2>10, <2>a, <3>1 DEF Taken
    <3>3. RoundFull /\ Place = P - 1 BY <1>c, <2>10, <2>a, <2>b, <3>1 DEF SendInv
    <3>4. ASSUME NEW c \in sockets PROVE sentRound'[c] = RoundAt(P, Offered(c)') - 1
      <4>1. CASE c = ch
        <5>1. Offered(c)' = n + 1 BY <2>10, <3>1, <4>1 DEF Offered
        <5>2. sentRound' = [sentRound EXCEPT ![ch] = sentRound[ch] + 1]
              /\ sentRound[ch] + 1 = RoundAt(P, n)
          BY <2>10, <2>a, <3>4, <4>1, RoundsSent
        <5>3. sentRound'[c] = RoundAt(P, n) BY <1>a, <4>1, <5>2
        <5>4. QED BY <1>b, <3>3, <5>1, <5>3
      <4>2. CASE c # ch
        <5>1. sentRound'[c] = sentRound[c]
          BY <1>a, <2>10, <2>a, <3>1, <3>4, <4>2, RoundsSent
        <5>2. Offered(c)' = Offered(c)
          BY <1>a, <2>10, <3>1, <3>4, <4>2 DEF Offered, Channels
        <5>3. QED BY <2>c, <3>4, <5>1, <5>2
      <4>3. QED BY <4>1, <4>2
    <3>5. QED BY <2>a, <2>c, <3>1, <3>2, <3>3, <3>4 DEF SendInv, RoundAt
  <2>11. CASE RxRepost BY <2>e, <2>11 DEF RxRepost, RxGoto
  <2>12. CASE RxPost BY <2>e, <2>12 DEF RxPost, RxGoto, RxReturn
  <2>13. CASE RxCount
    <3>1. CASE threadStop BY <2>13, <3>1 DEF RxCount, RxReturn, SendInv, Returned
    <3>2. CASE ~threadStop
      <4>1. /\ rxpc = "count" /\ rxpc' = "loop" /\ bufferCounter' = n + 1
            /\ UNCHANGED <<workSlots, sentRound>>
        BY <2>13, <3>2 DEF RxCount, RxReturn
      <4>2. P' = P BY <2>a DEF SlotsPerRound
      <4>3. Place' = PlaceAt(P, n + 1) BY <4>1, <4>2 DEF Place, PlaceAt
      <4>4. Taken = Place + 1 /\ Taken' = Place' BY <4>1 DEF Taken
      <4>5. \A i \in 0..(Taken' - 1) : sockets # {} =>
              workSlots'[i] = bufferCounter' - Place' + i
        <5>1. CASE Place = P - 1 BY <1>b, <4>3, <4>4, <5>1
        <5>2. CASE Place # P - 1
          <6>1. Place' = Place + 1 /\ Taken' = Taken BY <1>b, <4>3, <4>4, <5>2
          <6>2. bufferCounter' - Place' = n - Place BY <1>a, <4>1, <6>1
          <6>3. QED BY <2>c, <4>1, <6>1, <6>2
        <5>3. QED BY <5>1, <5>2
      <4>6. \A ch \in sockets : sentRound'[ch] = RoundAt(P, Offered(ch)') - 1
        BY <2>c, <4>1 DEF Offered
      <4>7. QED BY <2>a, <4>1, <4>2, <4>5, <4>6 DEF SendInv, RoundAt
    <3>3. QED BY <3>1, <3>2
  <2>14. CASE RxAbort BY <2>14 DEF RxAbort, RxReturn, SendInv, Returned
  <2>15. QED BY <1>3, <2>1, <2>2, <2>3, <2>4, <2>5, <2>6, <2>7, <2>8, <2>9, <2>10, <2>11,
             <2>12, <2>13, <2>14 DEF Rx, Channels
<1>4. CASE BoardStep BY <1>e, <1>4 DEF BoardStep
<1>5. CASE UNCHANGED vars BY <1>e, <1>5 DEF vars
<1>6. QED BY <1>1, <1>2, <1>3, <1>4, <1>5 DEF Next
-----------------------------------------------------------------------------
(* What the application polls.                                             *)

(* The results given so far end right before the oldest capture that is    *)
(* still to be consumed, less the one in the application thread's hands.   *)
AppInv ==
  threadRunning /\ ~geometry.partialBuffer /\ sockets = {} =>
    /\ Oldest >= 0
    /\ apc \in {"process", "push", "post"} => appRound = Oldest - 2 /\ Oldest >= 1
    /\ apc \notin {"process", "push", "post"} => appRound = Oldest - 1
    /\ apc \in {"push", "post"} => apiFull /\ appSlots[0] = Oldest - 1

LEMMA InitApp == Init => AppInv
BY DEF Init, AppInv

(* Only wait_for_acquisition takes a capture off the unconsumed ones. *)
LEMMA OldestStays ==
  ASSUME Reliable, TypeInv, LifeInv, OneConsumer, AgreeInv', CountInv, [Next]_vars,
         threadRunning, threadRunning', sockets = {}, ~WaitForAcquisition
  PROVE  Oldest' = Oldest
<1> USE DEF boardVars, flagVars, queueVars, setupVars, rxVars, apiVars, outVars,
            Oldest, RxPending
<1>a. /\ posted \in Seq(Buffers) /\ dataQ \in Seq(Buffers) /\ nFilled \in Nat
      /\ captured \in Nat /\ Len(dataQ) \in Nat
      /\ rxpc = "queue" => rxBuf \in Buffers
      /\ rxpc # "process" /\ rxpc # "send1" /\ rxpc # "send2"
      /\ quota \in Nat /\ bufferCounter \in Nat /\ geometry.nbrBuffers \in Nat
  BY LenProperties DEF TypeInv, TypeOK, BoardTypeOK, HeldBuffers, OneConsumer, Geometry
<1>1. CASE ApiCall
  BY <1>1 DEF ApiCall, SetAll, RegisterSocket, UnregisterSockets, Acquire, Stop
<1>2. CASE ApiStep
  <2>1. ~StartAcquire /\ ~JoinRx /\ ~AbortOnStop /\ ~ClearQueues
    BY DEF StartAcquire, JoinRx, AbortOnStop, ClearQueues, LifeInv
  <2>2. UNCHANGED <<captured, nFilled, dataQ, rxpc>>
    BY <1>2, <2>1 DEF ApiStep, PostInitial, Enqueue, AcquireReturn, ProcessForApp,
       PushForApp, PostForApp, PostAsyncBuffer
  <2>3. QED BY <2>2
<1>3. CASE Rx
  <2>1. CASE RxQueue
    <3>1. Len(dataQ') = Len(dataQ) + 1 BY <1>a, <2>1, PushPlaces DEF RxQueue, Push
    <3>2. /\ UNCHANGED <<captured, nFilled>>
          /\ RxPending = 1 /\ RxPending' = 0
      BY <2>1 DEF RxQueue, RxGoto
    <3> HIDE DEF RxPending
    <3>3. QED BY <1>a, <3>1, <3>2
  <2>2. CASE RxWait
    <3>1. UNCHANGED <<dataQ, captured>> /\ rxpc = "wait"
      BY <2>2 DEF RxWait, WaitComplete, WaitTimeout, WaitInvalid
    <3>2. CASE WaitComplete(rxBuf) /\ rxpc' = "route"
      BY <1>a, <3>1, <3>2 DEF WaitComplete
    <3>3. CASE WaitTimeout(rxBuf) /\ rxpc' = "check"
      BY <1>a, <3>1, <3>3 DEF WaitTimeout
    <3>4. ~(WaitInvalid(rxBuf) /\ RxReturn("failed")) BY DEF RxReturn, AgreeInv
    <3>5. QED BY <2>2, <3>2, <3>3, <3>4 DEF RxWait, RxGoto, Reliable
  <2>3. CASE RxAbort
    <3>1. nFilled = 0 BY <1>a, <2>3 DEF RxAbort, CountInv, Returned, Completed, Holding
    <3>2. QED BY <1>a, <2>3, <3>1 DEF RxAbort, RxReturn, AbortAsyncRead, Reliable
  <2>4. CASE RxPost
    BY <1>a, <2>4 DEF RxPost, RxGoto, PostAsyncBuffer, Reliable
  <2>5. CASE RxReady \/ RxLoop \/ RxPop \/ RxPopEmpty \/ RxCheckStop
    BY <2>5 DEF RxReady, RxLoop, RxPop, RxPopEmpty, RxCheckStop, RxGoto, RxReturn
  <2>6. CASE RxRoute \/ RxRepost \/ RxCount
    BY <2>6 DEF RxRoute, RxRepost, RxCount, Enqueue, RxGoto, RxReturn
  <2>7. QED BY <1>3, <1>a, <2>1, <2>2, <2>3, <2>4, <2>5, <2>6 DEF Rx, RxProcess, RxSend
<1>4. CASE BoardStep BY <1>a, <1>4 DEF BoardStep, DMA
<1>5. CASE UNCHANGED vars BY <1>5 DEF vars
<1>6. QED BY <1>1, <1>2, <1>3, <1>4, <1>5 DEF Next

(* A buffer that holds whole round robins is a result. *)
LEMMA OneSlotRound ==
  ASSUME ~geometry.partialBuffer, NEW slots, NEW k \in Nat, slots[0] = k
  PROVE  RoundOf(slots) = k
<1>1. SlotsPerRound = 1 BY DEF SlotsPerRound
<1>2. k % 1 = 0 /\ k \div 1 = k BY RoundOfOne
<1>3. \A i \in 0..(1 - 1) : slots[i] = slots[0] + i OBVIOUS
<1>4. k # NoData BY DEF NoData
<1>5. QED BY <1>1, <1>2, <1>3, <1>4 DEF RoundOf

LEMMA AppStep ==
  ASSUME Reliable, SocketsStay, GeometryStays, TypeInv, LifeInv, OneConsumer, AgreeInv',
         CountInv, OrderInv, AppInv, [Next]_vars
  PROVE  AppInv'
<1> USE DEF boardVars, flagVars, queueVars, setupVars, rxVars, apiVars, outVars
<1>a. /\ dataQ \in Seq(Buffers) /\ Oldest \in Int
      /\ content \in [Buffers -> Nat \cup {NoData}]
      /\ appSlots \in [Slots -> Nat \cup {NoData}] /\ 0 \in Slots
      /\ apc \in {"process", "push", "post"} => apiBuf \in Buffers
  BY LenProperties, SlotsAssumption
     DEF TypeInv, TypeOK, BoardTypeOK, HeldBuffers, Slots, Oldest, RxPending
<1>1. SUFFICES ASSUME threadRunning', ~geometry'.partialBuffer, sockets' = {}
               PROVE  AppInv'
  BY DEF AppInv
<1>2. CASE StartAcquire
  <2>1. /\ captured = 0 /\ nFilled = 0 /\ captured' = 0 /\ nFilled' = 0
        /\ dataQ' = <<>> /\ rxpc' = "start" /\ apc' = "ready" /\ appRound' = NoData
    BY <1>2 DEF StartAcquire, StartCapture, CountInv, LifeInv
  <2>2. captured' = 0 /\ nFilled' = 0 /\ RxPending' = 0 /\ Len(dataQ') = 0
    BY <2>1 DEF RxPending
  <2>3. Oldest' = 0 BY <2>2 DEF Oldest
  <2>4. QED BY <2>1, <2>3 DEF AppInv, NoData
<1>3. CASE ~StartAcquire
  <2>1. threadRunning /\ UNCHANGED <<geometry, sockets>>
    BY <1>1, <1>3 DEF Next, ApiCall, ApiStep, BoardStep, Rx, SetAll, RegisterSocket,
       UnregisterSockets, Acquire, WaitForAcquisition, Stop, PostInitial, AcquireReturn,
       ProcessForApp, PushForApp, PostForApp, JoinRx, AbortOnStop, ClearQueues, RxReady,
       RxLoop, RxPop, RxPopEmpty, RxCheckStop, RxWait, RxRoute, RxQueue, RxProcess, RxSend,
       RxRepost, RxPost, RxCount, RxAbort, vars, GeometryStays, SocketsStay
  <2>2. /\ Oldest >= 0
        /\ apc \in {"process", "push", "post"} => appRound = Oldest - 2 /\ Oldest >= 1
        /\ apc \notin {"process", "push", "post"} => appRound = Oldest - 1
        /\ apc \in {"push", "post"} => apiFull /\ appSlots[0] = Oldest - 1
    BY <1>1, <2>1 DEF AppInv
  <2>3. CASE WaitForAcquisition
    <3>1. /\ dataQ # <<>> /\ dataQ' = Tail(dataQ) /\ apc = "idle" /\ apc' = "process"
          /\ UNCHANGED <<captured, nFilled, rxpc, appRound>>
      BY <2>3 DEF WaitForAcquisition
    <3>2. Len(dataQ') = Len(dataQ) - 1 /\ Len(dataQ) \in Nat BY <1>a, <3>1, PopPlaces
    <3>3. Oldest' = Oldest + 1
      BY <3>1, <3>2 DEF Oldest, RxPending, TypeInv, TypeOK, BoardTypeOK
    <3>4. QED BY <1>a, <2>2, <3>1, <3>3 DEF AppInv
  <2>4. CASE ~WaitForAcquisition
    <3>1. Oldest' = Oldest BY <1>1, <2>1, <2>4, OldestStays
    <3>2. CASE ProcessForApp
      <4>1. /\ apc = "process" /\ apc' = "push" /\ UNCHANGED appRound
            /\ apiFull' /\ appSlots' = [appSlots EXCEPT ![0] = content[apiBuf]]
        BY <1>1, <2>1, <3>2 DEF ProcessForApp, Process, SlotIndex, RoundFull
      <4>2. content[apiBuf] = Oldest - 1 BY <2>1, <4>1 DEF OrderInv
      <4>3. QED BY <1>a, <2>2, <3>1, <4>1, <4>2 DEF AppInv
    <3>3. CASE PostForApp
      <4>1. /\ apc = "post" /\ apc' = "idle" /\ appRound' = RoundOf(appSlots)
        BY <2>2, <3>3 DEF PostForApp, Reliable
      <4>2. Oldest - 1 \in Nat /\ appSlots[0] = Oldest - 1 BY <1>a, <2>2, <4>1
      <4>3. appRound' = Oldest - 1 BY <1>1, <2>1, <4>1, <4>2, OneSlotRound
      <4>4. QED BY <1>a, <2>2, <3>1, <4>1, <4>3 DEF AppInv
    <3>4. CASE PushForApp
      BY <2>2, <3>1, <3>4 DEF PushForApp, AppInv
    <3>5. CASE Stop \/ AcquireReturn
      BY <2>2, <3>1, <3>5 DEF Stop, AcquireReturn, AppInv
    <3>6. CASE UNCHANGED <<apc, appRound, apiFull, appSlots>>
      BY <2>2, <3>1, <3>6 DEF AppInv
    <3>7. QED
      BY <1>1, <1>3, <2>1, <2>4, <3>2, <3>3, <3>4, <3>5, <3>6
      DEF Next, ApiCall, ApiStep, BoardStep, Rx, SetAll, RegisterSocket, LifeInv,
          UnregisterSockets, Acquire, PostInitial, JoinRx, AbortOnStop, ClearQueues, RxReady,
          RxLoop, RxPop, RxPopEmpty, RxCheckStop, RxWait, RxRoute, RxQueue, RxProcess,
          RxSend, RxRepost, RxPost, RxCount, RxAbort, vars
  <2>5. QED BY <2>3, <2>4
<1>4. QED BY <1>2, <1>3
-----------------------------------------------------------------------------
(* The streams.                                                            *)

OutInv == /\ TypeInv /\ LifeInv /\ OneConsumer /\ AgreeInv /\ CountInv
          /\ OrderInv /\ SendInv /\ AppInv

LEMMA OutHolds ==
  ASSUME Reliable, SocketsStay, GeometryStays PROVE Spec => []OutInv
<1>a. "abort" \notin Faults BY DEF Reliable
<1>1. Init => OutInv
  BY InitType, InitLife, InitConsumer, InitAgree, InitCount, InitOrder, InitSend, InitApp
     DEF OutInv
<1>2. ExclusiveBuffers /\ OutInv /\ [Next]_vars => OutInv'
  BY <1>a, TypeInvStep, LifeStep, ConsumerStep, AgreeStep, CountStep, OrderStep, SendStep,
     AppStep DEF OutInv
<1>3. Spec => []ExclusiveBuffers BY <1>a, NoOverwrite
<1>4. QED BY <1>1, <1>2, <1>3, PTL DEF Spec

(* How the flags and the results change in a step. *)
LEMMA FlagSteps ==
  ASSUME SocketsStay, GeometryStays, LifeInv, [Next]_vars
  PROVE  /\ ~threadRunning /\ threadRunning' => StartAcquire
         /\ threadRunning /\ ~JoinRx => UNCHANGED <<threadRunning, geometry, sockets>>
         /\ threadRunning /\ ~PostForApp => UNCHANGED appRound
<1> USE DEF boardVars, flagVars, queueVars, setupVars, rxVars, apiVars, outVars
<1>1. CASE ApiCall
  BY <1>1 DEF ApiCall, SetAll, RegisterSocket, UnregisterSockets, Acquire,
     WaitForAcquisition, Stop, GeometryStays, SocketsStay
<1>2. CASE ApiStep
  BY <1>2 DEF ApiStep, PostInitial, StartAcquire, AcquireReturn, ProcessForApp, PushForApp,
     PostForApp, JoinRx, AbortOnStop, ClearQueues, LifeInv
<1>3. CASE Rx \/ BoardStep \/ UNCHANGED vars
  BY <1>3 DEF BoardStep, vars, Rx, RxReady, RxLoop, RxPop, RxPopEmpty, RxCheckStop, RxWait,
     RxRoute, RxQueue, RxProcess, RxSend, RxRepost, RxPost, RxCount, RxAbort
<1>4. QED BY <1>1, <1>2, <1>3 DEF Next

(* One step as the listener on a channel sees it. *)
LEMMA ListenerStep ==
  ASSUME Reliable, SocketsStay, GeometryStays, OutInv, OutInv', [Next]_vars,
         NEW ch \in Channels
  PROVE  \/ ~threadRunning /\ threadRunning' /\ sentRound'[ch] = NoData
         \/ ~threadRunning'
         \/ /\ threadRunning /\ threadRunning'
            /\ NumberAcquisitions' = NumberAcquisitions
            /\ \/ sentRound'[ch] = sentRound[ch]
               \/ /\ sentRound'[ch] = sentRound[ch] + 1
                  /\ sentRound[ch] + 1 < NumberAcquisitions
<1> USE DEF OutInv, boardVars, flagVars, queueVars, setupVars, rxVars, apiVars, outVars
<1>1. CASE ~threadRunning
  <2>1. threadRunning' => StartAcquire BY <1>1, FlagSteps
  <2>2. QED BY <1>1, <2>1 DEF StartAcquire
<1>2. CASE threadRunning /\ threadRunning'
  <2>1. UNCHANGED geometry BY <1>2, FlagSteps DEF JoinRx
  <2>2. NumberAcquisitions' = NumberAcquisitions BY <2>1 DEF NumberAcquisitions
  <2>3. ASSUME NEW c \in Channels, NEW pc, NEW next, RxSend(c, pc, next),
               \/ c = "ch1" /\ pc = "send1" /\ next = "send2"
               \/ c = "ch2" /\ pc = "send2" /\ next = "repost"
        PROVE  \/ sentRound'[ch] = sentRound[ch]
               \/ /\ sentRound'[ch] = sentRound[ch] + 1
                  /\ sentRound[ch] + 1 < NumberAcquisitions
    <3>1. CASE c # ch \/ c \notin sockets
      <4>1. \/ sentRound' = sentRound
            \/ \E x : sentRound' = [sentRound EXCEPT ![c] = x] /\ c # ch
        BY <2>3, <3>1 DEF RxSend, Reliable
      <4>2. QED BY <4>1 DEF TypeInv, TypeOK
    <3>2. CASE c = ch /\ c \in sockets
      <4>1. /\ sentRound' = [sentRound EXCEPT ![c] = sentRound[c] + 1]
            /\ sentRound[c] + 1 = RoundAt(SlotsPerRound, bufferCounter)
            /\ Place = SlotsPerRound - 1
        BY <1>2, <2>3, <3>2, RoundsSent
      <4>2. sentRound'[ch] = sentRound[ch] + 1 BY <3>2, <4>1 DEF TypeInv, TypeOK
      <4>3. /\ bufferCounter + 1 <= geometry.nbrBuffers
            /\ bufferCounter \in Nat /\ geometry.nbrBuffers \in Nat
            /\ SlotsPerRound \in Nat \ {0}
        BY <2>3, GeometryMeans DEF RxSend, CountInv, Holding, TypeInv, TypeOK, Geometry
      <4>4. RoundAt(SlotsPerRound, bufferCounter + 1)
              = RoundAt(SlotsPerRound, bufferCounter) + 1
        BY <4>1, <4>3, NextPlace DEF Place
      <4>5. RoundAt(SlotsPerRound, bufferCounter + 1) <= NumberAcquisitions
        <5>1. PICK m \in Nat : m = bufferCounter + 1 BY <4>3
        <5>2. RoundAt(SlotsPerRound, m) <= RoundAt(SlotsPerRound, geometry.nbrBuffers)
          BY <4>3, <5>1, RoundsGrow
        <5>3. QED BY <5>1, <5>2, GeometryMeans
      <4>6. PICK q \in Nat : q = RoundAt(SlotsPerRound, bufferCounter)
        BY <4>3, NextPlace
      <4>7. q + 1 <= NumberAcquisitions BY <4>4, <4>5, <4>6
      <4>8. sentRound[ch] + 1 < NumberAcquisitions
        BY <3>2, <4>1, <4>6, <4>7, TotalIsNat
      <4>9. QED BY <4>2, <4>8
    <3>3. QED BY <3>1, <3>2
  <2>4. CASE UNCHANGED sentRound BY <1>2, <2>2, <2>4
  <2>5. CASE RxSend("ch1", "send1", "send2") \/ RxSend("ch2", "send2", "repost")
    BY <1>2, <2>2, <2>3, <2>5 DEF Channels
  <2>6. ~StartAcquire BY <1>2 DEF StartAcquire, LifeInv
  <2>7. QED
    BY <2>4, <2>5, <2>6 DEF Next, ApiCall, ApiStep, BoardStep, Rx, SetAll, RegisterSocket,
       UnregisterSockets, Acquire, WaitForAcquisition, Stop, PostInitial, AcquireReturn,
       ProcessForApp, PushForApp, PostForApp, JoinRx, AbortOnStop, ClearQueues, RxReady,
       RxLoop, RxPop, RxPopEmpty, RxCheckStop, RxWait, RxRoute, RxQueue, RxProcess,
       RxRepost, RxPost, RxCount, RxAbort, vars
<1>3. QED BY <1>1, <1>2 DEF TypeInv, TypeOK

(* A total of the next state is a number, too. *)
LEMMA NextTotalIsNat == TypeInv' => NumberAcquisitions' \in Nat
<1>1. SUFFICES ASSUME TypeInv' PROVE NumberAcquisitions' \in Nat OBVIOUS
<1>2. /\ geometry'.nbrBuffers \in Nat /\ geometry'.buffersPerRoundRobin \in Nat
      /\ geometry'.partialBuffer => geometry'.buffersPerRoundRobin > 0
  BY <1>1, SlotsAssumption DEF TypeInv, TypeOK, Geometry
<1>3. \A n \in Nat, P \in Nat : P > 0 => n \div P \in Nat OBVIOUS
<1>4. geometry'.partialBuffer =>
        geometry'.nbrBuffers \div geometry'.buffersPerRoundRobin \in Nat
  BY <1>2, <1>3
<1>5. QED BY <1>2, <1>4 DEF NumberAcquisitions

LEMMA ListenerMaps ==
  ASSUME Reliable, SocketsStay, GeometryStays, OutInv, OutInv', [Next]_vars
  PROVE  /\ [Ch1Stream!Next]_(Ch1Stream!streamVars)
         /\ [Ch2Stream!Next]_(Ch2Stream!streamVars)
<1>1. /\ NumberAcquisitions' \in Nat /\ NoData = -1
      /\ threadRunning \in BOOLEAN /\ threadRunning' \in BOOLEAN
  BY NextTotalIsNat DEF OutInv, TypeInv, TypeOK, NoData
<1> USE DEF StreamTotal, StreamLast
<1>2. [Ch1Stream!Next]_(Ch1Stream!streamVars)
  <2>1. \/ ~threadRunning /\ threadRunning' /\ sentRound'["ch1"] = NoData
        \/ ~threadRunning'
        \/ /\ threadRunning /\ threadRunning'
           /\ NumberAcquisitions' = NumberAcquisitions
           /\ \/ sentRound'["ch1"] = sentRound["ch1"]
              \/ /\ sentRound'["ch1"] = sentRound["ch1"] + 1
                 /\ sentRound["ch1"] + 1 < NumberAcquisitions
    BY ListenerStep DEF Channels
  <2>2. QED
    BY <1>1, <2>1 DEF Ch1Stream!Next, Ch1Stream!streamVars, Ch1Stream!Start,
       Ch1Stream!Deliver, Ch1Stream!Stop
<1>3. [Ch2Stream!Next]_(Ch2Stream!streamVars)
  <2>1. \/ ~threadRunning /\ threadRunning' /\ sentRound'["ch2"] = NoData
        \/ ~threadRunning'
        \/ /\ threadRunning /\ threadRunning'
           /\ NumberAcquisitions' = NumberAcquisitions
           /\ \/ sentRound'["ch2"] = sentRound["ch2"]
              \/ /\ sentRound'["ch2"] = sentRound["ch2"] + 1
                 /\ sentRound["ch2"] + 1 < NumberAcquisitions
    BY ListenerStep DEF Channels
  <2>2. QED
    BY <1>1, <2>1 DEF Ch2Stream!Next, Ch2Stream!streamVars, Ch2Stream!Start,
       Ch2Stream!Deliver, Ch2Stream!Stop
<1>4. QED BY <1>2, <1>3

(* One step as the polling application sees it. *)
LEMMA AppMaps ==
  ASSUME Reliable, SocketsStay, GeometryStays, OutInv, OutInv', [Next]_vars
  PROVE  [AppStream!Next]_(AppStream!streamVars)
<1> USE DEF OutInv
<1>1. /\ NumberAcquisitions' \in Nat /\ NoData = -1
      /\ threadRunning \in BOOLEAN /\ threadRunning' \in BOOLEAN
      /\ geometry.partialBuffer \in BOOLEAN /\ geometry'.partialBuffer \in BOOLEAN
  BY NextTotalIsNat DEF TypeInv, TypeOK, Geometry, NoData
<1>2. PolledWhole \in BOOLEAN /\ PolledWhole' \in BOOLEAN BY <1>1 DEF PolledWhole
<1> USE DEF StreamTotal, StreamLast
<1>3. CASE ~PolledWhole
  <2>1. CASE ~PolledWhole'
    BY <1>2, <1>3, <2>1 DEF AppStream!streamVars
  <2>2. CASE PolledWhole'
    <3>1. ~threadRunning /\ threadRunning' BY <1>3, <2>2, FlagSteps DEF PolledWhole, JoinRx
    <3>2. appRound' = NoData BY <3>1, FlagSteps DEF StartAcquire
    <3>3. QED BY <1>1, <1>2, <1>3, <2>2, <3>2 DEF AppStream!Next, AppStream!Start
  <2>3. QED BY <1>2, <2>1, <2>2
<1>4. CASE PolledWhole /\ ~PolledWhole'
  BY <1>1, <1>4 DEF AppStream!Next, AppStream!Stop
<1>5. CASE PolledWhole /\ PolledWhole'
  <2>1. threadRunning /\ threadRunning' /\ ~geometry.partialBuffer BY <1>5 DEF PolledWhole
  <2>2. UNCHANGED <<geometry, sockets>> BY <2>1, FlagSteps DEF JoinRx
  <2>3. NumberAcquisitions' = NumberAcquisitions BY <2>2 DEF NumberAcquisitions
  <2>4. CASE ~PostForApp
    <3>1. appRound' = appRound BY <2>1, <2>4, FlagSteps
    <3>2. QED BY <1>5, <2>3, <3>1 DEF AppStream!streamVars
  <2>5. CASE PostForApp
    <3>1. apc = "post" /\ apc' = "idle" BY <2>5 DEF PostForApp
    <3>2. sockets = {} /\ ~WaitForAcquisition
      BY <3>1 DEF OneConsumer, WaitForAcquisition
    <3>3. Oldest' = Oldest BY <2>1, <3>2, OldestStays
    <3>4. appRound = Oldest - 2 /\ appRound' = Oldest - 1
      BY <2>1, <2>2, <3>1, <3>2, <3>3 DEF AppInv
    <3>5. Oldest \in Int /\ Oldest <= captured /\ captured \in Nat
      <4>1. captured \in Nat /\ nFilled \in Nat /\ dataQ \in Seq(Buffers)
        BY LenProperties DEF TypeInv, TypeOK, BoardTypeOK
      <4>2. Len(dataQ) \in Nat /\ RxPending \in {0, 1}
        BY <4>1, LenProperties DEF RxPending
      <4>3. QED BY <4>1, <4>2 DEF Oldest
    <3>6. captured <= NumberAcquisitions
      BY <2>1 DEF CountInv, NumberAcquisitions
    <3>7. NumberAcquisitions \in Nat BY TotalIsNat
    <3>8. appRound' = appRound + 1 /\ appRound + 1 < NumberAcquisitions
      BY <3>4, <3>5, <3>6, <3>7
    <3>9. QED BY <1>5, <2>3, <3>8 DEF AppStream!Next, AppStream!Deliver
  <2>6. QED BY <2>4, <2>5
<1>6. QED BY <1>2, <1>3, <1>4, <1>5

(* The listener on channel 1's socket is given the results of each         *)
(* acquisition in order, whole, none lost or repeated, for every pool,     *)
(* number of buffers and round robin, though rx assembles and sends them   *)
(* from one work buffer (libAlazar.cpp:393-423).                           *)
THEOREM ListenerOneStream ==
  ASSUME Reliable, SocketsStay, GeometryStays PROVE Spec => Ch1StreamSpec
<1>1. Init => Ch1Stream!Init
  BY DEF Init, Ch1Stream!Init, StreamTotal, StreamLast, NoData
<1>2. OutInv /\ OutInv' /\ [Next]_vars => [Ch1Stream!Next]_(Ch1Stream!streamVars)
  BY ListenerMaps
<1>3. QED BY <1>1, <1>2, OutHolds, PTL DEF Spec, Ch1StreamSpec, Ch1Stream!Spec

(* So is the listener on channel 2's (libAlazar.cpp:424-443), also when    *)
(* only one of the two is registered.                                      *)
THEOREM ListenerTwoStream ==
  ASSUME Reliable, SocketsStay, GeometryStays PROVE Spec => Ch2StreamSpec
<1>1. Init => Ch2Stream!Init
  BY DEF Init, Ch2Stream!Init, StreamTotal, StreamLast, NoData
<1>2. OutInv /\ OutInv' /\ [Next]_vars => [Ch2Stream!Next]_(Ch2Stream!streamVars)
  BY ListenerMaps
<1>3. QED BY <1>1, <1>2, OutHolds, PTL DEF Spec, Ch2StreamSpec, Ch2Stream!Spec

(* So is the application that polls wait_for_acquisition for buffers that  *)
(* hold whole round robins (libAlazarAPI.cpp:134-176).                     *)
THEOREM ApplicationStream ==
  ASSUME Reliable, SocketsStay, GeometryStays PROVE Spec => AppStreamSpec
<1>1. Init => AppStream!Init
  BY DEF Init, AppStream!Init, PolledWhole, StreamTotal, StreamLast, NoData
<1>2. OutInv /\ OutInv' /\ [Next]_vars => [AppStream!Next]_(AppStream!streamVars)
  BY AppMaps
<1>3. QED BY <1>1, <1>2, OutHolds, PTL DEF Spec, AppStreamSpec, AppStream!Spec
=============================================================================
