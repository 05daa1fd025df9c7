---------------------------- MODULE SocketProofs ----------------------------
(***************************************************************************)
(* SocketTransmission, the engine on the driver stand-in with its chunked  *)
(* sends, implements Acquisition; then what holds of its sockets.  For     *)
(* every pool, number of records in a buffer, geometry, chunk and socket   *)
(* size.                                                                   *)
(***************************************************************************)
EXTENDS SocketTransmission, AcquisitionProofs

(* The client does not reconfigure while an acquisition is on, and nothing *)
(* but a send fails: the stand-in's calls do not.                          *)
Disciplined == Faults = {} /\ "setAll" \notin MidRun

(* What rx has taken from the stand-in, in buffers, and of the next one.   *)
Working == {"start", "loop", "pop", "empty", "check", "wait", "route", "queue",
            "process", "send1", "send2", "repost", "post", "count"}
HasBuffer == {"route", "queue", "process", "send1", "send2", "repost", "post", "count"}
Taken == IF rxpc \in HasBuffer THEN bufferCounter + 1 ELSE bufferCounter
Part == IF filling = NoBuffer THEN 0 ELSE written

(* The records of a buffer of the geometry in force, when there is one. *)
Records ==
  IF geometry = Unconfigured THEN 1 ELSE geometry.bufferLen \div geometry.recordLength
Written == IF filling # NoBuffer /\ written = Records THEN 1 ELSE 0

(* The stand-in writes only into the buffer rx waits for, counts what rx   *)
(* counts, and is not asked for more than the acquisition has.             *)
SimInv ==
  /\ filling \in Buffers \cup {NoBuffer}
  /\ written \in Nat /\ recordCounter \in Nat
  /\ nFilled = 0
  /\ filling # NoBuffer => rxpc = "wait" /\ filling = rxBuf /\ written <= Records
  /\ rxpc \in Working => /\ armed /\ captured = Taken + Written
                         /\ recordCounter = Records * Taken + Part
  /\ apc = "posting" \/ threadRunning => quota = geometry.nbrBuffers
  /\ apc = "posting" => recordCounter = 0 /\ captured = 0
  /\ rxpc \in {"pop", "empty", "check", "wait"} => bufferCounter < geometry.nbrBuffers

(* While an acquisition is on, the stand-in's record length is the         *)
(* geometry's, and so is the length of every buffer it was given.          *)
SizeInv ==
  /\ geometry \in Configs \cup {Unconfigured}
  /\ threadRunning \/ apc = "posting" =>
       /\ samplesPerRecord = geometry.recordLength
       /\ \A b \in Range(posted) : length[b] = geometry.bufferLen
       /\ filling # NoBuffer => length[filling] = geometry.bufferLen

(* Where rx is in the loop over the chunks, and on which channel a message *)
(* is on its way.                                                          *)
ChunkInv ==
  /\ step \in {"none", "look1", "size1", "data1", "look2", "size2", "data2"}
  /\ step \in {"look1", "size1", "data1"} => rxpc = "send1"
  /\ step \in {"look2", "size2", "data2"} =>
       rxpc = IF LastChunk THEN "send2" ELSE "send1"
  /\ rxpc = "send2" => step # "none"

RefInv == TypeInv /\ LifeInv /\ SimInv /\ SizeInv /\ ChunkInv
-----------------------------------------------------------------------------
(* Lemmas on the mapping. *)

LEMMA QuietBoard ==
  ASSUME UNCHANGED <<simVars, posted, length>>
  PROVE  UNCHANGED <<BoardFifo, BoardFilled>>
BY DEF simVars, BoardFifo, BoardFilled, RecordsPerBuffer, bufferLenBytes, LastPosted

(* The FIFO with the buffer that is being filled at its head. *)
LEMMA FillingIsHead ==
  ASSUME NEW f \in Buffers, NEW s \in Seq(Buffers)
  PROVE  /\ <<f>> \o s \in Seq(Buffers) /\ <<f>> \o s # <<>>
         /\ Head(<<f>> \o s) = f /\ Tail(<<f>> \o s) = s
         /\ Len(<<f>> \o s) = Len(s) + 1 /\ (<<f>> \o s)[1] = f
         /\ \A b \in Buffers : Append(<<f>> \o s, b) = <<f>> \o Append(s, b)
OBVIOUS

(* There is at least one record in a buffer. *)
LEMMA SomeRecords ==
  ASSUME SizeInv PROVE Records \in Nat \ {0}
<1>1. CASE geometry = Unconfigured BY <1>1 DEF Records
<1>2. CASE geometry # Unconfigured
  <2>1. geometry.bufferLen \in Nat /\ geometry.recordLength \in 1..geometry.bufferLen
    BY <1>2, ConfigsAssumption DEF SizeInv, Geometry
  <2>2. \A n \in Nat : \A k \in 1..n : n \div k \in Nat \ {0} OBVIOUS
  <2>3. QED BY <1>2, <2>1, <2>2 DEF Records
<1>3. QED BY <1>1, <1>2

(* What the stand-in reads in its loop is the geometry's, while it fills a *)
(* buffer of the acquisition.                                              *)
LEMMA RecordsAgree ==
  ASSUME TypeInv, SizeInv, threadRunning, filling # NoBuffer, geometry.nbrBuffers > 0
  PROVE  /\ RecordsPerBuffer = Records /\ samplesPerRecord = geometry.recordLength
         /\ samplesPerRecord # 0 /\ bufferLenBytes = geometry.bufferLen
<1>1. posted \in Seq(Buffers) BY DEF TypeInv, TypeOK, BoardTypeOK
<1>2. posted # <<>> => posted[Len(posted)] \in Range(posted)
  BY <1>1, LenProperties, EmptySeq DEF Range
<1>3. bufferLenBytes = geometry.bufferLen
  BY <1>2 DEF SizeInv, bufferLenBytes, LastPosted
<1>4. geometry # Unconfigured BY DEF Unconfigured
<1>5. geometry.recordLength \in 1..geometry.bufferLen
  BY <1>4, ConfigsAssumption DEF SizeInv
<1>6. QED BY <1>3, <1>4, <1>5 DEF SizeInv, RecordsPerBuffer, Records

(* Whole and partly written buffers. *)
LEMMA BuffersOfRecords ==
  ASSUME NEW n \in Nat \ {0}, NEW k \in Nat, NEW w \in Nat, w < n
  PROVE  /\ (n * k + w) \div n = k
         /\ n * (k + 1) = n * k + n
OBVIOUS

(* The definitions of Library that do not look at the board are Acquisition's. *)
LEMMA SameOperators ==
  /\ Library!PoolSize = PoolSize /\ Library!RoundFull = RoundFull
  /\ Library!EmptySlots = EmptySlots /\ Library!Blank = Blank
  /\ Library!NoRoom = NoRoom
  /\ \A s : Library!RoundOf(s) = RoundOf(s)
  /\ \A s, b : Library!Process(s, b) = Process(s, b)
BY DEF Library!PoolSize, PoolSize, Library!RoundFull, RoundFull, Library!EmptySlots,
       EmptySlots, Library!Blank, Blank, Library!NoRoom, NoRoom, Library!RoundOf, RoundOf,
       Library!Process, Process, Library!PartialIndex, PartialIndex, Library!SlotIndex, SlotIndex, Library!Slots, Slots,
       Library!NoData, NoData, Library!Torn, Torn, Library!SlotsPerRound, SlotsPerRound
-----------------------------------------------------------------------------
(* The board's calls, mapped. *)

LEMMA PostMaps ==
  ASSUME NEW b \in Buffers, TypeInv, SimInv, SizeInv, UNCHANGED simVars,
         PostAsyncBuffer(b, geometry.bufferLen), filling # NoBuffer => threadRunning
  PROVE  Library!PostAsyncBuffer(b, geometry.bufferLen)
<1>0. filling # NoBuffer => geometry.nbrBuffers > 0 /\ geometry # Unconfigured
  <2>1. bufferCounter \in Nat /\ geometry.nbrBuffers \in Nat
    BY DEF TypeInv, TypeOK, Geometry
  <2>2. QED BY <2>1 DEF SimInv, Unconfigured
<1>1. posted \in Seq(Buffers) /\ length \in [Buffers -> Nat]
  BY DEF TypeInv, TypeOK, BoardTypeOK
<1>2. BoardFifo' = Append(BoardFifo, b)
  BY <1>1, FillingIsHead DEF BoardFifo, SimInv, simVars, PostAsyncBuffer
<1>3. bufferLenBytes' = geometry.bufferLen
  <2>1. posted' # <<>> /\ posted'[Len(posted')] = b
    BY <1>1, AppendProperties DEF PostAsyncBuffer
  <2>2. length'[b] = geometry.bufferLen BY <1>1 DEF PostAsyncBuffer
  <2>3. QED BY <2>1, <2>2 DEF bufferLenBytes, LastPosted
<1>4. filling # NoBuffer => RecordsPerBuffer = Records /\ RecordsPerBuffer' = Records
  BY <1>0, <1>3, RecordsAgree DEF RecordsPerBuffer, Records, simVars
<1>5. BoardFilled' = BoardFilled BY <1>4 DEF BoardFilled, simVars
<1>6. UNCHANGED <<armed, captured, quota, content>> BY DEF PostAsyncBuffer
<1>7. QED BY <1>2, <1>5, <1>6 DEF PostAsyncBuffer, Library!PostAsyncBuffer

LEMMA AbortMaps ==
  ASSUME filling = NoBuffer, AbortAsyncRead, UNCHANGED simVars
  PROVE  Library!AbortAsyncRead
BY SameOperators
DEF AbortAsyncRead, Library!AbortAsyncRead, BoardFifo, BoardFilled, simVars

(* A board that is left alone is left alone. *)
LEMMA BoardStays ==
  ASSUME UNCHANGED <<boardVars, simVars>> PROVE UNCHANGED Library!boardVars
BY QuietBoard DEF boardVars, Library!boardVars
-----------------------------------------------------------------------------
(* The sizes of an acquisition stay what they were when it began.          *)

SameRun == threadRunning' \/ apc' = "posting" => threadRunning \/ apc = "posting"

LEMMA SizeKept ==
  ASSUME SizeInv, SameRun, Range(posted') \subseteq Range(posted),
         UNCHANGED <<length, filling, samplesPerRecord, geometry>>
  PROVE  SizeInv'
BY DEF SizeInv, SameRun

LEMMA SizePosted ==
  ASSUME TypeInv, SizeInv, SameRun, NEW b \in Buffers,
         PostAsyncBuffer(b, geometry.bufferLen),
         UNCHANGED <<filling, samplesPerRecord, geometry>>, filling \in Buffers \cup {NoBuffer}
  PROVE  SizeInv'
<1>1. Range(posted') = Range(posted) \cup {b} /\ Range(posted) \subseteq Buffers
  BY PostedAfterPost, RangeInSet DEF TypeInv, TypeOK, BoardTypeOK
<1>2. length \in [Buffers -> Nat] /\ length' = [length EXCEPT ![b] = geometry.bufferLen]
  BY DEF TypeInv, TypeOK, BoardTypeOK, PostAsyncBuffer
<1>3. ASSUME threadRunning \/ apc = "posting", NEW c \in Range(posted')
      PROVE  length'[c] = geometry.bufferLen
  BY <1>1, <1>2, <1>3 DEF SizeInv
<1>4. ASSUME threadRunning \/ apc = "posting", filling # NoBuffer
      PROVE  length'[filling] = geometry.bufferLen
  BY <1>2, <1>4 DEF SizeInv
<1>5. QED BY <1>3, <1>4 DEF SizeInv, SameRun

(* The library's own steps. *)
LEMMA SizeRx ==
  ASSUME TypeInv, LifeInv, SizeInv, UNCHANGED simVars, filling \in Buffers \cup {NoBuffer},
         filling # NoBuffer => rxpc = "wait",
         RxReady \/ RxLoop \/ RxPop \/ RxPopEmpty \/ RxCheckStop \/ RxRoute \/ RxQueue
           \/ RxProcess \/ RxRepost \/ RxPost \/ RxCount \/ RxAbort
  PROVE  SizeInv'
<1> USE DEF simVars, boardVars, flagVars, setupVars, apiVars
<1>1. UNCHANGED <<geometry, apc, threadRunning>> /\ SameRun
  BY DEF RxReady, RxLoop, RxPop, RxPopEmpty, RxCheckStop, RxRoute, RxQueue, RxProcess,
     RxRepost, RxPost, RxCount, RxAbort, SameRun
<1>2. CASE \/ RxReady \/ RxLoop \/ RxPop \/ RxPopEmpty \/ RxCheckStop \/ RxRoute
           \/ RxQueue \/ RxProcess \/ RxRepost \/ RxCount
  <2>1. UNCHANGED <<posted, length>>
    BY <1>2 DEF RxReady, RxLoop, RxPop, RxPopEmpty, RxCheckStop, RxRoute, RxQueue,
       RxProcess, RxRepost, RxCount
  <2>2. QED BY <1>1, <2>1, SizeKept
<1>3. CASE RxPost
  <2>1. rxBuf \in Buffers BY <1>3 DEF RxPost, TypeInv, HeldBuffers
  <2>2. CASE PostAsyncBuffer(rxBuf, geometry.bufferLen) BY <1>1, <2>1, <2>2, SizePosted
  <2>3. CASE UNCHANGED boardVars BY <1>1, <2>3, SizeKept
  <2>4. QED BY <1>3, <2>2, <2>3 DEF RxPost
<1>4. CASE RxAbort
  <2>1. CASE AbortAsyncRead
    <3>1. posted' = <<>> BY <2>1 DEF AbortAsyncRead
    <3>2. filling' = NoBuffer BY <1>4 DEF RxAbort
    <3>3. QED BY <1>1, <3>1, <3>2, RangeOfEmpty DEF SizeInv
  <2>2. CASE UNCHANGED boardVars BY <1>1, <2>2, SizeKept
  <2>3. QED BY <1>4, <2>1, <2>2 DEF RxAbort
<1>5. QED BY <1>2, <1>3, <1>4

LEMMA SizeApi ==
  ASSUME "setAll" \notin MidRun, TypeInv, LifeInv, SizeInv, UNCHANGED simVars,
         filling \in Buffers \cup {NoBuffer}, filling # NoBuffer => rxpc = "wait",
         \/ ApiStep \/ UnregisterSockets \/ WaitForAcquisition \/ Stop
         \/ (\E ch \in Channels : RegisterSocket(ch)) \/ \E c \in Configs : SetAll(c)
  PROVE  SizeInv'
<1> USE DEF simVars, boardVars, flagVars, setupVars
<1>1. ASSUME NEW b \in Buffers, PostInitial(b) PROVE SizeInv'
  <2>1. SameRun /\ geometry' = geometry BY <1>1 DEF PostInitial, SameRun
  <2>2. CASE PostAsyncBuffer(b, geometry.bufferLen) BY <2>1, <2>2, SizePosted
  <2>3. CASE UNCHANGED boardVars BY <2>1, <2>3, SizeKept
  <2>4. QED BY <1>1, <2>2, <2>3 DEF PostInitial
<1>2. CASE PostForApp
  <2>1. SameRun /\ geometry' = geometry /\ apiBuf \in Buffers
    BY <1>2 DEF PostForApp, SameRun, LifeInv, TypeInv, HeldBuffers
  <2>2. CASE PostAsyncBuffer(apiBuf, geometry.bufferLen) BY <2>1, <2>2, SizePosted
  <2>3. CASE UNCHANGED boardVars BY <2>1, <2>3, SizeKept
  <2>4. QED BY <1>2, <2>2, <2>3 DEF PostForApp
<1>3. CASE StartAcquire \/ AcquireReturn \/ ProcessForApp \/ PushForApp \/ JoinRx
  <2>1. UNCHANGED <<posted, length, geometry>>
    BY <1>3 DEF StartAcquire, StartCapture, AcquireReturn, ProcessForApp, PushForApp, JoinRx
  <2>2. SameRun
    BY <1>3 DEF StartAcquire, AcquireReturn, ProcessForApp, PushForApp, JoinRx, SameRun
  <2>3. QED BY <2>1, <2>2, SizeKept
<1>4. CASE AbortOnStop \/ ClearQueues
  <2>1. ~threadRunning' /\ apc' # "posting" /\ geometry' = geometry
    BY <1>4 DEF AbortOnStop, ClearQueues, LifeInv
  <2>2. QED BY <2>1 DEF SizeInv
<1>5. CASE \/ UnregisterSockets \/ WaitForAcquisition \/ Stop
           \/ \E ch \in Channels : RegisterSocket(ch)
  <2>1. UNCHANGED <<posted, length, geometry>> /\ SameRun
    BY <1>5 DEF UnregisterSockets, WaitForAcquisition, Stop, RegisterSocket, SameRun, apiVars
  <2>2. QED BY <2>1, SizeKept
<1>6. ASSUME NEW c \in Configs, SetAll(c) PROVE SizeInv'
  <2>1. ~threadRunning' /\ apc' # "posting" /\ geometry' = c BY <1>6 DEF SetAll, apiVars
  <2>2. QED BY <2>1 DEF SizeInv
<1>7. QED BY <1>1, <1>2, <1>3, <1>4, <1>5, <1>6 DEF ApiStep

LEMMA SizeAcquire ==
  ASSUME LifeInv, SizeInv, SimAcquire, filling # NoBuffer => rxpc = "wait"
  PROVE  SizeInv'
<1>1. /\ apc = "idle" /\ ~threadRunning /\ samplesPerRecord' = geometry.recordLength
      /\ UNCHANGED <<posted, filling, geometry>>
  BY DEF SimAcquire, setupVars
<1>2. posted = <<>> /\ filling = NoBuffer BY <1>1 DEF LifeInv
<1>3. QED BY <1>1, <1>2, RangeOfEmpty DEF SizeInv

LEMMA SizeWait ==
  ASSUME TypeInv, LifeInv, SizeInv, SimWait PROVE SizeInv'
<1> USE DEF boardVars, flagVars, setupVars, apiVars
<1>1. UNCHANGED <<length, samplesPerRecord, geometry, apc, threadRunning>> /\ SameRun
  BY DEF SimWait, SimDequeue, SimRecord, SimSuccess, SameRun
<1>2. CASE SimDequeue
  <2>1. posted \in Seq(Buffers) /\ posted # <<>> /\ posted' = Tail(posted)
    BY <1>2 DEF SimDequeue, TypeInv, TypeOK, BoardTypeOK
  <2>2. Range(posted) = Range(posted') \cup {Head(posted)} BY <2>1, RangeOfPop
  <2>3. threadRunning BY <1>2 DEF SimDequeue, LifeInv
  <2>4. filling' = NoBuffer \/ filling' = Head(posted) BY <1>2 DEF SimDequeue
  <2>5. QED BY <1>1, <2>2, <2>3, <2>4 DEF SizeInv
<1>3. CASE SimRecord BY <1>1, <1>3, SizeKept DEF SimRecord
<1>4. CASE SimSuccess BY <1>1, <1>4 DEF SimSuccess, SizeInv
<1>5. QED BY <1>2, <1>3, <1>4 DEF SimWait
-----------------------------------------------------------------------------
(* The steps of rx outside its wait and its sends. *)

LEMMA RxMaps ==
  ASSUME Disciplined, RefInv, Quiet,
         RxReady \/ RxLoop \/ RxPop \/ RxPopEmpty \/ RxCheckStop \/ RxRoute \/ RxQueue
           \/ RxProcess \/ RxRepost \/ RxPost \/ RxCount \/ RxAbort
  PROVE  Library!Rx
<1> USE DEF flagVars, queueVars, setupVars, rxVars, apiVars, outVars,
            Library!flagVars, Library!queueVars, Library!setupVars, Library!rxVars,
            Library!apiVars, Library!outVars, RxGoto, RxReturn, Library!RxGoto,
            Library!RxReturn, Quiet, Push, Library!Push, Enqueue, Library!Enqueue
<1>1. CASE RxReady
  BY <1>1, BoardStays DEF RxReady, Library!RxReady, Library!Rx
<1>2. CASE RxLoop
  BY <1>2, BoardStays DEF RxLoop, Library!RxLoop, Library!Rx
<1>3. CASE RxPop
  BY <1>3, BoardStays DEF RxPop, Library!RxPop, Library!Rx
<1>4. CASE RxPopEmpty
  BY <1>4, BoardStays DEF RxPopEmpty, Library!RxPopEmpty, Library!Rx
<1>5. CASE RxCheckStop
  BY <1>5, BoardStays DEF RxCheckStop, Library!RxCheckStop, Library!Rx
<1>6. CASE RxRoute
  BY <1>6, BoardStays DEF RxRoute, Library!RxRoute, Library!Rx
<1>7. CASE RxQueue
  BY <1>7, BoardStays DEF RxQueue, Library!RxQueue, Library!Rx
<1>8. CASE RxProcess
  BY <1>8, BoardStays, SameOperators DEF RxProcess, Library!RxProcess, Library!Rx
<1>9. CASE RxRepost
  BY <1>9, BoardStays DEF RxRepost, Library!RxRepost, Library!Rx
<1>10. CASE RxPost
  <2>1. rxBuf \in Buffers BY <1>10 DEF RxPost, RefInv, TypeInv, HeldBuffers
  <2>2. PostAsyncBuffer(rxBuf, geometry.bufferLen) BY <1>10 DEF RxPost, Disciplined
  <2>3. Library!PostAsyncBuffer(rxBuf, geometry.bufferLen)
    <3>1. filling = NoBuffer BY <1>10 DEF RxPost, RefInv, SimInv
    <3>2. QED BY <2>1, <2>2, <3>1, PostMaps DEF RefInv
  <2>4. QED BY <1>10, <2>3 DEF RxPost, Disciplined, Library!RxPost, Library!Rx
<1>11. CASE RxCount
  BY <1>11, BoardStays DEF RxCount, Library!RxCount, Library!Rx
<1>12. CASE RxAbort
  <2>1. filling = NoBuffer BY <1>12 DEF RxAbort, RefInv, SimInv
  <2>2. AbortAsyncRead BY <1>12 DEF RxAbort, Disciplined
  <2>3. Library!AbortAsyncRead BY <2>1, <2>2, AbortMaps
  <2>4. QED BY <1>12, <2>3 DEF RxAbort, Library!RxAbort, Library!Rx
<1>13. QED
  BY <1>1, <1>2, <1>3, <1>4, <1>5, <1>6, <1>7, <1>8, <1>9, <1>10, <1>11, <1>12

LEMMA RxKeepsSim ==
  ASSUME Disciplined, RefInv, Quiet,
         RxReady \/ RxLoop \/ RxPop \/ RxPopEmpty \/ RxCheckStop \/ RxRoute \/ RxQueue
           \/ RxProcess \/ RxRepost \/ RxPost \/ RxCount \/ RxAbort
  PROVE  RefInv'
<1> USE DEF RefInv, flagVars, queueVars, setupVars, rxVars, apiVars, outVars, boardVars,
            simVars, sendVars, RxGoto, RxReturn, Quiet
<1>1. Rx /\ Next BY DEF Rx, Next
<1>2. TypeInv' /\ LifeInv' /\ SizeInv'
  BY <1>1, RxType, LifeStep, SizeRx DEF Disciplined, SimInv
<1>3. bufferCounter \in Nat BY DEF TypeInv, TypeOK
<1> USE DEF SimInv, ChunkInv, LastChunk, Working, HasBuffer, Taken, Part, Written
<1>r. UNCHANGED geometry
  BY DEF RxReady, RxLoop, RxPop, RxPopEmpty, RxCheckStop, RxRoute, RxQueue, RxProcess,
     RxRepost, RxPost, RxCount, RxAbort
<1>s. Records' = Records /\ Records \in Nat BY <1>r, SomeRecords DEF Records
<1>4. CASE RxReady BY <1>2, <1>3, <1>s, <1>4 DEF RxReady
<1>5. CASE RxLoop BY <1>2, <1>3, <1>s, <1>5 DEF RxLoop
<1>6. CASE RxPop BY <1>2, <1>3, <1>s, <1>6 DEF RxPop
<1>7. CASE RxPopEmpty BY <1>2, <1>3, <1>s, <1>7 DEF RxPopEmpty
<1>8. CASE RxCheckStop BY <1>2, <1>3, <1>s, <1>8 DEF RxCheckStop
<1>9. CASE RxRoute BY <1>2, <1>3, <1>s, <1>9 DEF RxRoute
<1>10. CASE RxQueue BY <1>2, <1>3, <1>s, <1>10 DEF RxQueue
<1>11. CASE RxProcess BY <1>2, <1>3, <1>s, <1>11 DEF RxProcess
<1>12. CASE RxRepost BY <1>2, <1>3, <1>s, <1>12 DEF RxRepost
<1>13. CASE RxPost BY <1>2, <1>3, <1>s, <1>13 DEF RxPost, PostAsyncBuffer
<1>14. CASE RxCount BY <1>2, <1>3, <1>s, <1>14 DEF RxCount
<1>15. CASE RxAbort BY <1>2, <1>3, <1>s, <1>15 DEF RxAbort, AbortAsyncRead
<1>16. QED
  BY <1>2, <1>4, <1>5, <1>6, <1>7, <1>8, <1>9, <1>10, <1>11, <1>12, <1>13, <1>14, <1>15
-----------------------------------------------------------------------------
(* The calls of the client, and their insides. *)

LEMMA ApiMaps ==
  ASSUME Disciplined, RefInv, UNCHANGED <<simVars, sendVars>>,
         \/ \E b \in Buffers : PostInitial(b)
         \/ StartAcquire \/ AcquireReturn \/ ProcessForApp \/ PushForApp \/ PostForApp
         \/ JoinRx \/ AbortOnStop \/ ClearQueues
  PROVE  Library!ApiStep
<1> USE DEF flagVars, queueVars, setupVars, rxVars, apiVars, outVars,
            Library!flagVars, Library!queueVars, Library!setupVars, Library!rxVars,
            Library!apiVars, Library!outVars, Push, Library!Push, Enqueue, Library!Enqueue,
            Library!ApiStep
<1>1. ASSUME NEW b \in Buffers, PostInitial(b) PROVE Library!PostInitial(b)
  <2>1. PostAsyncBuffer(b, geometry.bufferLen) BY <1>1 DEF PostInitial, Disciplined
  <2>2. filling = NoBuffer BY <1>1 DEF PostInitial, RefInv, LifeInv, SimInv
  <2>a. Library!PostAsyncBuffer(b, geometry.bufferLen) BY <2>1, <2>2, PostMaps DEF RefInv
  <2>3. QED
    BY <1>1, <2>a, SameOperators DEF PostInitial, Library!PostInitial, Fresh, Library!Fresh
<1>2. CASE StartAcquire
  <2>1. StartCapture /\ UNCHANGED <<posted, length>>
    BY <1>2 DEF StartAcquire, StartCapture, Disciplined
  <2>2. Library!StartCapture
    BY <2>1, QuietBoard DEF StartCapture, Library!StartCapture
  <2>3. NoData = Library!NoData /\ Channels = Library!Channels
    BY DEF NoData, Library!NoData, Channels, Library!Channels
  <2>4. QED BY <1>2, <2>2, <2>3, SameOperators DEF StartAcquire, Library!StartAcquire
<1>3. CASE AcquireReturn
  BY <1>3, BoardStays DEF AcquireReturn, Library!AcquireReturn
<1>4. CASE ProcessForApp
  BY <1>4, BoardStays, SameOperators DEF ProcessForApp, Library!ProcessForApp
<1>5. CASE PushForApp BY <1>5, BoardStays DEF PushForApp, Library!PushForApp
<1>6. CASE PostForApp
  <2>1. apiBuf \in Buffers BY <1>6 DEF PostForApp, RefInv, TypeInv, HeldBuffers
  <2>2. PostAsyncBuffer(apiBuf, geometry.bufferLen) BY <1>6 DEF PostForApp, Disciplined
  <2>3. Library!PostAsyncBuffer(apiBuf, geometry.bufferLen)
    <3>1. threadRunning BY <1>6 DEF PostForApp, RefInv, LifeInv
    <3>2. QED BY <2>1, <2>2, <3>1, PostMaps DEF RefInv
  <2>4. QED
    BY <1>6, <2>3, SameOperators DEF PostForApp, Disciplined, Library!PostForApp
<1>7. CASE JoinRx
  BY <1>7, BoardStays DEF JoinRx, Library!JoinRx, RxReturned, Library!RxReturned
<1>8. CASE AbortOnStop
  <2>1. filling = NoBuffer BY <1>8 DEF AbortOnStop, RefInv, SimInv, LifeInv
  <2>2. AbortAsyncRead BY <1>8 DEF AbortOnStop, Disciplined
  <2>3. Library!AbortAsyncRead BY <2>1, <2>2, AbortMaps
  <2>4. QED BY <1>8, <2>3 DEF AbortOnStop, Library!AbortOnStop
<1>9. CASE ClearQueues
  <2>1. UNCHANGED <<posted, length>> BY <1>9 DEF ClearQueues
  <2>2. UNCHANGED <<BoardFifo, BoardFilled>> BY <2>1, QuietBoard
  <2>3. QED BY <1>9, <2>2, SameOperators DEF ClearQueues, Library!ClearQueues
<1>10. QED
  BY <1>1, <1>2, <1>3, <1>4, <1>5, <1>6, <1>7, <1>8, <1>9

LEMMA ApiKeepsSim ==
  ASSUME Disciplined, RefInv, UNCHANGED <<simVars, sendVars>>,
         \/ \E b \in Buffers : PostInitial(b)
         \/ StartAcquire \/ AcquireReturn \/ ProcessForApp \/ PushForApp \/ PostForApp
         \/ JoinRx \/ AbortOnStop \/ ClearQueues
  PROVE  RefInv'
<1>1. ApiStep /\ Next BY DEF ApiStep, Next
<1>2. TypeInv' /\ LifeInv' /\ SizeInv'
  BY <1>1, ApiStepType, LifeStep, SizeApi DEF Disciplined, RefInv, SimInv
<1>3. bufferCounter \in Nat /\ captured \in Nat /\ LifeInv /\ SimInv /\ ChunkInv
  BY DEF RefInv, TypeInv, TypeOK, BoardTypeOK
<1> USE DEF flagVars, queueVars, setupVars, rxVars, apiVars, outVars, boardVars,
            simVars, sendVars, RefInv, SimInv, ChunkInv, LastChunk, Working, HasBuffer,
            Taken, Part, Written
<1>r. UNCHANGED geometry
  BY DEF PostInitial, StartAcquire, AcquireReturn, ProcessForApp, PushForApp, PostForApp,
     JoinRx, AbortOnStop, ClearQueues
<1>s. Records' = Records /\ Records \in Nat BY <1>r, SomeRecords DEF Records
<1>4. ASSUME NEW b \in Buffers, PostInitial(b) PROVE SimInv' /\ ChunkInv'
  BY <1>2, <1>3, <1>s, <1>4 DEF PostInitial, PostAsyncBuffer
<1>5. CASE StartAcquire
  <2>1. /\ rxpc = "none" /\ ~threadRunning /\ filling = NoBuffer /\ recordCounter = 0
        /\ captured = 0
    BY <1>2, <1>3, <1>s, <1>5 DEF StartAcquire, LifeInv
  <2>2. Records * 0 + 0 = 0
    <3>1. Records \in Nat BY SomeRecords DEF RefInv
    <3>2. QED BY <3>1
  <2>3. QED BY <1>2, <1>3, <1>s, <1>5, <2>1, <2>2 DEF StartAcquire, StartCapture, Disciplined
<1>6. CASE AcquireReturn BY <1>2, <1>3, <1>s, <1>6 DEF AcquireReturn
<1>7. CASE ProcessForApp BY <1>2, <1>3, <1>s, <1>7 DEF ProcessForApp
<1>8. CASE PushForApp BY <1>2, <1>3, <1>s, <1>8 DEF PushForApp, Enqueue
<1>9. CASE PostForApp BY <1>2, <1>3, <1>s, <1>9 DEF PostForApp, PostAsyncBuffer
<1>10. CASE JoinRx BY <1>2, <1>3, <1>s, <1>10 DEF JoinRx, RxReturned
<1>11. CASE AbortOnStop BY <1>2, <1>3, <1>s, <1>11 DEF AbortOnStop, AbortAsyncRead, LifeInv
<1>12. CASE ClearQueues BY <1>2, <1>3, <1>s, <1>12 DEF ClearQueues, LifeInv
<1>13. QED
  BY <1>2, <1>4, <1>5, <1>6, <1>7, <1>8, <1>9, <1>10, <1>11, <1>12

(* acquire on the stand-in. *)
LEMMA BeginMaps ==
  ASSUME Disciplined, RefInv, Begin
  PROVE  RefInv' /\ Library!ApiCall
<1> USE DEF flagVars, queueVars, setupVars, rxVars, apiVars, outVars, boardVars, simVars,
            sendVars
<1>1. /\ apc = "idle" /\ ~threadRunning /\ apc' = "posting" /\ apiCount' = 0
      /\ recordCounter' = 0 /\ quota' = geometry.nbrBuffers /\ captured' = 0
      /\ UNCHANGED <<posted, nFilled, armed, content, length, filling, written,
                     flagVars, queueVars, bufferCounter, setupVars, rxVars, apiBuf,
                     apiFull, outVars, sendVars>>
  BY DEF Begin, SimAcquire
<1>2. rxpc = "none" /\ posted = <<>> /\ dataQ = <<>> /\ filling = NoBuffer
  BY <1>1 DEF RefInv, LifeInv, SimInv
<1>3. TypeInv'
  BY <1>1 DEF RefInv, TypeInv, TypeOK, BoardTypeOK, HeldBuffers, Geometry
<1>4. LifeInv' BY <1>1, <1>2 DEF RefInv, LifeInv
<1>5. SimInv' /\ ChunkInv'
  BY <1>1, <1>2 DEF RefInv, SimInv, ChunkInv, LastChunk, Working
<1>6. SizeInv' BY <1>2, SizeAcquire DEF Begin, RefInv
<1>7. BoardFifo = <<>> /\ BoardFifo' = <<>> /\ UNCHANGED BoardFilled
  BY <1>1, <1>2 DEF BoardFifo, BoardFilled
<1>8. Library!BeforeAsyncRead(geometry.nbrBuffers)
  BY <1>1, <1>7 DEF Library!BeforeAsyncRead
<1>9. Library!Acquire
  BY <1>1, <1>8 DEF Library!Acquire, Library!flagVars, Library!queueVars,
     Library!setupVars, Library!rxVars, Library!outVars
<1>10. QED BY <1>3, <1>4, <1>5, <1>6, <1>9 DEF RefInv, Library!ApiCall

LEMMA CallMaps ==
  ASSUME Disciplined, RefInv, UNCHANGED <<simVars, sendVars>>,
         \/ \E c \in Configs : SetAll(c)
         \/ \E ch \in Channels : RegisterSocket(ch)
         \/ UnregisterSockets \/ WaitForAcquisition \/ Stop
  PROVE  RefInv' /\ Library!ApiCall
<1> USE DEF flagVars, queueVars, setupVars, rxVars, apiVars, outVars,
            Library!flagVars, Library!queueVars, Library!setupVars, Library!rxVars,
            Library!apiVars, Library!outVars
<1>1. ApiCall /\ Next BY DEF ApiCall, Next
<1>2. TypeInv' /\ LifeInv' /\ SizeInv'
  BY <1>1, ApiCallType, LifeStep, SizeApi DEF Disciplined, RefInv, SimInv
<1>3. SimInv /\ ChunkInv /\ LifeInv BY DEF RefInv
<1> DEFINE Kept == SimInv' /\ ChunkInv'
<1>4. ASSUME NEW c \in Configs, SetAll(c) PROVE Kept /\ Library!SetAll(c)
  <2>1. Library!SetAll(c) BY <1>4, BoardStays DEF SetAll, Library!SetAll
  <2>2. ~threadRunning /\ apc = "idle" /\ rxpc = "none"
    BY <1>3, <1>4 DEF SetAll, Disciplined, LifeInv
  <2>3. Kept
    BY <1>3, <1>4, <2>2 DEF SetAll, SimInv, ChunkInv, LastChunk, Working, boardVars,
       simVars, sendVars
  <2>4. QED BY <2>1, <2>3
<1> USE DEF SimInv, ChunkInv, LastChunk, Working, HasBuffer, Taken, Part, Written, Records,
            simVars, sendVars, boardVars
<1>5. ASSUME NEW ch \in Channels, RegisterSocket(ch)
      PROVE  Kept /\ Library!RegisterSocket(ch)
  <2>1. Library!RegisterSocket(ch)
    BY <1>5, BoardStays DEF RegisterSocket, Library!RegisterSocket
  <2>2. Kept BY <1>3, <1>5 DEF RegisterSocket
  <2>3. QED BY <2>1, <2>2
<1>6. CASE UnregisterSockets
  <2>1. Library!UnregisterSockets
    BY <1>6, BoardStays DEF UnregisterSockets, Library!UnregisterSockets
  <2>2. Kept BY <1>3, <1>6 DEF UnregisterSockets
  <2>3. QED BY <1>2, <2>1, <2>2 DEF RefInv, Library!ApiCall
<1>7. CASE WaitForAcquisition
  <2>1. Library!WaitForAcquisition
    BY <1>7, BoardStays DEF WaitForAcquisition, Library!WaitForAcquisition
  <2>2. Kept BY <1>3, <1>7 DEF WaitForAcquisition
  <2>3. QED BY <1>2, <2>1, <2>2 DEF RefInv, Library!ApiCall
<1>8. CASE Stop
  <2>1. Library!Stop BY <1>8, BoardStays DEF Stop, Library!Stop
  <2>2. Kept BY <1>3, <1>8 DEF Stop
  <2>3. QED BY <1>2, <2>1, <2>2 DEF RefInv, Library!ApiCall
<1>9. Channels = Library!Channels BY DEF Channels, Library!Channels
<1>10. QED
  BY <1>2, <1>4, <1>5, <1>6, <1>7, <1>8, <1>9 DEF RefInv, Library!ApiCall
-----------------------------------------------------------------------------
(* The stand-in's wait. *)

LEMMA DequeueMaps ==
  ASSUME RefInv, SimDequeue, UNCHANGED sendVars
  PROVE  RefInv' /\ (Library!RxWait \/ UNCHANGED Library!vars)
<1> USE DEF flagVars, queueVars, setupVars, rxVars, apiVars, outVars, sendVars, RxReturn
<1>1. /\ posted \in Seq(Buffers) /\ posted # <<>> /\ filling = NoBuffer
      /\ rxpc = "wait" /\ rxBuf \in Buffers /\ rxBuf # NoBuffer
      /\ threadRunning /\ bufferCounter \in Nat /\ geometry.nbrBuffers > 0
  BY NoBufferAssumption
  DEF RefInv, SimInv, LifeInv, Geometry, TypeInv, TypeOK, BoardTypeOK, HeldBuffers, SimDequeue
<1>2. Head(posted) \in Buffers /\ Tail(posted) \in Seq(Buffers)
  BY <1>1, RangeOfPop
<1>3. /\ posted' = Tail(posted)
      /\ UNCHANGED <<nFilled, armed, captured, quota, content, length, recordCounter,
                     samplesPerRecord, geometry, threadRunning, bufferCounter>>
  BY DEF SimDequeue
<1>4. Len(posted') \in Nat BY <1>2, <1>3, LenProperties
<1>5. TypeInv'
  <2>1. nFilled = 0 /\ TypeInv BY DEF RefInv, SimInv
  <2>2. BoardTypeOK'
    <3>1. posted' \in Seq(Buffers) /\ nFilled' \in 0..Len(posted')
      BY <1>2, <1>3, <1>4, <2>1
    <3>2. BoardTypeOK BY <2>1 DEF TypeInv, TypeOK
    <3>3. UNCHANGED <<armed, captured, quota, content, length>> BY <1>3
    <3>4. QED BY ONLY <3>1, <3>2, <3>3 DEF BoardTypeOK
  <2>3. QED
    BY <1>1, <1>3, <2>1, <2>2 DEF TypeInv, TypeOK, HeldBuffers, SimDequeue
<1>6. LifeInv' BY <1>1 DEF RefInv, LifeInv, SimDequeue
<1>7. BoardFifo = posted /\ BoardFilled = 0 BY <1>1 DEF BoardFifo, BoardFilled
<1>8. Records' = Records /\ Records \in Nat \ {0}
  BY <1>3, SomeRecords DEF Records, RefInv
<1>s. SizeInv' BY SizeWait DEF SimWait, RefInv
<1>9. CASE Head(posted) = rxBuf
  <2>1. filling' = rxBuf /\ written' = 0 /\ UNCHANGED rxVars BY <1>9 DEF SimDequeue
  <2>2. BoardFilled' = 0
    <3>1. RecordsPerBuffer' = Records
      <4>1. Range(posted) = Range(posted') \cup {rxBuf} /\ posted' \in Seq(Buffers)
        BY <1>1, <1>2, <1>3, <1>9, RangeOfPop
      <4>2. LastPosted' = rxBuf \/ LastPosted' \in Range(posted')
        BY <2>1, <4>1, LenProperties, EmptySeq DEF LastPosted, Range
      <4>3. length[LastPosted'] = geometry.bufferLen
        BY <1>1, <4>1, <4>2 DEF RefInv, SizeInv
      <4>4. geometry # Unconfigured /\ samplesPerRecord = geometry.recordLength
        BY <1>1 DEF Unconfigured, RefInv, SizeInv
      <4>5. QED
        BY <1>3, <4>3, <4>4 DEF RecordsPerBuffer, bufferLenBytes, Records
    <3>2. QED BY <1>8, <2>1, <3>1 DEF BoardFilled
  <2>3. BoardFifo' = posted BY <1>1, <1>3, <1>9, <2>1 DEF BoardFifo
  <2>4. SimInv' /\ ChunkInv'
    BY <1>1, <1>3, <1>8, <2>1
    DEF RefInv, SimInv, ChunkInv, LastChunk, Working, HasBuffer, Taken, Part, Written,
        SimDequeue, TypeInv, TypeOK, BoardTypeOK
  <2>5. UNCHANGED Library!vars
    BY <1>3, <1>7, <2>1, <2>2, <2>3
    DEF SimDequeue, Library!vars, Library!boardVars, Library!flagVars, Library!queueVars,
        Library!setupVars, Library!rxVars, Library!apiVars, Library!outVars
  <2>6. QED BY <1>5, <1>6, <1>s, <2>4, <2>5 DEF RefInv
<1>10. CASE Head(posted) # rxBuf
  <2>1. RxReturn("failed") /\ UNCHANGED <<filling, written>> BY <1>10 DEF SimDequeue
  <2>2. BoardFifo' = Tail(posted) /\ BoardFilled' = 0
    BY <1>1, <1>3, <2>1 DEF BoardFifo, BoardFilled
  <2>3. SimInv' /\ ChunkInv'
    BY <1>1, <1>3, <1>8, <2>1
    DEF RefInv, SimInv, ChunkInv, LastChunk, Working, HasBuffer, Taken, Part, Written,
        SimDequeue, TypeInv, TypeOK
  <2>4. Library!WaitInvalid(rxBuf)
    BY <1>1, <1>3, <1>7, <1>10, <2>2 DEF Library!WaitInvalid
  <2>5. Library!RxWait
    BY <1>1, <2>1, <2>4
    DEF SimDequeue, Library!RxWait, Library!RxReturn, Library!flagVars, Library!queueVars,
        Library!setupVars, Library!apiVars, Library!outVars
  <2>6. QED BY <1>5, <1>6, <1>s, <2>3, <2>5 DEF RefInv
<1>11. QED BY <1>9, <1>10

LEMMA RecordMaps ==
  ASSUME RefInv, SimRecord, UNCHANGED sendVars
  PROVE  RefInv' /\ (Library!BoardStep \/ UNCHANGED Library!vars)
<1> USE DEF flagVars, queueVars, setupVars, rxVars, apiVars, outVars, sendVars
<1>1. /\ filling \in Buffers /\ filling = rxBuf /\ rxpc = "wait" /\ filling # NoBuffer
      /\ posted \in Seq(Buffers) /\ bufferCounter \in Nat /\ written \in Nat
      /\ threadRunning /\ geometry.nbrBuffers > 0 /\ captured \in Nat
  BY DEF RefInv, TypeInv, TypeOK, BoardTypeOK, SimInv, SimRecord, LifeInv, Geometry
<1>r. RecordsPerBuffer = Records /\ Records \in Nat \ {0}
  BY <1>1, RecordsAgree, SomeRecords DEF RefInv
<1>c. /\ written < Records /\ recordCounter \in Nat /\ armed /\ captured = bufferCounter
      /\ recordCounter = Records * bufferCounter + written
  BY <1>1, <1>r DEF RefInv, SimInv, SimRecord, Working, HasBuffer, Taken, Part, Written
<1>2. /\ written' = written + 1 /\ recordCounter' = recordCounter + 1
      /\ UNCHANGED <<posted, nFilled, armed, quota, length, filling, samplesPerRecord,
                     flagVars, queueVars, bufferCounter, setupVars, rxVars, apiVars, outVars>>
  BY DEF SimRecord
<1>3. recordCounter \div Records = bufferCounter
  BY <1>1, <1>c, <1>r, BuffersOfRecords
<1>a. /\ RecordsPerBuffer' = Records /\ Records' = Records
  BY <1>2, <1>r DEF RecordsPerBuffer, bufferLenBytes, LastPosted, Records
<1>n. IF written' < Records THEN UNCHANGED <<content, captured>>
      ELSE /\ content' = [content EXCEPT ![filling] = bufferCounter]
           /\ captured' = captured + 1
  BY <1>3, <1>a, <1>r DEF SimRecord
<1>4. content' \in [Buffers -> Nat \cup {NoData}] /\ captured' \in Nat
  <2>1. content \in [Buffers -> Nat \cup {NoData}] BY DEF RefInv, TypeInv, TypeOK, BoardTypeOK
  <2>2. \/ UNCHANGED <<content, captured>>
        \/ /\ content' = [content EXCEPT ![filling] = bufferCounter]
           /\ captured' = captured + 1
    BY <1>n
  <2>3. QED BY ONLY <1>1, <2>1, <2>2
<1>5. TypeInv'
  BY <1>2, <1>4 DEF RefInv, TypeInv, TypeOK, BoardTypeOK, HeldBuffers
<1>6. LifeInv' BY <1>2 DEF RefInv, LifeInv
<1>7. Records * bufferCounter \in Nat BY <1>1, <1>r
<1>8. SimInv' /\ ChunkInv'
  <2>1. Taken' = bufferCounter /\ Part' = written'
    BY <1>1, <1>2 DEF Taken, Part, HasBuffer
  <2>2. recordCounter' = Records' * Taken' + Part'
    BY <1>1, <1>2, <1>7, <1>a, <1>c, <2>1
  <2>3. written' \in Nat /\ written' <= Records' /\ recordCounter' \in Nat
    BY <1>1, <1>2, <1>a, <1>c, <1>r
  <2>4. captured' = Taken' + Written'
    BY <1>1, <1>2, <1>a, <1>c, <1>n, <1>r, <2>1 DEF Written
  <2>5. QED
    BY <1>1, <1>2, <1>c, <2>2, <2>3, <2>4 DEF RefInv, SimInv, ChunkInv, LastChunk, LifeInv
<1>s. SizeInv' BY SizeWait DEF SimWait, RefInv
<1>9. BoardFilled = 0 /\ UNCHANGED BoardFifo
  BY <1>1, <1>2, <1>c, <1>r DEF BoardFilled, BoardFifo
<1>10. CASE written' < Records
  <2>1. BoardFilled' = 0 BY <1>1, <1>2, <1>10, <1>a, <1>r DEF BoardFilled
  <2>2. UNCHANGED <<content, captured>> BY <1>10, <1>n
  <2>3. UNCHANGED Library!vars
    BY <1>2, <1>9, <2>1, <2>2
    DEF Library!vars, Library!boardVars, Library!flagVars, Library!queueVars,
        Library!setupVars, Library!rxVars, Library!apiVars, Library!outVars
  <2>4. QED BY <1>5, <1>6, <1>8, <1>s, <2>3 DEF RefInv
<1>11. CASE ~(written' < Records)
  <2>1. BoardFilled' = 1 BY <1>1, <1>2, <1>11, <1>a, <1>r DEF BoardFilled
  <2>2. content' = [content EXCEPT ![filling] = captured] /\ captured' = captured + 1
    BY <1>11, <1>c, <1>n
  <2>3. Len(BoardFifo) = Len(posted) + 1 /\ BoardFifo[1] = filling /\ Len(posted) \in Nat
    BY <1>1, FillingIsHead, LenProperties DEF BoardFifo
  <2>4. captured < quota
    BY <1>1, <1>c DEF RefInv, SimInv, LifeInv
  <2>5. BoardFilled < Len(BoardFifo) /\ BoardFifo[BoardFilled + 1] = filling
    BY <1>9, <2>3
  <2>6. Library!DMA
    BY <1>2, <1>9, <1>c, <2>1, <2>2, <2>4, <2>5 DEF Library!DMA
  <2>7. Library!BoardStep
    BY <1>2, <2>6 DEF Library!BoardStep, Library!flagVars, Library!queueVars,
       Library!setupVars, Library!rxVars, Library!apiVars, Library!outVars
  <2>8. QED BY <1>5, <1>6, <1>8, <1>s, <2>7 DEF RefInv
<1>12. QED BY <1>10, <1>11

LEMMA SuccessMaps ==
  ASSUME RefInv, SimSuccess, UNCHANGED sendVars
  PROVE  RefInv' /\ Library!RxWait
<1> USE DEF flagVars, queueVars, setupVars, rxVars, apiVars, outVars, sendVars, RxGoto
<1>1. /\ filling \in Buffers /\ filling = rxBuf /\ rxpc = "wait" /\ filling # NoBuffer
      /\ posted \in Seq(Buffers) /\ bufferCounter \in Nat /\ written \in Nat
      /\ threadRunning /\ geometry.nbrBuffers > 0 /\ captured \in Nat
  BY DEF RefInv, TypeInv, TypeOK, BoardTypeOK, SimInv, SimSuccess, LifeInv, Geometry
<1>r. RecordsPerBuffer = Records /\ Records \in Nat \ {0}
  BY <1>1, RecordsAgree, SomeRecords DEF RefInv
<1>c. /\ written = Records /\ armed /\ captured = bufferCounter + 1
      /\ recordCounter = Records * bufferCounter + Records
  BY <1>1, <1>r DEF RefInv, SimInv, SimSuccess, Working, HasBuffer, Taken, Part, Written
<1>2. /\ filling' = NoBuffer /\ written' = 0 /\ rxpc' = "route"
      /\ UNCHANGED <<boardVars, recordCounter, samplesPerRecord, flagVars, queueVars,
                     bufferCounter, setupVars, rxBuf, apiVars, outVars>>
  BY DEF SimSuccess
<1>3. TypeInv'
  BY <1>1, <1>2 DEF RefInv, TypeInv, TypeOK, BoardTypeOK, HeldBuffers, boardVars
<1>4. LifeInv' BY <1>1, <1>2 DEF RefInv, LifeInv, boardVars
<1>5. Records * (bufferCounter + 1) + 0 = recordCounter /\ Records' = Records
  <2>1. Records' = Records BY <1>2 DEF Records
  <2>2. 0 < Records BY <1>r
  <2>3. Records * (bufferCounter + 1) = Records * bufferCounter + Records
    BY <1>1, <1>r, <2>2, BuffersOfRecords
  <2>4. Records * bufferCounter \in Nat BY <1>1, <1>r
  <2>5. QED BY <1>c, <1>r, <2>1, <2>3, <2>4
<1>6. SimInv' /\ ChunkInv'
  BY <1>1, <1>2, <1>5, <1>c, <1>r
  DEF RefInv, SimInv, ChunkInv, LastChunk, Working, HasBuffer, Taken, Part, Written, boardVars
<1>s. SizeInv' BY SizeWait DEF SimWait, RefInv
<1>7. BoardFilled = 1 /\ BoardFilled' = 0
  BY <1>1, <1>2, <1>c, <1>r DEF BoardFilled
<1>8. BoardFifo = <<rxBuf>> \o posted /\ BoardFifo' = posted
  BY <1>1, <1>2 DEF BoardFifo, boardVars
<1>9. Head(BoardFifo) = rxBuf /\ Tail(BoardFifo) = posted
  BY <1>1, <1>8, FillingIsHead
<1>10. Library!WaitComplete(rxBuf)
  BY <1>2, <1>7, <1>8, <1>9 DEF Library!WaitComplete, boardVars
<1>11. Library!RxWait
  BY <1>1, <1>2, <1>10
  DEF Library!RxWait, Library!RxGoto, Library!flagVars, Library!queueVars,
      Library!setupVars, Library!apiVars, Library!outVars
<1>12. QED BY <1>3, <1>4, <1>6, <1>11, <1>s DEF RefInv

LEMMA WaitMaps ==
  ASSUME RefInv, SimWait, UNCHANGED sendVars
  PROVE  RefInv' /\ (Library!Next \/ UNCHANGED Library!vars)
BY DequeueMaps, RecordMaps, SuccessMaps DEF SimWait, Library!Next, Library!Rx
-----------------------------------------------------------------------------
(* The sends.  On the way a step of rx's loop keeps everything Acquisition *)
(* sees; the end of a channel's last chunk is its message, a failing send  *)
(* the end of rx.                                                          *)

Stays == UNCHANGED <<boardVars, simVars, flagVars, queueVars, bufferCounter, setupVars,
                     apiVars, workSlots, appSlots, appRound>>
Maps == RefInv' /\ (Library!Next \/ UNCHANGED Library!vars)

LEMMA SendingKeeps ==
  ASSUME RefInv, Stays, UNCHANGED <<rxVars, sentRound>>, ChunkInv'
  PROVE  Maps
<1> USE DEF Stays, boardVars, simVars, flagVars, queueVars, setupVars, rxVars, apiVars
<1>1. TypeInv' BY DEF RefInv, TypeInv, TypeOK, BoardTypeOK, HeldBuffers
<1>2. LifeInv' BY DEF RefInv, LifeInv
<1>3. SimInv'
  BY DEF RefInv, SimInv, Taken, Part, Written, Records, Working, HasBuffer
<1>s. SizeInv' BY SizeKept DEF RefInv, SameRun
<1>4. UNCHANGED Library!boardVars BY BoardStays
<1>5. UNCHANGED Library!vars
  BY <1>4 DEF Library!vars, Library!flagVars, Library!queueVars, Library!setupVars,
     Library!rxVars, Library!apiVars, Library!outVars
<1>6. QED BY <1>1, <1>2, <1>3, <1>5, <1>s DEF RefInv, Maps

LEMMA FailureMaps ==
  ASSUME RefInv, Stays, SendFails, rxpc \in {"send1", "send2"}
  PROVE  Maps
<1> USE DEF Stays, boardVars, simVars, flagVars, queueVars, setupVars, rxVars, apiVars,
            SendFails, RxReturn
<1>1. TypeInv' BY DEF RefInv, TypeInv, TypeOK, BoardTypeOK, HeldBuffers
<1>2. LifeInv' BY DEF RefInv, LifeInv
<1>3. SimInv' /\ ChunkInv'
  BY DEF RefInv, SimInv, ChunkInv, Taken, Part, Written, Records, Working, HasBuffer,
     LastChunk
<1>s. SizeInv' BY SizeKept DEF RefInv, SameRun
<1>4. UNCHANGED Library!boardVars BY BoardStays
<1>5. Library!Rx
  BY <1>4 DEF Library!RxSend, Library!RxReturn, Library!flagVars, Library!queueVars,
     Library!setupVars, Library!apiVars, Library!Rx
<1>6. QED BY <1>1, <1>2, <1>3, <1>5, <1>s DEF RefInv, Maps, Library!Next

(* The end of the last chunk of a channel is RxSend of the work buffer. *)
LEMMA MessageMaps ==
  ASSUME RefInv, Stays, NEW ch \in Channels, ChunkInv',
         RxGoto(IF ch = "ch1" THEN "send2" ELSE "repost"),
         rxpc = IF ch = "ch1" THEN "send1" ELSE "send2",
         sentRound' = IF ch \in sockets THEN [sentRound EXCEPT ![ch] = RoundOf(workSlots)]
                      ELSE sentRound
  PROVE  Maps
<1> USE DEF Stays, boardVars, simVars, flagVars, queueVars, setupVars, rxVars, apiVars, RxGoto
<1>1. RoundOf(workSlots) \in Nat \cup {NoData, Torn}
  BY RoundType DEF RefInv, TypeInv, TypeOK
<1>2. sentRound' \in [Channels -> Nat \cup {NoData, Torn}]
  BY <1>1 DEF RefInv, TypeInv, TypeOK
<1>3. TypeInv' BY <1>2 DEF RefInv, TypeInv, TypeOK, BoardTypeOK, HeldBuffers
<1>4. LifeInv' BY DEF RefInv, LifeInv
<1>5. SimInv'
  BY DEF RefInv, SimInv, Taken, Part, Written, Records, Working, HasBuffer
<1>s. SizeInv' BY SizeKept DEF RefInv, SameRun
<1>6. UNCHANGED Library!boardVars BY BoardStays
<1>7. \/ Library!RxSend("ch1", "send1", "send2")
      \/ Library!RxSend("ch2", "send2", "repost")
  BY <1>6, SameOperators
  DEF Library!RxSend, Library!RxGoto, Library!flagVars, Library!queueVars,
      Library!setupVars, Library!apiVars, Channels
<1>8. QED BY <1>3, <1>4, <1>5, <1>7, <1>s DEF RefInv, Maps, Library!Next, Library!Rx

(* The end of a channel's part of a chunk. *)
LEMMA ChannelMaps ==
  ASSUME RefInv, Stays, NEW ch \in Channels, ChannelDone(ch),
         step \in IF ch = "ch1" THEN {"look1", "data1"} ELSE {"look2", "data2"},
         sentRound' = IF LastChunk /\ ch \in sockets
                      THEN [sentRound EXCEPT ![ch] = RoundOf(workSlots)] ELSE sentRound
  PROVE  Maps
<1>1. ChunkInv'
  BY DEF RefInv, ChunkInv, ChannelDone, LastChunk, RxGoto, Channels
<1>2. CASE LastChunk
  <2>1. /\ RxGoto(IF ch = "ch1" THEN "send2" ELSE "repost")
        /\ rxpc = IF ch = "ch1" THEN "send1" ELSE "send2"
    BY <1>2 DEF RefInv, ChunkInv, ChannelDone, Channels
  <2>2. QED BY <1>1, <1>2, <2>1, MessageMaps
<1>3. CASE ~LastChunk
  <2>1. UNCHANGED <<rxVars, sentRound>> BY <1>3 DEF ChannelDone, RxGoto, rxVars
  <2>2. QED BY <1>1, <2>1, SendingKeeps
<1>4. QED BY <1>2, <1>3

LEMMA SendMaps ==
  ASSUME RefInv, SendStep
  PROVE  Maps
<1>1. Stays BY DEF SendStep, Stays
<1>2. rxpc \in {"send1", "send2"}
  BY DEF SendStep, Look, SendSize, SendFloat, RefInv, ChunkInv
<1>3. "ch1" \in Channels /\ "ch2" \in Channels BY DEF Channels
<1>4. ASSUME NEW ch \in Channels, NEW here, NEW size, Look(ch, here, size),
             <<ch, here, size>> \in {<<"ch1", "look1", "size1">>, <<"ch2", "look2", "size2">>}
      PROVE  Maps
  <2>1. CASE ch \in sockets
    <3>1. ChunkInv' /\ UNCHANGED <<rxVars, sentRound>>
      BY <1>4, <2>1 DEF Look, RefInv, ChunkInv, LastChunk, rxVars
    <3>2. QED BY <1>1, <3>1, SendingKeeps
  <2>2. CASE ch \notin sockets
    BY <1>1, <1>4, <2>2, ChannelMaps DEF Look
  <2>3. QED BY <2>1, <2>2
<1>5. ASSUME NEW ch \in Channels, NEW here, NEW data, SendSize(ch, here, data),
             <<ch, here, data>> \in {<<"ch1", "size1", "data1">>, <<"ch2", "size2", "data2">>}
      PROVE  Maps
  <2>1. CASE ch \in sockets
    <3>1. ChunkInv' /\ UNCHANGED <<rxVars, sentRound>>
      BY <1>5, <2>1 DEF SendSize, RefInv, ChunkInv, LastChunk, rxVars
    <3>2. QED BY <1>1, <3>1, SendingKeeps
  <2>2. CASE ch \notin sockets
    BY <1>1, <1>2, <1>5, <2>2, FailureMaps DEF SendSize
  <2>3. QED BY <2>1, <2>2
<1>6. ASSUME NEW ch \in Channels, NEW here, SendFloat(ch, here),
             <<ch, here>> \in {<<"ch1", "data1">>, <<"ch2", "data2">>}
      PROVE  Maps
  <2>1. CASE SendFails BY <1>1, <1>2, <2>1, FailureMaps
  <2>2. CASE ~SendFails /\ moved + 1 < chunk
    <3>1. ChunkInv' /\ UNCHANGED <<rxVars, sentRound>>
      BY <1>6, <2>2 DEF SendFloat, RefInv, ChunkInv, LastChunk, rxVars
    <3>2. QED BY <1>1, <3>1, SendingKeeps
  <2>3. CASE ~SendFails /\ ~(moved + 1 < chunk)
    BY <1>1, <1>6, <2>3, ChannelMaps DEF SendFloat
  <2>4. QED BY <2>1, <2>2, <2>3
<1>7. QED BY <1>3, <1>4, <1>5, <1>6 DEF SendStep

LEMMA BeginSendMaps ==
  ASSUME RefInv, BeginSend PROVE Maps
<1>1. Stays /\ UNCHANGED <<rxVars, sentRound>>
  BY DEF BeginSend, Stays, engineVars, outVars
<1>2. ChunkInv' BY <1>1 DEF BeginSend, RefInv, ChunkInv, rxVars
<1>3. QED BY <1>1, <1>2, SendingKeeps
-----------------------------------------------------------------------------
(* Every step, and the theorem. *)

LEMMA InitMaps == SocketInit => RefInv /\ Library!Init
<1> SUFFICES ASSUME SocketInit PROVE RefInv /\ Library!Init
  OBVIOUS
<1> USE DEF SocketInit
<1>1. TypeInv /\ LifeInv BY InitType, InitLife
<1>2. SimInv /\ SizeInv /\ ChunkInv
  BY DEF Init, SimInit, BoardInit, SimInv, SizeInv, ChunkInv, Working, LastChunk
<1>3. BoardFifo = <<>> /\ BoardFilled = 0
  BY DEF Init, SimInit, BoardInit, BoardFifo, BoardFilled
<1>4. Library!Init
  BY <1>3, SameOperators
  DEF Init, BoardInit, Library!Init, Library!BoardInit, Blank, Library!Blank, NoData,
      Library!NoData, Unconfigured, Library!Unconfigured, Channels, Library!Channels
<1>5. QED BY <1>1, <1>2, <1>4 DEF RefInv

LEMMA StutterMaps ==
  ASSUME RefInv, UNCHANGED <<engineVars, simVars, sendVars>>
  PROVE  Maps
<1> USE DEF engineVars, boardVars, simVars, flagVars, queueVars, setupVars, rxVars, apiVars,
            outVars, sendVars
<1>1. ChunkInv' BY DEF RefInv, ChunkInv, LastChunk
<1>2. Stays /\ UNCHANGED <<rxVars, sentRound>> BY DEF Stays
<1>3. QED BY <1>1, <1>2, SendingKeeps

LEMMA StepMaps ==
  ASSUME Disciplined, RefInv, [SocketNext]_allVars
  PROVE  Maps
<1>1. CASE SocketRx
  <2>1. CASE BeginSend BY <2>1, BeginSendMaps
  <2>2. CASE SendStep BY <2>2, SendMaps
  <2>3. CASE SimWait /\ UNCHANGED <<sendVars, listenVars>> BY <2>3, WaitMaps DEF Maps
  <2>4. CASE /\ \/ RxReady \/ RxLoop \/ RxPop \/ RxPopEmpty \/ RxCheckStop \/ RxRoute
                \/ RxQueue \/ RxProcess \/ RxRepost \/ RxPost \/ RxCount \/ RxAbort
             /\ Quiet
    BY <2>4, RxMaps, RxKeepsSim DEF Maps, Library!Next
  <2>5. QED BY <1>1, <2>1, <2>2, <2>3, <2>4 DEF SocketRx
<1>2. CASE SocketCall
  <2>1. CASE Begin BY <2>1, BeginMaps DEF Maps, Library!Next
  <2>2. CASE ~Begin
    <3>1. /\ UNCHANGED <<simVars, sendVars>>
          /\ \/ \E c \in Configs : SetAll(c)
             \/ \E ch \in Channels : RegisterSocket(ch)
             \/ UnregisterSockets \/ WaitForAcquisition \/ Stop
      BY <1>2, <2>2 DEF SocketCall, Unregister, Register, Quiet
    <3>2. QED BY <3>1, CallMaps DEF Maps, Library!Next
  <2>3. QED BY <2>1, <2>2
<1>3. CASE SocketApi
  <2>1. /\ UNCHANGED <<simVars, sendVars>>
        /\ \/ \E b \in Buffers : PostInitial(b)
           \/ StartAcquire \/ AcquireReturn \/ ProcessForApp \/ PushForApp \/ PostForApp
           \/ JoinRx \/ AbortOnStop \/ ClearQueues
    BY <1>3 DEF SocketApi, End, Quiet
  <2>2. QED BY <2>1, ApiMaps, ApiKeepsSim DEF Maps, Library!Next
<1>4. CASE \E ch \in Channels : Listen(ch) BY <1>4, StutterMaps DEF Listen
<1>5. CASE UNCHANGED allVars BY <1>5, StutterMaps DEF allVars
<1>6. QED BY <1>1, <1>2, <1>3, <1>4, <1>5 DEF SocketNext

(* The stack of stand-in, chunked sending and library does what            *)
(* Acquisition says of a board and of sends that may fail, for every pool, *)
(* buffer, chunk and socket size: what is proved of Acquisition for such   *)
(* faults is true of the program the tests and the example link            *)
(* (rx, libAlazar.cpp:349-473, over alazarSim.cpp:41-71).                  *)
THEOREM StandInImplements ==
  ASSUME Disciplined PROVE SocketSpec => LibrarySpec
<1>1. SocketInit => RefInv /\ Library!Init BY InitMaps
<1>2. RefInv /\ [SocketNext]_allVars => RefInv' /\ [Library!Next]_(Library!vars)
  BY StepMaps DEF Maps
<1>3. QED BY <1>1, <1>2, PTL DEF SocketSpec, LibrarySpec, Library!Spec

(***************************************************************************)
(* The sockets and the frames on them.                                     *)
(***************************************************************************)

(* Where rx is between its decision to send a buffer and the moment the    *)
(* buffer is posted again.                                                 *)
InHands == {"process", "send1", "send2", "repost", "post"}

(* While a socket is registered, and until rx is done with a buffer it     *)
(* began to send, there is nothing to poll.  The rest is the life cycle of *)
(* the thread, by which a socket is only registered when dataQ is empty.   *)
SendInv ==
  /\ threadRunning <=> rxpc # "none"
  /\ apc \in {"posting", "abort", "clear"} => ~threadRunning
  /\ apc \in {"ready", "process", "push", "post", "join"} => threadRunning
  /\ apc = "posting" \/ (apc = "idle" /\ ~threadRunning) => dataQ = <<>>
  /\ filling # NoBuffer => rxpc = "wait"
  /\ step # "none" => rxpc \in {"send1", "send2"}
  /\ rxpc = "queue" => sockets = {}
  /\ sockets # {} \/ rxpc \in InHands =>
       dataQ = <<>> /\ apc \notin {"process", "push", "post"}

LEMMA InitSend == SocketInit => SendInv
BY DEF SocketInit, Init, SimInit, SendInv, InHands

(* In the loop over the chunks rx stays with its buffer or fails. *)
LEMMA ChunkStep ==
  ASSUME SendStep, rxpc \in {"send1", "send2"}
  PROVE  /\ rxpc' \in {"send1", "send2", "repost", "failed"}
         /\ step' # "none" => rxpc' \in {"send1", "send2"}
         /\ rxBuf' = rxBuf \/ (rxBuf' = NoBuffer /\ rxpc' = "failed")
<1> DEFINE Onward == /\ rxpc' \in {"send1", "send2", "repost", "failed"}
                     /\ step' # "none" => rxpc' \in {"send1", "send2"}
                     /\ rxBuf' = rxBuf \/ (rxBuf' = NoBuffer /\ rxpc' = "failed")
<1>1. ASSUME NEW ch, ChannelDone(ch) PROVE Onward
  BY <1>1 DEF ChannelDone, RxGoto
<1>2. ASSUME SendFails PROVE Onward BY <1>2 DEF SendFails, RxReturn
<1>3. ASSUME UNCHANGED rxVars PROVE Onward BY <1>3 DEF rxVars
<1> HIDE DEF Onward
<1>4. ASSUME NEW ch, NEW here, NEW size, Look(ch, here, size) PROVE Onward
  BY <1>1, <1>3, <1>4 DEF Look
<1>5. ASSUME NEW ch, NEW here, NEW data, SendSize(ch, here, data) PROVE Onward
  BY <1>2, <1>3, <1>5 DEF SendSize
<1>6. ASSUME NEW ch, NEW here, SendFloat(ch, here) PROVE Onward
  BY <1>1, <1>2, <1>3, <1>6 DEF SendFloat
<1>7. Onward BY <1>4, <1>5, <1>6 DEF SendStep
<1>8. QED BY <1>7 DEF Onward

LEMMA RxKeeps == ASSUME SendInv, SocketRx PROVE SendInv'
<1> USE DEF SendInv, InHands, boardVars, flagVars, queueVars, setupVars, rxVars,
            apiVars, outVars, engineVars, simVars, sendVars, Quiet, RxGoto, RxReturn
<1>1. CASE BeginSend BY <1>1 DEF BeginSend
<1>2. CASE SendStep
  <2>1. rxpc \in {"send1", "send2"}
    BY <1>2 DEF SendStep, Look, SendSize, SendFloat
  <2>2. /\ rxpc' \in {"send1", "send2", "repost", "failed"}
        /\ step' # "none" => rxpc' \in {"send1", "send2"}
    BY <1>2, <2>1, ChunkStep
  <2>3. UNCHANGED <<flagVars, queueVars, setupVars, apiVars, simVars>>
    BY <1>2 DEF SendStep
  <2> HIDE DEF RxGoto, RxReturn
  <2>4. QED BY <2>1, <2>2, <2>3
<1>3. CASE SimWait /\ UNCHANGED <<sendVars, listenVars>>
  <2>1. CASE SimDequeue BY <1>3, <2>1 DEF SimDequeue
  <2>2. CASE SimRecord BY <1>3, <2>2 DEF SimRecord
  <2>3. CASE SimSuccess BY <1>3, <2>3 DEF SimSuccess
  <2>4. QED BY <1>3, <2>1, <2>2, <2>3 DEF SimWait
<1>4. CASE RxReady /\ Quiet BY <1>4 DEF RxReady
<1>5. CASE RxLoop /\ Quiet BY <1>5 DEF RxLoop
<1>6. CASE RxPop /\ Quiet BY <1>6 DEF RxPop
<1>7. CASE RxPopEmpty /\ Quiet BY <1>7 DEF RxPopEmpty
<1>8. CASE RxCheckStop /\ Quiet BY <1>8 DEF RxCheckStop
<1>9. CASE RxRoute /\ Quiet BY <1>9 DEF RxRoute
<1>10. CASE RxQueue /\ Quiet BY <1>10 DEF RxQueue
<1>11. CASE RxProcess /\ Quiet BY <1>11 DEF RxProcess
<1>12. CASE RxRepost /\ Quiet BY <1>12 DEF RxRepost, Enqueue
<1>13. CASE RxPost /\ Quiet BY <1>13 DEF RxPost
<1>14. CASE RxCount /\ Quiet BY <1>14 DEF RxCount
<1>15. CASE RxAbort /\ Quiet BY <1>15 DEF RxAbort
<1>16. QED
  BY <1>1, <1>2, <1>3, <1>4, <1>5, <1>6, <1>7, <1>8, <1>9, <1>10, <1>11, <1>12,
     <1>13, <1>14, <1>15 DEF SocketRx

LEMMA CallKeeps == ASSUME SendInv, SocketCall PROVE SendInv'
<1> USE DEF SendInv, InHands, boardVars, flagVars, queueVars, setupVars, rxVars,
            apiVars, outVars, simVars, sendVars, Quiet
<1>1. CASE Begin BY <1>1 DEF Begin, SimAcquire
<1>2. CASE Unregister BY <1>2 DEF Unregister, UnregisterSockets
<1>3. ASSUME NEW ch \in Channels, Register(ch) PROVE SendInv'
  BY <1>3 DEF Register, RegisterSocket
<1>4. ASSUME NEW c \in Configs, SetAll(c), Quiet PROVE SendInv'
  BY <1>4 DEF SetAll
<1>5. CASE WaitForAcquisition /\ Quiet BY <1>5 DEF WaitForAcquisition
<1>6. CASE Stop /\ Quiet BY <1>6 DEF Stop
<1>7. QED BY <1>1, <1>2, <1>3, <1>4, <1>5, <1>6 DEF SocketCall

LEMMA ApiKeeps == ASSUME SendInv, SocketApi PROVE SendInv'
<1> USE DEF SendInv, InHands, boardVars, flagVars, queueVars, setupVars, rxVars,
            apiVars, outVars, simVars, sendVars, Quiet
<1>1. CASE End BY <1>1 DEF End, ClearQueues
<1>2. ASSUME NEW b \in Buffers, PostInitial(b), Quiet PROVE SendInv'
  BY <1>2 DEF PostInitial, Enqueue
<1>3. CASE StartAcquire /\ Quiet BY <1>3 DEF StartAcquire
<1>4. CASE AcquireReturn /\ Quiet BY <1>4 DEF AcquireReturn
<1>5. CASE ProcessForApp /\ Quiet BY <1>5 DEF ProcessForApp
<1>6. CASE PushForApp /\ Quiet BY <1>6 DEF PushForApp, Enqueue
<1>7. CASE PostForApp /\ Quiet BY <1>7 DEF PostForApp
<1>8. CASE JoinRx /\ Quiet BY <1>8 DEF JoinRx, RxReturned
<1>9. CASE AbortOnStop /\ Quiet BY <1>9 DEF AbortOnStop
<1>10. QED
  BY <1>1, <1>2, <1>3, <1>4, <1>5, <1>6, <1>7, <1>8, <1>9 DEF SocketApi

LEMMA SendInvStep == SendInv /\ [SocketNext]_allVars => SendInv'
<1> SUFFICES ASSUME SendInv, [SocketNext]_allVars PROVE SendInv'
  OBVIOUS
<1>1. ASSUME NEW ch \in Channels, Listen(ch) PROVE SendInv'
  BY <1>1 DEF Listen, SendInv, InHands, engineVars, flagVars, queueVars, setupVars,
              rxVars, apiVars, simVars, sendVars
<1>2. CASE UNCHANGED allVars
  BY <1>2 DEF SendInv, InHands, allVars, engineVars, flagVars, queueVars, setupVars,
              rxVars, apiVars, simVars, sendVars
<1>3. QED BY <1>1, <1>2, RxKeeps, CallKeeps, ApiKeeps DEF SocketNext

(* The stand-in's queue has one producer at a time, for every pool and     *)
(* however the client polls, stops and unregisters while rx sends: what rx *)
(* has begun to send is posted before anything can be polled.              *)
THEOREM ProducersTakeTurns == SocketSpec => []OneProducer
<1>1. SendInv => OneProducer BY DEF SendInv, InHands, OneProducer
<1>2. QED BY <1>1, InitSend, SendInvStep, PTL DEF SocketSpec
-----------------------------------------------------------------------------
(* Frames: what a socket holds is what its listener can take apart.        *)

Items == [kind : {"size", "float"}, value : Int]

(* A listener that expects e floats can read all of w, sizes where it      *)
(* expects sizes, and then expects o floats: n[i] is what it expects at    *)
(* the i-th item.                                                          *)
After(n, item) == IF n = 0 THEN item.value ELSE n - 1
Frames(w, e, o) ==
  \E n \in [1..(Len(w) + 1) -> Nat] :
    /\ n[1] = e /\ n[Len(w) + 1] = o
    /\ \A i \in 1..Len(w) :
         /\ (w[i].kind = "size") = (n[i] = 0)
         /\ n[i + 1] = After(n[i], w[i])

LEMMA FramesOfNothing == Frames(<<>>, 0, 0)
<1> DEFINE n == [i \in 1..(Len(<<>>) + 1) |-> 0]
<1>1. Len(<<>>) = 0 OBVIOUS
<1>2. n \in [1..(Len(<<>>) + 1) -> Nat] OBVIOUS
<1>3. n[1] = 0 /\ n[Len(<<>>) + 1] = 0 BY <1>1
<1>4. \A i \in 1..Len(<<>>) : FALSE BY <1>1
<1>5. QED BY <1>2, <1>3, <1>4 DEF Frames

(* The sender adds what the listener will expect. *)
LEMMA FramesGrow ==
  ASSUME NEW w \in Seq(Items), NEW e, NEW o, Frames(w, e, o), NEW item \in Items,
         (item.kind = "size") = (o = 0), After(o, item) \in Nat
  PROVE  Frames(Append(w, item), e, After(o, item))
<1> DEFINE v == Append(w, item)
           next == After(o, item)
<1>1. PICK n \in [1..(Len(w) + 1) -> Nat] :
         /\ n[1] = e /\ n[Len(w) + 1] = o
         /\ \A i \in 1..Len(w) : /\ (w[i].kind = "size") = (n[i] = 0)
                                 /\ n[i + 1] = After(n[i], w[i])
  BY DEF Frames
<1>2. /\ Len(v) = Len(w) + 1 /\ Len(w) \in Nat /\ v[Len(w) + 1] = item
      /\ \A i \in 1..Len(w) : v[i] = w[i]
  OBVIOUS
<1> DEFINE m == [i \in 1..(Len(v) + 1) |-> IF i = Len(v) + 1 THEN next ELSE n[i]]
<1> HIDE DEF v, next
<1>3. m \in [1..(Len(v) + 1) -> Nat]
  <2>1. \A i \in 1..(Len(v) + 1) : i # Len(v) + 1 => i \in 1..(Len(w) + 1) BY <1>2
  <2>2. next \in Nat BY DEF next
  <2>3. QED BY <2>1, <2>2
<1>4. m[1] = e /\ m[Len(v) + 1] = next BY <1>1, <1>2
<1>5. ASSUME NEW i \in 1..Len(v)
      PROVE  (v[i].kind = "size") = (m[i] = 0) /\ m[i + 1] = After(m[i], v[i])
  <2>1. m[i] = n[i] BY <1>2
  <2>2. CASE i = Len(w) + 1
    <3>1. v[i] = item /\ m[i] = o BY <1>1, <1>2, <2>1, <2>2
    <3>2. m[i + 1] = next BY <1>2, <2>2
    <3>3. QED BY <3>1, <3>2 DEF next
  <2>3. CASE i # Len(w) + 1
    <3>1. i \in 1..Len(w) BY <1>2, <2>3
    <3>2. v[i] = w[i] BY <1>2, <3>1
    <3>3. m[i + 1] = n[i + 1] BY <1>2, <3>1
    <3>4. QED BY <1>1, <2>1, <3>1, <3>2, <3>3
  <2>4. QED BY <2>2, <2>3
<1>6. Frames(v, e, next) BY <1>3, <1>4, <1>5 DEF Frames
<1>7. QED BY <1>6 DEF v, next

(* The listener finds what it expects, and goes on. *)
LEMMA FramesTaken ==
  ASSUME NEW w \in Seq(Items), NEW e, NEW o, Frames(w, e, o), w # <<>>
  PROVE  /\ (Head(w).kind = "size") = (e = 0)
         /\ After(e, Head(w)) \in Nat
         /\ Frames(Tail(w), After(e, Head(w)), o)
<1> DEFINE v == Tail(w)
<1>1. PICK n \in [1..(Len(w) + 1) -> Nat] :
         /\ n[1] = e /\ n[Len(w) + 1] = o
         /\ \A i \in 1..Len(w) : /\ (w[i].kind = "size") = (n[i] = 0)
                                 /\ n[i + 1] = After(n[i], w[i])
  BY DEF Frames
<1>2. /\ Len(v) = Len(w) - 1 /\ Len(w) \in Nat /\ Len(w) > 0 /\ Head(w) = w[1]
      /\ \A i \in 1..(Len(w) - 1) : v[i] = w[i + 1]
  OBVIOUS
<1> HIDE DEF v
<1>3. (w[1].kind = "size") = (e = 0) /\ n[2] = After(e, w[1])
  BY <1>1, <1>2
<1>4. 2 \in 1..(Len(w) + 1) BY <1>2
<1>5. n[2] \in Nat BY <1>4
<1> DEFINE m == [i \in 1..(Len(v) + 1) |-> n[i + 1]]
<1>6. m \in [1..(Len(v) + 1) -> Nat]
  <2>1. \A i \in 1..(Len(v) + 1) : i + 1 \in 1..(Len(w) + 1) BY <1>2
  <2>2. QED BY <2>1
<1>7. m[1] = n[2] /\ m[Len(v) + 1] = o BY <1>1, <1>2
<1>8. ASSUME NEW i \in 1..Len(v)
      PROVE  (v[i].kind = "size") = (m[i] = 0) /\ m[i + 1] = After(m[i], v[i])
  <2>1. v[i] = w[i + 1] /\ i + 1 \in 1..Len(w) BY <1>2
  <2>2. m[i] = n[i + 1] /\ m[i + 1] = n[i + 1 + 1] BY <1>2
  <2>3. QED BY <1>1, <2>1, <2>2
<1>9. Frames(v, n[2], o) BY <1>6, <1>7, <1>8 DEF Frames
<1>10. QED BY <1>2, <1>3, <1>5, <1>9 DEF v
-----------------------------------------------------------------------------
(* Type correctness of the whole stack. *)

(* The loop's counters: outside the loop nothing is left, and inside a     *)
(* chunk is never empty, which keeps a size from being taken for the end   *)
(* of its chunk.                                                           *)
LoopType ==
  /\ step \in {"none", "look1", "look2", "size1", "size2", "data1", "data2"}
  /\ IF step = "none" THEN rem = 0 /\ chunk = 0 /\ moved = 0
     ELSE /\ rem \in 1..WorkLen /\ chunk \in 1..SocketBuffSize
          /\ chunk <= rem /\ moved \in 0..(chunk - 1)

StandInType ==
  /\ filling \in {NoBuffer} \cup Buffers
  /\ written \in Nat /\ recordCounter \in Nat /\ samplesPerRecord \in Nat
  /\ nFilled = 0

WireType ==
  /\ wire \in [Channels -> Seq(Items)]
  /\ \A ch \in Channels : Len(wire[ch]) <= WireCapacity
  /\ expecting \in [Channels -> Nat]

SocketType == TypeInv /\ StandInType /\ LoopType /\ WireType

LEMMA InitSocketType == SocketInit => SocketType
<1> SUFFICES ASSUME SocketInit PROVE SocketType
  OBVIOUS
<1>1. TypeInv BY InitType DEF SocketInit
<1>2. StandInType BY DEF SocketInit, SimInit, StandInType, Init, BoardInit
<1>3. LoopType BY DEF SocketInit, LoopType
<1>4. WireType
  <2>1. <<>> \in Seq(Items) /\ Len(<<>>) = 0 OBVIOUS
  <2>2. QED BY <2>1, WireAssumption DEF SocketInit, WireType
<1>5. QED BY <1>1, <1>2, <1>3, <1>4 DEF SocketType

(* The library's own steps, which leave the loop and the sockets alone. *)
LEMMA LibraryType ==
  ASSUME SocketType, Rx \/ ApiCall \/ ApiStep, nFilled' = 0,
         UNCHANGED <<simVars, sendVars, wire, expecting>>
  PROVE  SocketType'
<1>1. TypeInv' BY RxType, ApiCallType, ApiStepType DEF SocketType
<1>2. StandInType' /\ LoopType' /\ WireType'
  BY DEF SocketType, StandInType, LoopType, WireType, simVars, sendVars
<1>3. QED BY <1>1, <1>2 DEF SocketType

LEMMA LengthRead ==
  ASSUME TypeInv, filling \in Buffers PROVE bufferLenBytes \in Nat
<1>1. posted \in Seq(Buffers) /\ length \in [Buffers -> Nat]
  BY DEF TypeInv, TypeOK, BoardTypeOK
<1>2. posted # <<>> => posted[Len(posted)] \in Buffers BY <1>1, LenProperties
<1>3. LastPosted \in Buffers BY <1>2 DEF LastPosted
<1>4. QED BY <1>1, <1>3 DEF bufferLenBytes

LEMMA SimWaitType ==
  ASSUME SocketType, SendInv, SimWait, UNCHANGED <<sendVars, listenVars>>
  PROVE  SocketType'
<1> USE DEF TypeInv, TypeOK, HeldBuffers, BoardTypeOK, boardVars, flagVars, queueVars,
            setupVars, rxVars, apiVars, outVars, RxGoto, RxReturn
<1>1. WireType' /\ LoopType'
  BY DEF SocketType, LoopType, WireType, sendVars, listenVars
<1>2. CASE SimDequeue
  <2>1. Tail(posted) \in Seq(Buffers) /\ Len(Tail(posted)) = Len(posted) - 1
    BY <1>2, RangeOfPop DEF SocketType, SimDequeue
  <2>2. nFilled' \in 0..Len(posted')
    BY <1>2, <2>1, LenProperties DEF SocketType, StandInType, SimDequeue
  <2>3. TypeInv'
    <3>1. posted' \in Seq(Buffers) BY <1>2, <2>1 DEF SimDequeue
    <3>2. BoardTypeOK' BY <1>2, <2>2, <3>1 DEF SocketType, SimDequeue
    <3> HIDE DEF BoardTypeOK
    <3>3. QED BY <1>2, <3>2 DEF SocketType, SimDequeue
  <2>4. StandInType' BY <1>2 DEF SocketType, StandInType, SimDequeue
  <2>5. QED BY <1>1, <2>3, <2>4 DEF SocketType
<1>3. CASE SimRecord
  <2>1. written' \in Nat /\ recordCounter' \in Nat
    BY <1>3 DEF SocketType, StandInType, SimRecord
  <2>2. recordCounter \div RecordsPerBuffer \in Nat
    <3>1. bufferLenBytes \in Nat BY <1>3, LengthRead DEF SocketType, StandInType, SimRecord
    <3>2. samplesPerRecord \in Nat \ {0} BY <1>3 DEF SocketType, StandInType, SimRecord
    <3>3. RecordsPerBuffer \in Nat /\ 0 <= written /\ written < RecordsPerBuffer
      <4>1. \A n \in Nat : \A k \in Nat \ {0} : n \div k \in Nat OBVIOUS
      <4>2. QED BY <1>3, <3>1, <3>2, <4>1 DEF SocketType, StandInType, SimRecord,
                                              RecordsPerBuffer
    <3>4. \A n \in Nat : \A k \in Nat \ {0} : n \div k \in Nat OBVIOUS
    <3>5. RecordsPerBuffer \in Nat \ {0} BY <3>3 DEF SocketType, StandInType
    <3>6. QED BY <3>4, <3>5 DEF SocketType, StandInType
  <2>3. content' \in [Buffers -> Nat \cup {NoData}] /\ captured' \in Nat
    <3> HIDE DEF RecordsPerBuffer
    <3>1. content \in [Buffers -> Nat \cup {NoData}] /\ captured \in Nat BY DEF SocketType
    <3>2. \/ UNCHANGED <<content, captured>>
          \/ /\ content' = [content EXCEPT ![filling] = recordCounter \div RecordsPerBuffer]
             /\ captured' = captured + 1
      BY <1>3 DEF SimRecord
    <3>3. QED BY ONLY <2>2, <3>1, <3>2
  <2>4. TypeInv' BY <1>3, <2>3 DEF SocketType, SimRecord
  <2>5. StandInType' BY <1>3, <2>1 DEF SocketType, StandInType, SimRecord
  <2>6. QED BY <1>1, <2>4, <2>5 DEF SocketType
<1>4. CASE SimSuccess
  <2>1. rxpc = "wait" BY <1>4 DEF SendInv, SimSuccess
  <2>2. TypeInv' BY <1>4, <2>1 DEF SocketType, SimSuccess
  <2>3. StandInType' BY <1>4 DEF SocketType, StandInType, SimSuccess
  <2>4. QED BY <1>1, <2>2, <2>3 DEF SocketType
<1>5. QED BY <1>2, <1>3, <1>4 DEF SimWait

LEMMA NextChunkType ==
  ASSUME NEW left \in Nat \ {0}
  PROVE  NextChunk(left) \in 1..SocketBuffSize /\ NextChunk(left) <= left
BY WireAssumption DEF NextChunk, SocketBuffSize

(* Nothing the library calls fills a buffer behind rx's back. *)
LEMMA NothingFilled ==
  ASSUME SocketType,
         \/ RxReady \/ RxLoop \/ RxPop \/ RxPopEmpty \/ RxCheckStop \/ RxRoute \/ RxQueue
         \/ RxProcess \/ RxRepost \/ RxPost \/ RxCount \/ RxAbort
         \/ ApiStep \/ UnregisterSockets \/ WaitForAcquisition \/ Stop
         \/ (\E ch \in Channels : RegisterSocket(ch)) \/ \E c \in Configs : SetAll(c)
  PROVE  nFilled' = 0
<1> USE DEF SocketType, StandInType, boardVars, PostAsyncBuffer, AbortAsyncRead, StartCapture
<1>1. CASE \/ RxReady \/ RxLoop \/ RxPop \/ RxPopEmpty \/ RxCheckStop \/ RxRoute
           \/ RxQueue \/ RxProcess \/ RxRepost \/ RxPost \/ RxCount \/ RxAbort
  BY <1>1 DEF RxReady, RxLoop, RxPop, RxPopEmpty, RxCheckStop, RxRoute, RxQueue, RxProcess,
     RxRepost, RxPost, RxCount, RxAbort
<1>2. CASE ApiStep
  BY <1>2 DEF ApiStep, PostInitial, StartAcquire, AcquireReturn, ProcessForApp, PushForApp,
     PostForApp, JoinRx, AbortOnStop, ClearQueues
<1>3. CASE \/ UnregisterSockets \/ WaitForAcquisition \/ Stop
           \/ (\E ch \in Channels : RegisterSocket(ch)) \/ \E c \in Configs : SetAll(c)
  BY <1>3 DEF UnregisterSockets, WaitForAcquisition, Stop, RegisterSocket, SetAll
<1>4. QED BY <1>1, <1>2, <1>3

LEMMA BeginSendType == ASSUME SocketType, BeginSend PROVE SocketType'
<1> USE DEF SocketType, BeginSend
<1>1. TypeInv'
  BY StutterType DEF engineVars, vars
<1>2. StandInType' BY DEF StandInType, simVars, engineVars, boardVars
<1>3. WireType' BY DEF WireType, listenVars
<1>4. LoopType' BY NextChunkType, WireAssumption DEF LoopType
<1>5. QED BY <1>1, <1>2, <1>3, <1>4

(* The end of a channel's part leaves no empty chunk behind. *)
LEMMA ChannelDoneType ==
  ASSUME LoopType, step # "none", NEW ch \in Channels, ChannelDone(ch)
  PROVE  LoopType'
<1>1. CASE ch = "ch1" BY <1>1 DEF LoopType, ChannelDone
<1>2. CASE ch # "ch1" /\ LastChunk
  <2>1. rem' = 0 BY <1>2 DEF LoopType, ChannelDone, LastChunk
  <2>2. chunk' = 0 BY <1>2, <2>1, WireAssumption DEF ChannelDone, NextChunk, SocketBuffSize
  <2>3. QED BY <1>2, <2>1, <2>2 DEF LoopType, ChannelDone
<1>3. CASE ch # "ch1" /\ ~LastChunk
  <2>1. rem' = rem - chunk /\ chunk' = NextChunk(rem') /\ moved' = 0 /\ step' = "look1"
    BY <1>3 DEF ChannelDone
  <2>2. rem' \in Nat \ {0} /\ rem' \in 1..WorkLen
    BY <1>3, <2>1, WireAssumption DEF LoopType, LastChunk, SocketBuffSize
  <2>3. chunk' \in 1..SocketBuffSize /\ chunk' <= rem' BY <2>1, <2>2, NextChunkType
  <2>4. QED BY <2>1, <2>2, <2>3 DEF LoopType
<1>4. QED BY <1>1, <1>2, <1>3

(* A float's number. *)
LEMMA FloatType ==
  ASSUME SocketType, step # "none"
  PROVE  RoundOf(workSlots) * WorkLen + (WorkLen - rem) + moved \in Int
<1>1. RoundOf(workSlots) \in Int
  BY RoundType DEF SocketType, TypeInv, TypeOK, NoData, Torn
<1>2. RoundOf(workSlots) * WorkLen \in Int BY <1>1, WireAssumption
<1>3. rem \in Int /\ moved \in Int BY DEF SocketType, LoopType
<1>4. QED BY <1>2, <1>3, WireAssumption

LEMMA ItemAppended ==
  ASSUME WireType, NEW ch \in Channels, NEW item \in Items, Len(wire[ch]) < WireCapacity,
         wire' = [wire EXCEPT ![ch] = Append(@, item)], UNCHANGED expecting
  PROVE  WireType'
<1>1. Append(wire[ch], item) \in Seq(Items) /\ Len(wire[ch]) \in Nat
  BY DEF WireType
<1>2. Len(Append(wire[ch], item)) = Len(wire[ch]) + 1 BY DEF WireType
<1>3. QED BY <1>1, <1>2, WireAssumption DEF WireType

LEMMA SendStepType == ASSUME SocketType, SendInv, SendStep PROVE SocketType'
<1>1. step # "none" /\ rxpc \in {"send1", "send2"}
  BY DEF SendStep, Look, SendSize, SendFloat, SendInv
<1>2. UNCHANGED <<boardVars, simVars, flagVars, queueVars, bufferCounter, setupVars,
                  apiVars, workSlots, appSlots, appRound, expecting>>
  BY DEF SendStep
<1>3. StandInType' BY <1>2 DEF SocketType, StandInType, simVars, boardVars
<1>4. rxpc' \in {"send1", "send2", "repost", "failed"} BY <1>1, ChunkStep
<1>5. rxBuf' = rxBuf \/ (rxBuf' = NoBuffer /\ rxpc' = "failed") BY <1>1, ChunkStep
<1>6. \/ sentRound' = sentRound
      \/ \E ch \in Channels : sentRound' = [sentRound EXCEPT ![ch] = RoundOf(workSlots)]
  BY DEF SendStep, Look, SendSize, SendFloat, SendFails, Channels
<1>7. RoundOf(workSlots) \in Nat \cup {NoData, Torn}
  BY RoundType DEF SocketType, TypeInv, TypeOK
<1>8. sentRound' \in [Channels -> Nat \cup {NoData, Torn}]
  BY <1>6, <1>7 DEF SocketType, TypeInv, TypeOK
<1>9. TypeInv'
  BY <1>1, <1>2, <1>4, <1>5, <1>8
  DEF SocketType, TypeInv, TypeOK, HeldBuffers, BoardTypeOK, boardVars, flagVars, queueVars,
      setupVars, apiVars
<1>10. "ch1" \in Channels /\ "ch2" \in Channels BY DEF Channels
<1> DEFINE Typed == LoopType' /\ WireType'
<1>11. ASSUME SendFails PROVE Typed
  BY <1>2, <1>11 DEF SendFails, SocketType, LoopType, WireType
<1>12. ASSUME NEW ch \in Channels, NEW here, NEW size, Look(ch, here, size),
              size \in {"size1", "size2"}
       PROVE  Typed
  <2>1. WireType' BY <1>2, <1>12 DEF Look, SocketType, WireType
  <2>2. LoopType'
    BY <1>1, <1>12, ChannelDoneType DEF Look, SocketType, LoopType
  <2>3. QED BY <2>1, <2>2
<1>13. ASSUME NEW ch \in Channels, NEW here, NEW data, SendSize(ch, here, data),
              data \in {"data1", "data2"}
       PROVE  Typed
  <2>1. CASE SendFails BY <1>11, <2>1
  <2>2. CASE ~SendFails
    <3>1. SizeItem(chunk) \in Items BY <1>1 DEF SizeItem, Items, SocketType, LoopType
    <3>2. WireType' BY <1>2, <1>13, <2>2, <3>1, ItemAppended DEF SendSize, SocketType
    <3>3. LoopType' BY <1>1, <1>13, <2>2 DEF SendSize, SocketType, LoopType
    <3>4. QED BY <3>2, <3>3
  <2>3. QED BY <2>1, <2>2
<1>14. ASSUME NEW ch \in Channels, NEW here, SendFloat(ch, here) PROVE Typed
  <2>1. CASE SendFails BY <1>11, <2>1
  <2>2. CASE ~SendFails
    <3>1. FloatItem(RoundOf(workSlots) * WorkLen + (WorkLen - rem) + moved) \in Items
      BY <1>1, FloatType DEF FloatItem, Items
    <3>2. WireType' BY <1>2, <1>14, <2>2, <3>1, ItemAppended DEF SendFloat, SocketType
    <3>3. LoopType'
      <4>1. CASE moved + 1 < chunk
        BY <1>1, <1>14, <2>2, <4>1 DEF SendFloat, SocketType, LoopType
      <4>2. CASE ~(moved + 1 < chunk)
        BY <1>1, <1>14, <2>2, <4>2, ChannelDoneType DEF SendFloat, SocketType
      <4>3. QED BY <4>1, <4>2
    <3>4. QED BY <3>2, <3>3
  <2>3. QED BY <2>1, <2>2
<1>15. Typed BY <1>10, <1>12, <1>13, <1>14 DEF SendStep
<1>16. QED BY <1>3, <1>9, <1>15 DEF SocketType

(* The calls that empty sockets or register one. *)
LEMMA FreshWire ==
  ASSUME WireType,
         \/ ListenersGone
         \/ \E ch \in Channels : /\ wire' = [wire EXCEPT ![ch] = <<>>]
                                 /\ expecting' = [expecting EXCEPT ![ch] = 0]
         \/ UNCHANGED <<wire, expecting>>
  PROVE  WireType'
<1>1. <<>> \in Seq(Items) /\ Len(<<>>) = 0 /\ 0 <= WireCapacity BY WireAssumption
<1>2. CASE ListenersGone BY <1>1, <1>2 DEF WireType, ListenersGone
<1>3. CASE \E ch \in Channels : /\ wire' = [wire EXCEPT ![ch] = <<>>]
                                /\ expecting' = [expecting EXCEPT ![ch] = 0]
  BY <1>1, <1>3 DEF WireType
<1>4. CASE UNCHANGED <<wire, expecting>> BY <1>4 DEF WireType
<1>5. QED BY <1>2, <1>3, <1>4

LEMMA CallAndApiType == ASSUME SocketType, SocketCall \/ SocketApi PROVE SocketType'
<1> DEFINE Wires == \/ ListenersGone
                    \/ \E ch \in Channels : /\ wire' = [wire EXCEPT ![ch] = <<>>]
                                            /\ expecting' = [expecting EXCEPT ![ch] = 0]
                    \/ UNCHANGED <<wire, expecting>>
           Calls == \/ ApiStep \/ UnregisterSockets \/ WaitForAcquisition \/ Stop
                    \/ (\E ch \in Channels : RegisterSocket(ch)) \/ \E c \in Configs : SetAll(c)
<1>1. ASSUME Wires, Calls, UNCHANGED <<simVars, sendVars>> PROVE SocketType'
  <2>1. nFilled' = 0 BY <1>1, NothingFilled
  <2>2. TypeInv' BY <1>1, ApiCallType, ApiStepType DEF SocketType, ApiCall
  <2>3. WireType' BY <1>1, FreshWire DEF SocketType
  <2>4. StandInType' /\ LoopType'
    BY <1>1, <2>1 DEF SocketType, StandInType, LoopType, simVars, sendVars
  <2>5. QED BY <2>2, <2>3, <2>4 DEF SocketType
<1>2. CASE Begin
  <2>1. UNCHANGED <<posted, nFilled, armed, content, length, filling, written, flagVars,
                    queueVars, bufferCounter, setupVars, rxVars, apiBuf, apiFull, outVars,
                    sendVars, wire, expecting>>
        /\ recordCounter' = 0 /\ quota' = geometry.nbrBuffers /\ apc' = "posting"
        /\ apiCount' = 0 /\ captured' = 0 /\ samplesPerRecord' = geometry.recordLength
    BY <1>2 DEF Begin, SimAcquire
  <2>2. geometry.nbrBuffers \in Nat /\ geometry.recordLength \in Nat
    BY DEF SocketType, TypeInv, TypeOK, Geometry
  <2>3. TypeInv'
    BY <2>1, <2>2 DEF SocketType, TypeInv, TypeOK, HeldBuffers, BoardTypeOK, flagVars,
       queueVars, setupVars, rxVars, outVars
  <2>4. StandInType' /\ LoopType' /\ WireType'
    BY <2>1, <2>2 DEF SocketType, StandInType, LoopType, WireType, sendVars
  <2>5. QED BY <2>3, <2>4 DEF SocketType
<1>3. ASSUME NEW ch \in Channels, Register(ch) PROVE SocketType'
  <2>1. RegisterSocket(ch) /\ UNCHANGED <<simVars, sendVars>> BY <1>3 DEF Register
  <2>2. wire' = [wire EXCEPT ![ch] = <<>>] /\ expecting' = [expecting EXCEPT ![ch] = 0]
    BY <1>3 DEF Register
  <2>3. Wires BY <2>2
  <2>4. Calls BY <2>1
  <2>5. QED BY <1>1, <2>1, <2>3, <2>4
<1>4. CASE Unregister
  <2>1. UnregisterSockets /\ UNCHANGED <<simVars, sendVars>> BY <1>4 DEF Unregister
  <2>2. ListenersGone \/ UNCHANGED <<wire, expecting>> BY <1>4 DEF Unregister
  <2>3. QED BY <1>1, <2>1, <2>2
<1>5. ASSUME Quiet, Calls PROVE SocketType'
  <2>1. UNCHANGED <<simVars, sendVars>> /\ UNCHANGED <<wire, expecting>>
    BY <1>5 DEF Quiet, listenVars
  <2>2. QED BY <1>1, <1>5, <2>1
<1>6. CASE End
  <2>1. ApiStep /\ UNCHANGED <<simVars, sendVars>> BY <1>6 DEF End, ApiStep
  <2>2. ListenersGone \/ UNCHANGED <<wire, expecting>> BY <1>6 DEF End
  <2>3. QED BY <1>1, <2>1, <2>2
<1>7. CASE SocketApi /\ ~End
  <2>1. ApiStep /\ Quiet BY <1>7 DEF SocketApi, ApiStep
  <2>2. QED BY <1>5, <2>1
<1>8. CASE SocketCall
  BY <1>2, <1>3, <1>4, <1>5, <1>8 DEF SocketCall
<1>9. QED BY <1>6, <1>7, <1>8

LEMMA ListenType ==
  ASSUME SocketType, NEW ch \in Channels, Listen(ch),
         After(expecting[ch], Head(wire[ch])) \in Nat
  PROVE  SocketType'
<1>1. Tail(wire[ch]) \in Seq(Items) /\ Len(Tail(wire[ch])) <= Len(wire[ch])
  BY DEF SocketType, WireType, Listen
<1>2. expecting' = [expecting EXCEPT ![ch] = After(expecting[ch], Head(wire[ch]))]
  BY DEF Listen, After
<1>3. wire' = [wire EXCEPT ![ch] = Tail(@)] BY DEF Listen
<1>4. Len(wire'[ch]) <= WireCapacity
  <2>1. Len(Tail(wire[ch])) \in Nat /\ Len(wire[ch]) \in Nat
    BY <1>1, LenProperties DEF SocketType, WireType
  <2>2. Len(wire[ch]) <= WireCapacity BY DEF SocketType, WireType
  <2>3. wire'[ch] = Tail(wire[ch]) BY <1>3 DEF SocketType, WireType
  <2>4. QED BY <1>1, <2>1, <2>2, <2>3, WireAssumption
<1>5. WireType' BY <1>1, <1>2, <1>3, <1>4 DEF SocketType, WireType
<1>6. TypeInv' BY StutterType DEF SocketType, Listen, engineVars, vars
<1>7. StandInType' /\ LoopType'
  BY DEF SocketType, StandInType, LoopType, Listen, simVars, sendVars, engineVars, boardVars
<1>8. QED BY <1>5, <1>6, <1>7 DEF SocketType

LEMMA RxSocketType == ASSUME SocketType, SendInv, SocketRx PROVE SocketType'
<1>1. CASE BeginSend BY <1>1, BeginSendType
<1>2. CASE SendStep BY <1>2, SendStepType
<1>3. CASE SimWait /\ UNCHANGED <<sendVars, listenVars>> BY <1>3, SimWaitType
<1>4. CASE /\ \/ RxReady \/ RxLoop \/ RxPop \/ RxPopEmpty \/ RxCheckStop \/ RxRoute
              \/ RxQueue \/ RxProcess \/ RxRepost \/ RxPost \/ RxCount \/ RxAbort
           /\ Quiet
  <2>1. nFilled' = 0 /\ Rx BY <1>4, NothingFilled DEF Rx
  <2>2. UNCHANGED <<simVars, sendVars, wire, expecting>> BY <1>4 DEF Quiet, listenVars
  <2>3. QED BY <2>1, <2>2, LibraryType
<1>5. QED BY <1>1, <1>2, <1>3, <1>4 DEF SocketRx
-----------------------------------------------------------------------------
(* What each socket still lacks is what rx has still to send of its chunk: *)
(* while the channel is registered, and while its send() is on its way.  A *)
(* send that fails behind its size leaves a chunk open for good, on a      *)
(* socket nobody writes to any more.                                       *)

DataStep(ch) == IF ch = "ch1" THEN "data1" ELSE "data2"
Open(ch) == IF step = DataStep(ch) THEN chunk - moved ELSE 0

FrameInv ==
  \A ch \in Channels : \E o \in Nat :
    /\ Frames(wire[ch], expecting[ch], o)
    /\ (ch \in sockets \/ step = DataStep(ch)) => o = Open(ch)

StackInv == SendInv /\ SocketType /\ FrameInv

(* A step that leaves a channel's frames alone. *)
FramesStay(ch) ==
  /\ wire'[ch] = wire[ch] /\ expecting'[ch] = expecting[ch]
  /\ (ch \in sockets' \/ step' = DataStep(ch)) =>
        (ch \in sockets \/ step = DataStep(ch)) /\ Open(ch)' = Open(ch)

LEMMA FramesKept ==
  ASSUME FrameInv, NEW ch \in Channels, FramesStay(ch)
  PROVE  \E o \in Nat :
           /\ Frames(wire'[ch], expecting'[ch], o)
           /\ (ch \in sockets' \/ step' = DataStep(ch)) => o = Open(ch)'
<1>1. PICK o \in Nat :
         /\ Frames(wire[ch], expecting[ch], o)
         /\ (ch \in sockets \/ step = DataStep(ch)) => o = Open(ch)
  BY DEF FrameInv
<1>2. Frames(wire'[ch], expecting'[ch], o) BY <1>1 DEF FramesStay
<1>3. (ch \in sockets' \/ step' = DataStep(ch)) => o = Open(ch)' BY <1>1 DEF FramesStay
<1>4. QED BY <1>2, <1>3

LEMMA FramesAlone ==
  ASSUME FrameInv, UNCHANGED <<wire, expecting, step, chunk, moved>>, sockets' \subseteq sockets
  PROVE  FrameInv'
<1>1. ASSUME NEW ch \in Channels PROVE FramesStay(ch)
  BY DEF FramesStay, Open
<1>2. QED BY <1>1, FramesKept DEF FrameInv

(* The end of a channel's part finds its chunk whole and opens none. *)
LEMMA DoneCloses ==
  ASSUME NEW ch \in Channels, NEW other \in Channels, ChannelDone(ch)
  PROVE  step' # DataStep(other) /\ Open(other)' = 0
BY DEF ChannelDone, Open, DataStep, Channels

LEMMA SendStepFrames ==
  ASSUME StackInv, SendStep
  PROVE  FrameInv'
<1> USE DEF StackInv
<1>1. /\ step # "none" /\ LoopType
      /\ UNCHANGED <<sockets, expecting>>
      /\ "ch1" \in Channels /\ "ch2" \in Channels
  BY DEF SendStep, Look, SendSize, SendFloat, SocketType, setupVars, Channels
<1> DEFINE Good(c) == \E o \in Nat :
             /\ Frames(wire'[c], expecting'[c], o)
             /\ (c \in sockets' \/ step' = DataStep(c)) => o = Open(c)'
<1>2. ASSUME NEW c \in Channels, FramesStay(c) PROVE Good(c)
  BY <1>2, FramesKept
<1> HIDE DEF Good
(* A channel whose data is not on its way, now or then. *)
<1>3. ASSUME NEW c \in Channels, wire'[c] = wire[c], step # DataStep(c),
             step' # DataStep(c)
      PROVE  Good(c)
  BY <1>1, <1>2, <1>3 DEF FramesStay, Open
<1>4. ASSUME SendFails, NEW c \in Channels PROVE Good(c)
  <2>1. wire' = wire /\ step' = "none" BY <1>4 DEF SendFails
  <2>2. CASE step = DataStep(c)
    <3>1. c \notin sockets
      <4>1. SendFloat(c, step)
        BY <2>2 DEF SendStep, Look, SendSize, SendFloat, DataStep, Channels
      <4>2. ~ChannelDone(c)
        BY <1>4 DEF SendFails, ChannelDone, RxReturn, RxGoto
      <4>3. QED BY <1>1, <2>1, <4>1, <4>2 DEF SendFloat
    <3>2. QED BY <1>1, <1>2, <2>1, <3>1 DEF FramesStay, DataStep
  <2>3. CASE step # DataStep(c) BY <1>3, <2>1, <2>3 DEF DataStep
  <2>4. QED BY <2>2, <2>3
<1>5. ASSUME NEW ch \in Channels, NEW here, NEW size, Look(ch, here, size), NEW c \in Channels,
             here \in {"look1", "look2"}, size \in {"size1", "size2"}
      PROVE  Good(c)
  <2>1. wire' = wire /\ step # DataStep(c) BY <1>5 DEF Look, DataStep
  <2>2. step' # DataStep(c) BY <1>5, DoneCloses DEF Look, DataStep
  <2>3. QED BY <1>3, <2>1, <2>2
<1>6. ASSUME NEW ch \in Channels, NEW here, SendSize(ch, here, DataStep(ch)),
             here \in {"size1", "size2"}, NEW c \in Channels
      PROVE  Good(c)
  <2>1. CASE SendFails BY <1>4, <2>1
  <2>2. CASE ~SendFails
    <3>1. /\ ch \in sockets /\ wire' = [wire EXCEPT ![ch] = Append(@, SizeItem(chunk))]
          /\ step' = DataStep(ch) /\ moved' = 0 /\ chunk' = chunk
          /\ step = here
      BY <1>6, <2>2 DEF SendSize
    <3>2. CASE c # ch
      <4>1. wire'[c] = wire[c] BY <3>1, <3>2 DEF SocketType, WireType
      <4>2. step # DataStep(c) /\ step' # DataStep(c)
        BY <1>6, <3>1, <3>2 DEF DataStep, Channels
      <4>3. QED BY <1>3, <4>1, <4>2
    <3>3. CASE c = ch
      <4>1. Frames(wire[ch], expecting[ch], 0)
        BY <1>6, <3>1 DEF FrameInv, Open, DataStep
      <4>2. chunk \in Nat /\ SizeItem(chunk) \in Items
        BY <1>1 DEF LoopType, SizeItem, Items
      <4>3. After(0, SizeItem(chunk)) = chunk /\ SizeItem(chunk).kind = "size"
        BY DEF After, SizeItem
      <4>4. Frames(Append(wire[ch], SizeItem(chunk)), expecting[ch], chunk)
        <5>1. wire[ch] \in Seq(Items) BY DEF SocketType, WireType
        <5>2. QED BY <4>1, <4>2, <4>3, <5>1, FramesGrow
      <4>5. wire'[ch] = Append(wire[ch], SizeItem(chunk))
        BY <3>1 DEF SocketType, WireType
      <4>6. Open(ch)' = chunk BY <3>1, <4>2 DEF Open, DataStep
      <4>7. QED BY <1>1, <3>3, <4>2, <4>4, <4>5, <4>6 DEF Good
    <3>4. QED BY <3>2, <3>3
  <2>3. QED BY <2>1, <2>2
<1>7. ASSUME NEW ch \in Channels, SendFloat(ch, DataStep(ch)), NEW c \in Channels
      PROVE  Good(c)
  <2>1. CASE SendFails BY <1>4, <2>1
  <2>2. CASE ~SendFails
    <3> DEFINE item == FloatItem(RoundOf(workSlots) * WorkLen + (WorkLen - rem) + moved)
    <3>1. /\ wire' = [wire EXCEPT ![ch] = Append(@, item)] /\ step = DataStep(ch)
          /\ \/ moved + 1 < chunk /\ moved' = moved + 1 /\ step' = step /\ chunk' = chunk
             \/ ~(moved + 1 < chunk) /\ ChannelDone(ch)
      BY <1>7, <2>2 DEF SendFloat
    <3>2. item \in Items /\ item.kind = "float"
      BY <1>1, FloatType DEF FloatItem, Items
    <3> HIDE DEF item
    <3>3. CASE c # ch
      <4>1. wire'[c] = wire[c] BY <3>1, <3>3 DEF SocketType, WireType
      <4>2. step # DataStep(c) BY <3>1, <3>3 DEF DataStep, Channels
      <4>3. step' # DataStep(c) BY <3>1, <4>2, DoneCloses
      <4>4. QED BY <1>3, <4>1, <4>2, <4>3
    <3>4. CASE c = ch
      <4>1. Frames(wire[ch], expecting[ch], chunk - moved)
        BY <3>1 DEF FrameInv, Open
      <4>2. chunk \in Nat /\ moved \in Nat /\ moved < chunk
        BY <1>1, WireAssumption DEF LoopType, SocketBuffSize
      <4>3. chunk - moved # 0 /\ After(chunk - moved, item) = chunk - moved - 1
            /\ chunk - moved - 1 \in Nat
        BY <4>2 DEF After
      <4>4. Frames(Append(wire[ch], item), expecting[ch], chunk - moved - 1)
        <5>1. wire[ch] \in Seq(Items) BY DEF SocketType, WireType
        <5>2. (item.kind = "size") = (chunk - moved = 0) BY <3>2, <4>3
        <5>3. Frames(Append(wire[ch], item), expecting[ch], After(chunk - moved, item))
          BY <3>2, <4>1, <4>3, <5>1, <5>2, FramesGrow
        <5>4. QED BY <4>3, <5>3
      <4>5. wire'[ch] = Append(wire[ch], item) BY <3>1 DEF SocketType, WireType
      <4>6. Open(ch)' = chunk - moved - 1
        <5>1. CASE moved + 1 < chunk BY <3>1, <4>2, <5>1 DEF Open
        <5>2. CASE ~(moved + 1 < chunk)
          <6>1. chunk - moved - 1 = 0 BY <4>2, <5>2
          <6>2. QED BY <3>1, <5>2, <6>1, DoneCloses
        <5>3. QED BY <5>1, <5>2
      <4>7. QED BY <1>1, <3>4, <4>3, <4>4, <4>5, <4>6 DEF Good
    <3>5. QED BY <3>3, <3>4
  <2>3. QED BY <2>1, <2>2
<1>8. DataStep("ch1") = "data1" /\ DataStep("ch2") = "data2" BY DEF DataStep
<1>9. \A c \in Channels : Good(c)
  BY <1>1, <1>5, <1>6, <1>7, <1>8 DEF SendStep
<1>10. QED BY <1>9 DEF FrameInv, Good

LEMMA RxFrames == ASSUME StackInv, SocketRx PROVE FrameInv'
<1> USE DEF StackInv
<1>1. CASE BeginSend
  <2>1. /\ UNCHANGED <<wire, expecting, sockets>> /\ step = "none" /\ step' = "look1"
    BY <1>1 DEF BeginSend, listenVars, engineVars, setupVars
  <2>2. ASSUME NEW ch \in Channels PROVE FramesStay(ch)
    BY <2>1 DEF FramesStay, Open, DataStep
  <2>3. QED BY <2>2, FramesKept DEF FrameInv
<1>2. CASE SendStep BY <1>2, SendStepFrames
<1>3. CASE SimWait /\ UNCHANGED <<sendVars, listenVars>>
  BY <1>3, FramesAlone
  DEF SimWait, SimDequeue, SimRecord, SimSuccess, setupVars, sendVars, listenVars
<1>4. CASE /\ \/ RxReady \/ RxLoop \/ RxPop \/ RxPopEmpty \/ RxCheckStop \/ RxRoute
              \/ RxQueue \/ RxProcess \/ RxRepost \/ RxPost \/ RxCount \/ RxAbort
           /\ Quiet
  <2>1. UNCHANGED sockets
    BY <1>4 DEF RxReady, RxLoop, RxPop, RxPopEmpty, RxCheckStop, RxRoute, RxQueue, RxProcess,
       RxRepost, RxPost, RxCount, RxAbort, setupVars
  <2>2. UNCHANGED <<wire, expecting, step, chunk, moved>>
    BY <1>4 DEF Quiet, sendVars, listenVars
  <2>3. QED BY <2>1, <2>2, FramesAlone
<1>5. QED BY <1>1, <1>2, <1>3, <1>4 DEF SocketRx

(* Sockets are emptied and registered between acquisitions, when rx has no *)
(* chunk on its way.                                                       *)
LEMMA EmptyFrames ==
  ASSUME NEW ch \in Channels, WireType, wire'[ch] = <<>>, expecting'[ch] = 0, step' = "none"
  PROVE  \E o \in Nat :
           /\ Frames(wire'[ch], expecting'[ch], o)
           /\ (ch \in sockets' \/ step' = DataStep(ch)) => o = Open(ch)'
<1>1. Frames(wire'[ch], expecting'[ch], 0) BY FramesOfNothing
<1>2. Open(ch)' = 0 BY DEF Open, DataStep
<1>3. QED BY <1>1, <1>2

LEMMA CallFrames == ASSUME StackInv, SocketCall \/ SocketApi PROVE FrameInv'
<1> USE DEF StackInv
<1>1. ~threadRunning => step = "none" BY DEF SendInv
<1>2. ASSUME ListenersGone, ~threadRunning, UNCHANGED sendVars PROVE FrameInv'
  <2>1. step' = "none" BY <1>1, <1>2 DEF sendVars
  <2>2. ASSUME NEW ch \in Channels PROVE wire'[ch] = <<>> /\ expecting'[ch] = 0
    BY <1>2 DEF ListenersGone
  <2>3. QED BY <2>1, <2>2, EmptyFrames DEF FrameInv, SocketType
<1>3. ASSUME UNCHANGED <<wire, expecting, sendVars>>, sockets' \subseteq sockets PROVE FrameInv'
  BY <1>3, FramesAlone DEF sendVars
<1>4. ASSUME NEW ch \in Channels, Register(ch) PROVE FrameInv'
  <2>1. /\ ~threadRunning /\ sockets' = sockets \cup {ch} /\ UNCHANGED sendVars
        /\ wire' = [wire EXCEPT ![ch] = <<>>] /\ expecting' = [expecting EXCEPT ![ch] = 0]
    BY <1>4 DEF Register, RegisterSocket
  <2>2. step' = "none" /\ step = "none" BY <1>1, <2>1 DEF sendVars
  <2>3. ASSUME NEW c \in Channels, c # ch PROVE FramesStay(c)
    <3>1. wire'[c] = wire[c] /\ expecting'[c] = expecting[c]
      BY <2>1, <2>3 DEF SocketType, WireType
    <3>2. QED BY <2>1, <2>2, <2>3, <3>1 DEF FramesStay, Open, DataStep
  <2>4. wire'[ch] = <<>> /\ expecting'[ch] = 0 BY <2>1 DEF SocketType, WireType
  <2>5. QED BY <2>2, <2>3, <2>4, FramesKept, EmptyFrames DEF FrameInv, SocketType
<1>5. CASE Begin
  BY <1>3, <1>5 DEF Begin, SimAcquire, setupVars
<1>6. CASE Unregister
  <2>1. sockets' = {} /\ UNCHANGED sendVars BY <1>6 DEF Unregister, UnregisterSockets
  <2>2. CASE threadRunning
    <3>1. UNCHANGED <<wire, expecting>> BY <1>6, <2>2 DEF Unregister
    <3>2. QED BY <1>3, <2>1, <3>1
  <2>3. CASE ~threadRunning
    <3>1. ListenersGone BY <1>6, <2>3 DEF Unregister
    <3>2. QED BY <1>2, <2>1, <2>3, <3>1
  <2>4. QED BY <2>2, <2>3
<1>7. CASE /\ (\E c \in Configs : SetAll(c)) \/ WaitForAcquisition \/ Stop
           /\ Quiet
  <2>1. UNCHANGED sockets
    BY <1>7 DEF SetAll, WaitForAcquisition, Stop, setupVars
  <2>2. UNCHANGED <<wire, expecting, sendVars>> BY <1>7 DEF Quiet, listenVars
  <2>3. QED BY <1>3, <2>1, <2>2
<1>8. CASE End
  <2>1. ~threadRunning /\ UNCHANGED <<sendVars, sockets>>
    BY <1>8 DEF End, ClearQueues, SendInv, setupVars
  <2>2. ListenersGone \/ UNCHANGED <<wire, expecting>> BY <1>8 DEF End
  <2>3. QED BY <1>2, <1>3, <2>1, <2>2
<1>9. CASE SocketApi /\ ~End
  <2>1. UNCHANGED <<wire, expecting, sendVars>>
    BY <1>9 DEF SocketApi, Quiet, listenVars
  <2>2. UNCHANGED sockets
    BY <1>9 DEF SocketApi, PostInitial, StartAcquire, AcquireReturn, ProcessForApp,
       PushForApp, PostForApp, JoinRx, AbortOnStop, setupVars
  <2>3. QED BY <1>3, <2>1, <2>2
<1>10. QED BY <1>4, <1>5, <1>6, <1>7, <1>8, <1>9 DEF SocketCall

(* What a listener takes is what it expects. *)
LEMMA ListenFrames ==
  ASSUME StackInv, NEW ch \in Channels, Listen(ch)
  PROVE  After(expecting[ch], Head(wire[ch])) \in Nat /\ FrameInv'
<1>1. /\ wire[ch] # <<>> /\ wire' = [wire EXCEPT ![ch] = Tail(@)]
      /\ expecting' = [expecting EXCEPT ![ch] = After(expecting[ch], Head(wire[ch]))]
      /\ UNCHANGED <<sockets, step, chunk, moved>>
  BY DEF Listen, After, engineVars, setupVars, sendVars
<1>2. wire \in [Channels -> Seq(Items)] /\ expecting \in [Channels -> Nat]
  BY DEF StackInv, SocketType, WireType
<1>3. PICK o \in Nat :
         /\ Frames(wire[ch], expecting[ch], o)
         /\ (ch \in sockets \/ step = DataStep(ch)) => o = Open(ch)
  BY DEF StackInv, FrameInv
<1>4. /\ After(expecting[ch], Head(wire[ch])) \in Nat
      /\ Frames(Tail(wire[ch]), After(expecting[ch], Head(wire[ch])), o)
  BY <1>1, <1>2, <1>3, FramesTaken
<1>5. Frames(wire'[ch], expecting'[ch], o)
  BY <1>1, <1>2, <1>4
<1>6. (ch \in sockets' \/ step' = DataStep(ch)) => o = Open(ch)'
  BY <1>1, <1>3 DEF Open
<1>7. ASSUME NEW c \in Channels, c # ch PROVE FramesStay(c)
  BY <1>1, <1>2, <1>7 DEF FramesStay, Open
<1>8. FrameInv' BY <1>5, <1>6, <1>7, FramesKept DEF StackInv, FrameInv
<1>9. QED BY <1>4, <1>8

LEMMA InitStack == SocketInit => StackInv
<1> SUFFICES ASSUME SocketInit PROVE StackInv
  OBVIOUS
<1>1. FrameInv
  <2>1. ASSUME NEW ch \in Channels
        PROVE  wire[ch] = <<>> /\ expecting[ch] = 0 /\ Open(ch) = 0
    BY DEF SocketInit, Open, DataStep
  <2>2. QED BY <2>1, FramesOfNothing DEF FrameInv
<1>2. QED BY <1>1, InitSend, InitSocketType DEF StackInv

LEMMA StackStep == StackInv /\ [SocketNext]_allVars => StackInv'
<1> SUFFICES ASSUME StackInv, [SocketNext]_allVars PROVE StackInv'
  OBVIOUS
<1>1. SendInv' BY SendInvStep DEF StackInv
<1>2. CASE SocketRx BY <1>1, <1>2, RxSocketType, RxFrames DEF StackInv
<1>3. CASE SocketCall \/ SocketApi BY <1>1, <1>3, CallAndApiType, CallFrames DEF StackInv
<1>4. CASE \E ch \in Channels : Listen(ch)
  BY <1>1, <1>4, ListenFrames, ListenType DEF StackInv
<1>5. CASE UNCHANGED allVars
  <2>1. TypeInv' BY <1>5, StutterType DEF StackInv, SocketType, allVars, engineVars, vars
  <2>2. StandInType' /\ LoopType' /\ WireType'
    BY <1>5 DEF StackInv, SocketType, StandInType, LoopType, WireType, allVars, engineVars,
       boardVars, simVars, sendVars, listenVars
  <2>3. FrameInv'
    BY <1>5, FramesAlone DEF StackInv, allVars, engineVars, setupVars, sendVars, listenVars
  <2>4. QED BY <1>1, <2>1, <2>2, <2>3 DEF StackInv, SocketType
<1>6. QED BY <1>2, <1>3, <1>4, <1>5 DEF SocketNext

LEMMA StackInvHolds == SocketSpec => []StackInv
BY InitStack, StackStep, PTL DEF SocketSpec

(* Every variable of the stack keeps its type, for every pool, buffer,     *)
(* chunk and socket size: no chunk is larger than a socket buffer or than  *)
(* what is left of its work buffer (libAlazar.cpp:396-449), and the        *)
(* stand-in writes no record beyond its buffer (alazarSim.cpp:74-92).      *)
THEOREM SocketsTyped == SocketSpec => []SocketTypeOK
<1>1. StackInv => SocketTypeOK
  <2> SUFFICES ASSUME StackInv PROVE SocketTypeOK
    OBVIOUS
  <2>1. rem \in 0..WorkLen /\ chunk \in 0..SocketBuffSize /\ moved \in 0..chunk
    BY WireAssumption DEF StackInv, SocketType, LoopType, SocketBuffSize
  <2>2. QED
    BY <2>1 DEF StackInv, SendInv, SocketType, TypeInv, StandInType, LoopType, WireType,
       SocketTypeOK
<1>2. QED BY <1>1, StackInvHolds, PTL

(* A listener that expects a size finds one, one that expects floats finds *)
(* no size, for every chunk and socket size and however the client         *)
(* unregisters sockets while rx sends: each message of                     *)
(* libAlazar.cpp:396-449 is behind its own size.                           *)
THEOREM FramesNeverTorn == SocketSpec => []FramesWhole
<1>1. StackInv => FramesWhole
  <2> SUFFICES ASSUME StackInv, NEW ch \in Channels, wire[ch] # <<>>
               PROVE  (Head(wire[ch]).kind = "size") = (expecting[ch] = 0)
    BY DEF FramesWhole
  <2>1. PICK o \in Nat : Frames(wire[ch], expecting[ch], o)
    BY DEF StackInv, FrameInv
  <2>2. wire[ch] \in Seq(Items) BY DEF StackInv, SocketType, WireType
  <2>3. QED BY <2>1, <2>2, FramesTaken
<1>2. QED BY <1>1, StackInvHolds, PTL
-----------------------------------------------------------------------------
(* The memory the stand-in writes to.                                      *)

(* The buffer inside the stand-in's wait is rx's, allocated and nobody     *)
(* else's, though it is not posted any more.                               *)
FillInv ==
  filling # NoBuffer =>
    /\ rxpc = "wait" /\ filling = rxBuf /\ filling \in ownerQ
    /\ filling \notin Range(posted) \cup Range(dataQ) \cup ApiHolds

SafeInv == LifeInv /\ OwnInv /\ ExclusiveBuffers /\ FillInv

LEMMA InitSafe == SocketInit => SafeInv
BY InitLife, InitOwn, InitExclusive DEF SocketInit, SimInit, SafeInv, FillInv

(* What leaves the queues, the board's and the client's, alone and lets rx *)
(* at most let go of its buffer.                                           *)
LEMMA SafeAlone ==
  ASSUME SafeInv, UNCHANGED <<flagVars, queueVars, apc, apiBuf, posted, filling>>,
         (filling # NoBuffer => UNCHANGED <<rxpc, rxBuf>>),
         rxpc' = "none" <=> rxpc = "none", rxpc' = "post" => rxpc = "post",
         RxHolds' \subseteq RxHolds, rxpc = "post" => rxBuf' = rxBuf
  PROVE  SafeInv'
<1>1. LifeInv' BY DEF SafeInv, LifeInv, flagVars, queueVars
<1>2. OwnInv' BY DEF SafeInv, OwnInv, queueVars
<1>3. ExclusiveBuffers'
  BY DEF SafeInv, ExclusiveBuffers, ApiHolds, queueVars
<1>4. FillInv' BY DEF SafeInv, FillInv, ApiHolds, queueVars
<1>5. QED BY <1>1, <1>2, <1>3, <1>4 DEF SafeInv

(* A queue with one more buffer at its head. *)
LEMMA HeadedRange ==
  ASSUME NEW f, NEW S, NEW q \in Seq(S), f \in S
  PROVE  /\ Range(<<f>> \o q) = Range(q) \cup {f}
         /\ IsInjective(q) /\ f \notin Range(q) => IsInjective(<<f>> \o q)
<1> DEFINE c == <<f>> \o q
           n == Len(q)
<1>1. /\ n \in Nat /\ DOMAIN q = 1..n /\ DOMAIN c = 1..(n + 1) /\ c[1] = f
      /\ \A k \in 1..n : c[k + 1] = q[k]
  OBVIOUS
<1> HIDE DEF c, n
<1>2. \A i \in 1..(n + 1) : i # 1 => i - 1 \in 1..n /\ c[i] = q[i - 1]
  <2>1. SUFFICES ASSUME NEW i \in 1..(n + 1), i # 1
                 PROVE  i - 1 \in 1..n /\ c[i] = q[i - 1]
    OBVIOUS
  <2>2. i - 1 \in 1..n /\ (i - 1) + 1 = i BY <1>1, <2>1
  <2>3. QED BY <1>1, <2>2
<1>3. Range(c) = Range(q) \cup {f}
  <2>1. \A k \in 1..n : k + 1 \in 1..(n + 1) BY <1>1
  <2>2. 1 \in 1..(n + 1) BY <1>1
  <2>3. Range(c) = {c[i] : i \in 1..(n + 1)} /\ Range(q) = {q[k] : k \in 1..n}
    BY <1>1 DEF Range
  <2>4. ASSUME NEW k \in 1..n PROVE q[k] \in Range(c) BY <1>1, <2>1, <2>3
  <2>5. ASSUME NEW i \in 1..(n + 1) PROVE c[i] \in Range(q) \cup {f}
    BY <1>1, <1>2, <2>3
  <2>6. f \in Range(c) BY <1>1, <2>2, <2>3
  <2>7. QED BY <2>3, <2>4, <2>5, <2>6
<1>4. ASSUME IsInjective(q), f \notin Range(q) PROVE IsInjective(c)
  <2>1. \A k \in 1..n : q[k] # f BY <1>1, <1>4 DEF Range
  <2>2. \A j, k \in 1..n : q[j] = q[k] => j = k BY <1>1, <1>4 DEF IsInjective
  <2>3. ASSUME NEW i \in 1..(n + 1), NEW j \in 1..(n + 1), c[i] = c[j] PROVE i = j
    <3>1. CASE i = 1 \/ j = 1 BY <1>1, <1>2, <2>1, <2>3, <3>1
    <3>2. CASE i # 1 /\ j # 1
      <4>1. i - 1 = j - 1 BY <1>2, <2>2, <2>3, <3>2
      <4>2. QED BY <1>1, <4>1
    <3>3. QED BY <3>1, <3>2
  <2>4. QED BY <1>1, <2>3 DEF IsInjective
<1>5. QED BY <1>3, <1>4 DEF c

LEMMA SameOnSequences ==
  \A s : Library!Range(s) = Range(s) /\ (Library!IsInjective(s) <=> IsInjective(s))
BY DEF Library!Range, Range, Library!IsInjective, IsInjective

(* Calls of the engine: what is proved of Acquisition's steps. *)
LEMMA EngineSafe ==
  ASSUME "abort" \notin Faults, TypeInv, SafeInv, ApiCall \/ ApiStep \/ Rx
  PROVE  LifeInv' /\ OwnInv' /\ ExclusiveBuffers'
<1>1. [Next]_vars BY DEF Next
<1>2. QED
  BY <1>1, LifeStep, OwnStep, ExclusiveApiCall, ExclusiveApiStep, ExclusiveRx DEF SafeInv

(* rx does nothing else while it waits. *)
LEMMA RxSafe ==
  ASSUME "abort" \notin Faults, TypeInv, SafeInv, Quiet,
         RxReady \/ RxLoop \/ RxPop \/ RxPopEmpty \/ RxCheckStop \/ RxRoute \/ RxQueue
           \/ RxProcess \/ RxRepost \/ RxPost \/ RxCount \/ RxAbort
  PROVE  SafeInv'
<1>1. LifeInv' /\ OwnInv' /\ ExclusiveBuffers' BY EngineSafe DEF Rx
<1>2. rxpc # "wait"
  BY DEF RxReady, RxLoop, RxPop, RxPopEmpty, RxCheckStop, RxRoute, RxQueue, RxProcess,
         RxRepost, RxPost, RxCount, RxAbort
<1>3. filling = NoBuffer /\ filling' = NoBuffer BY <1>2 DEF SafeInv, FillInv, Quiet, simVars
<1>4. QED BY <1>1, <1>3 DEF SafeInv, FillInv

LEMMA SendSafe ==
  ASSUME SendInv, SafeInv, BeginSend \/ SendStep PROVE SafeInv'
<1>1. rxpc \in {"send1", "send2"}
  BY DEF SendInv, BeginSend, SendStep, Look, SendSize, SendFloat
<1>2. CASE BeginSend
  BY <1>1, <1>2, SafeAlone
     DEF BeginSend, engineVars, boardVars, rxVars, apiVars, simVars, RxHolds
<1>3. CASE SendStep
  <2>1. /\ rxpc' \in {"send1", "send2", "repost", "failed"}
        /\ rxBuf' = rxBuf \/ (rxBuf' = NoBuffer /\ rxpc' = "failed")
    BY <1>1, <1>3, ChunkStep
  <2>2. UNCHANGED <<flagVars, queueVars, apc, apiBuf, posted, filling>>
    BY <1>3 DEF SendStep, boardVars, simVars, apiVars
  <2>3. RxHolds' \subseteq RxHolds BY <1>1, <2>1 DEF RxHolds
  <2>4. filling = NoBuffer BY <1>1 DEF SafeInv, FillInv
  <2>5. QED BY <1>1, <2>1, <2>2, <2>3, <2>4, SafeAlone
<1>4. QED BY <1>2, <1>3

(* The stand-in's wait. *)
LEMMA WaitSafe ==
  ASSUME TypeInv, SafeInv, SimWait PROVE SafeInv'
<1>1. CASE SimDequeue
  <2>1. /\ rxpc = "wait" /\ posted # <<>> /\ posted' = Tail(posted)
        /\ UNCHANGED <<flagVars, queueVars, apiVars>>
    BY <1>1 DEF SimDequeue
  <2>2. posted \in Seq(Buffers) BY DEF TypeInv, TypeOK, BoardTypeOK
  <2>3. /\ IsInjective(posted') /\ Head(posted) \notin Range(posted')
        /\ Range(posted) = Range(posted') \cup {Head(posted)}
    BY <2>1, <2>2, InjectivePop, RangeOfPop DEF SafeInv, ExclusiveBuffers
  <2>4. \/ filling' = rxBuf /\ rxBuf = Head(posted) /\ rxpc' = rxpc /\ rxBuf' = rxBuf
        \/ filling' = filling /\ filling = NoBuffer /\ rxpc' = "failed"
    BY <1>1 DEF SimDequeue, RxReturn, rxVars
  <2>5. UNCHANGED <<ownerQ, dataQ, bufferQ, apc, apiBuf, threadRunning, threadStop>>
    BY <2>1 DEF flagVars, queueVars, apiVars
  <2>6. LifeInv' BY <2>1, <2>4, <2>5 DEF SafeInv, LifeInv
  <2>7. OwnInv' BY <2>1, <2>3, <2>4, <2>5 DEF SafeInv, OwnInv
  <2>8. RxHolds' = {} BY <2>1, <2>4 DEF RxHolds
  <2>9. ExclusiveBuffers'
    BY <2>3, <2>5, <2>8 DEF SafeInv, ExclusiveBuffers, ApiHolds
  <2>10. FillInv'
    BY <2>1, <2>3, <2>4, <2>5 DEF SafeInv, FillInv, OwnInv, ExclusiveBuffers, ApiHolds
  <2>11. QED BY <2>6, <2>7, <2>9, <2>10 DEF SafeInv
<1>2. CASE SimRecord
  BY <1>2, SafeAlone DEF SimRecord, rxVars, apiVars, RxHolds
<1>3. CASE SimSuccess
  <2>1. /\ rxpc = "wait" /\ filling = rxBuf /\ filling \in ownerQ
        /\ filling \notin Range(posted) \cup Range(dataQ) \cup ApiHolds
    BY <1>3 DEF SimSuccess, SafeInv, FillInv
  <2>2. /\ filling' = NoBuffer /\ rxpc' = "route" /\ rxBuf' = rxBuf
        /\ UNCHANGED <<posted, ownerQ, dataQ, bufferQ, apc, apiBuf, threadRunning, threadStop>>
    BY <1>3 DEF SimSuccess, RxGoto, boardVars, flagVars, queueVars, apiVars
  <2>3. LifeInv' BY <2>1, <2>2 DEF SafeInv, LifeInv
  <2>4. OwnInv' BY <2>1, <2>2 DEF SafeInv, OwnInv
  <2>5. RxHolds' = {filling} /\ RxHolds = {} BY <2>1, <2>2 DEF RxHolds
  <2>6. ExclusiveBuffers'
    BY <2>1, <2>2, <2>5 DEF SafeInv, ExclusiveBuffers, ApiHolds
  <2>7. QED BY <2>2, <2>3, <2>4, <2>6 DEF SafeInv, FillInv
<1>4. QED BY <1>1, <1>2, <1>3 DEF SimWait

(* The client's calls: while rx waits, they take buffers from dataQ and    *)
(* post those they have taken.                                             *)
LEMMA CallSafe ==
  ASSUME "abort" \notin Faults, TypeInv, SafeInv, SocketCall PROVE SafeInv'
<1>1. CASE Begin
  <2>1. /\ apc = "idle" /\ ~threadRunning /\ apc' = "posting"
        /\ UNCHANGED <<posted, ownerQ, bufferQ, dataQ, threadRunning, threadStop, rxpc, rxBuf>>
        /\ UNCHANGED <<apiBuf, filling>>
    BY <1>1 DEF Begin, SimAcquire, flagVars, queueVars, rxVars
  <2>2. LifeInv' BY <2>1 DEF SafeInv, LifeInv
  <2>3. OwnInv' BY <2>1 DEF SafeInv, OwnInv
  <2>4. ExclusiveBuffers' BY <2>1 DEF SafeInv, ExclusiveBuffers, RxHolds, ApiHolds
  <2>5. FillInv' BY <2>1 DEF SafeInv, FillInv, ApiHolds
  <2>6. QED BY <2>2, <2>3, <2>4, <2>5 DEF SafeInv
<1>2. CASE ~Begin
  <2>1. ApiCall /\ UNCHANGED filling
    BY <1>2 DEF SocketCall, ApiCall, Unregister, Register, Quiet, simVars
  <2>2. LifeInv' /\ OwnInv' /\ ExclusiveBuffers' BY <2>1, EngineSafe
  <2>3. UNCHANGED <<posted, ownerQ, rxpc, rxBuf>>
    BY <1>2 DEF SocketCall, Unregister, Register, SetAll, RegisterSocket, UnregisterSockets,
       WaitForAcquisition, Stop, boardVars, queueVars, rxVars
  <2>4. Range(dataQ') \cup ApiHolds' \subseteq Range(dataQ) \cup ApiHolds
    <3>1. CASE WaitForAcquisition
      <4>1. /\ dataQ \in Seq(Buffers) /\ apiBuf' = Head(dataQ)
            /\ dataQ = <<>> \/ dataQ' = Tail(dataQ)
            /\ dataQ = <<>> => UNCHANGED <<dataQ, apc, apiBuf>>
        BY <3>1 DEF WaitForAcquisition, TypeInv, TypeOK
      <4>2. dataQ # <<>> => Range(dataQ) = Range(Tail(dataQ)) \cup {Head(dataQ)}
        BY <4>1, RangeOfPop
      <4>3. QED BY <4>1, <4>2 DEF ApiHolds
    <3>2. CASE ~WaitForAcquisition
      BY <1>2, <3>2 DEF SocketCall, Unregister, Register, SetAll, RegisterSocket,
         UnregisterSockets, Stop, queueVars, apiVars, ApiHolds
    <3>3. QED BY <3>1, <3>2
  <2>5. FillInv' BY <2>1, <2>3, <2>4 DEF SafeInv, FillInv
  <2>6. QED BY <2>2, <2>5 DEF SafeInv
<1>3. QED BY <1>1, <1>2

LEMMA ApiSafe ==
  ASSUME "abort" \notin Faults, TypeInv, SafeInv, SocketApi PROVE SafeInv'
<1>1. ApiStep /\ UNCHANGED filling
  BY DEF SocketApi, ApiStep, End, Quiet, simVars
<1>2. LifeInv' /\ OwnInv' /\ ExclusiveBuffers' BY <1>1, EngineSafe
<1>3. FillInv'
  <2>1. SUFFICES ASSUME filling # NoBuffer PROVE FillInv' BY <1>1 DEF FillInv
  <2>2. /\ rxpc = "wait" /\ threadRunning
        /\ filling = rxBuf /\ filling \in ownerQ
        /\ filling \notin Range(posted) \cup Range(dataQ) \cup ApiHolds
    BY <2>1 DEF SafeInv, FillInv, LifeInv
  <2>3. AcquireReturn \/ ProcessForApp \/ PushForApp \/ PostForApp
    BY <1>1, <2>2 DEF ApiStep, PostInitial, StartAcquire, JoinRx, RxReturned, AbortOnStop,
       ClearQueues, SafeInv, LifeInv
  <2>4. UNCHANGED <<rxpc, rxBuf, dataQ>> /\ ownerQ \subseteq ownerQ'
    BY <2>3 DEF AcquireReturn, ProcessForApp, PushForApp, PostForApp, Enqueue, queueVars,
       rxVars
  <2>5. ApiHolds' \subseteq ApiHolds
    BY <2>3 DEF AcquireReturn, ProcessForApp, PushForApp, PostForApp, ApiHolds
  <2>6. Range(posted') \subseteq Range(posted) \cup ApiHolds
    <3>1. CASE PostForApp
      <4>1. /\ apc = "post" /\ apiBuf \in Buffers
            /\ PostAsyncBuffer(apiBuf, geometry.bufferLen) \/ posted' = posted
        BY <3>1 DEF PostForApp, TypeInv, HeldBuffers, boardVars
      <4>2. QED BY <4>1, PostedAfterPost DEF ApiHolds, TypeInv, TypeOK
    <3>2. CASE ~PostForApp
      BY <2>3, <3>2 DEF AcquireReturn, ProcessForApp, PushForApp, boardVars
    <3>3. QED BY <3>1, <3>2
  <2>7. QED BY <1>1, <2>2, <2>4, <2>5, <2>6 DEF FillInv
<1>4. QED BY <1>2, <1>3 DEF SafeInv

LEMMA SafeStep ==
  ASSUME "abort" \notin Faults
  PROVE  StackInv /\ SafeInv /\ [SocketNext]_allVars => SafeInv'
<1> SUFFICES ASSUME StackInv, SafeInv, [SocketNext]_allVars PROVE SafeInv'
  OBVIOUS
<1>1. TypeInv /\ SendInv BY DEF StackInv, SocketType
<1>2. CASE SocketRx BY <1>1, <1>2, RxSafe, SendSafe, WaitSafe DEF SocketRx
<1>3. CASE SocketCall \/ SocketApi BY <1>1, <1>3, CallSafe, ApiSafe
<1>4. CASE (\E ch \in Channels : Listen(ch)) \/ UNCHANGED allVars
  <2>1. UNCHANGED <<engineVars, simVars>> BY <1>4 DEF Listen, allVars
  <2>2. QED BY <2>1, SafeAlone DEF engineVars, boardVars, simVars, rxVars, apiVars, RxHolds
<1>5. QED BY <1>2, <1>3, <1>4 DEF SocketNext

(* The lengths the stand-in goes by, and the room of the buffers.           *)

LEMMA RoomAlone ==
  ASSUME RoomInv, OnItsWay' \subseteq OnItsWay, Range(posted') \subseteq Range(posted),
         UNCHANGED <<length, room, geometry, threadRunning, apc>>
  PROVE  RoomInv'
BY DEF RoomInv, PostedFits

(* In the stand-in acquire finds nothing posted, as AlazarBeforeAsyncRead  *)
(* of a board demands.                                                     *)
LEMMA RoomAcquire ==
  ASSUME "setAll" \notin MidRun, TypeInv, SafeInv, RoomInv, SimAcquire
  PROVE  RoomInv'
<1>1. posted = <<>> BY DEF SafeInv, LifeInv, SimAcquire
<1>2. Acquire BY <1>1 DEF SimAcquire, Acquire, BeforeAsyncRead
<1>3. QED BY <1>2, RoomApi DEF ApiCall, SafeInv

LEMMA RoomSend ==
  ASSUME SendInv, RoomInv, BeginSend \/ SendStep PROVE RoomInv'
<1>1. rxpc \in {"send1", "send2"}
  BY DEF SendInv, BeginSend, SendStep, Look, SendSize, SendFloat
<1>2. UNCHANGED <<boardVars, flagVars, queueVars, setupVars, apiVars>>
  BY DEF BeginSend, SendStep, engineVars
<1>3. CASE BeginSend BY <1>3, <1>2, RoomAlone
  DEF BeginSend, engineVars, boardVars, flagVars, queueVars, setupVars, apiVars, rxVars,
      OnItsWay, RxHolds, ApiHolds
<1>4. CASE SendStep
  <2>1. /\ rxpc' \in {"send1", "send2", "repost", "failed"}
        /\ rxBuf' = rxBuf \/ (rxBuf' = NoBuffer /\ rxpc' = "failed")
    BY <1>1, <1>4, ChunkStep
  <2>2. OnItsWay' \subseteq OnItsWay
    BY <1>1, <1>2, <2>1 DEF OnItsWay, RxHolds, ApiHolds, queueVars, apiVars
  <2>3. QED
    BY <1>2, <2>2, RoomAlone DEF boardVars, flagVars, setupVars, apiVars
<1>5. QED BY <1>3, <1>4

LEMMA RoomWait ==
  ASSUME TypeInv, RoomInv, SimWait, filling # NoBuffer => rxpc = "wait"
  PROVE  RoomInv'
<1>1. UNCHANGED <<length, room, geometry, threadRunning, apc, apiBuf, bufferQ, dataQ>>
  BY DEF SimWait, SimDequeue, SimRecord, SimSuccess, boardVars, flagVars, queueVars,
     setupVars, apiVars
<1>2. posted \in Seq(Buffers) BY DEF TypeInv, TypeOK, BoardTypeOK
<1>3. CASE SimDequeue
  <2>1. Range(posted') \subseteq Range(posted)
    BY <1>2, <1>3, RangeOfPop DEF SimDequeue
  <2>2. OnItsWay' \subseteq OnItsWay
    BY <1>1, <1>3 DEF SimDequeue, RxReturn, rxVars, OnItsWay, RxHolds, ApiHolds
  <2>3. QED BY <1>1, <2>1, <2>2, RoomAlone
<1>4. CASE SimRecord
  <2>1. posted' = posted /\ OnItsWay' = OnItsWay
    BY <1>1, <1>4 DEF SimRecord, rxVars, OnItsWay, RxHolds, ApiHolds
  <2>2. QED BY <1>1, <2>1, RoomAlone
<1>5. CASE SimSuccess
  <2>0. rxpc = "wait" /\ UNCHANGED <<posted, rxBuf>> /\ rxpc' = "route"
    BY <1>5 DEF SimSuccess, RxGoto, boardVars
  <2>1. OnItsWay' \subseteq OnItsWay
    <3>1. ApiHolds' = ApiHolds BY <1>1 DEF ApiHolds
    <3>2. RxHolds' = {rxBuf} BY <2>0 DEF RxHolds
    <3>3. rxBuf \in OnItsWay BY <2>0 DEF OnItsWay
    <3>4. Range(bufferQ) \cup Range(dataQ) \cup ApiHolds \subseteq OnItsWay BY DEF OnItsWay
    <3>5. OnItsWay' = Range(bufferQ) \cup Range(dataQ) \cup ApiHolds \cup {rxBuf}
      BY <1>1, <2>0, <3>1, <3>2 DEF OnItsWay
    <3>6. QED BY <3>3, <3>4, <3>5
  <2>2. QED BY <1>1, <2>0, <2>1, RoomAlone
<1>6. QED BY <1>3, <1>4, <1>5 DEF SimWait

MeasureInv == SizeInv /\ RoomInv

LEMMA InitMeasure == SocketInit => MeasureInv
BY InitRoom, RangeOfEmpty DEF SocketInit, Init, SimInit, SizeInv, MeasureInv

LEMMA MeasureStep ==
  ASSUME "setAll" \notin MidRun
  PROVE  StackInv /\ SafeInv /\ MeasureInv /\ [SocketNext]_allVars => MeasureInv'
<1> SUFFICES ASSUME StackInv, SafeInv, MeasureInv, [SocketNext]_allVars PROVE MeasureInv'
  OBVIOUS
<1>1. /\ TypeInv /\ LifeInv /\ OwnInv /\ SendInv /\ SizeInv /\ RoomInv
      /\ filling \in Buffers \cup {NoBuffer} /\ (filling # NoBuffer => rxpc = "wait")
  BY DEF StackInv, SocketType, StandInType, SafeInv, FillInv, MeasureInv
<1>2. CASE BeginSend \/ SendStep
  <2>1. UNCHANGED <<boardVars, simVars, flagVars, setupVars, apiVars>>
    BY <1>2 DEF BeginSend, SendStep, engineVars
  <2>2. SizeInv'
    BY <1>1, <2>1, SizeKept DEF boardVars, simVars, flagVars, setupVars, apiVars, SameRun
  <2>3. QED BY <1>1, <1>2, <2>2, RoomSend DEF MeasureInv
<1>3. CASE SimWait BY <1>1, <1>3, SizeWait, RoomWait DEF MeasureInv
<1>4. CASE /\ \/ RxReady \/ RxLoop \/ RxPop \/ RxPopEmpty \/ RxCheckStop \/ RxRoute
              \/ RxQueue \/ RxProcess \/ RxRepost \/ RxPost \/ RxCount \/ RxAbort
           /\ Quiet
  BY <1>1, <1>4, SizeRx, RoomRx DEF Quiet, Rx, MeasureInv
<1>5. CASE Begin
  BY <1>1, <1>5, SizeAcquire, RoomAcquire DEF Begin, MeasureInv
<1>6. CASE SocketApi \/ (SocketCall /\ ~Begin)
  <2>1. /\ UNCHANGED simVars
        /\ \/ ApiStep \/ UnregisterSockets \/ WaitForAcquisition \/ Stop
           \/ (\E ch \in Channels : RegisterSocket(ch)) \/ \E c \in Configs : SetAll(c)
    BY <1>6 DEF SocketApi, SocketCall, ApiStep, End, Unregister, Register, Quiet
  <2>2. SizeInv' BY <1>1, <2>1, SizeApi
  <2>3. RoomInv' BY <1>1, <2>1, RoomApi DEF ApiCall
  <2>4. QED BY <2>2, <2>3 DEF MeasureInv
<1>7. CASE (\E ch \in Channels : Listen(ch)) \/ UNCHANGED allVars
  <2>1. UNCHANGED <<boardVars, simVars, flagVars, queueVars, setupVars, rxVars, apiVars>>
    BY <1>7 DEF Listen, allVars, engineVars
  <2>2. SizeInv'
    BY <1>1, <2>1, SizeKept DEF boardVars, simVars, flagVars, setupVars, apiVars, SameRun
  <2>3. RoomInv'
    BY <1>1, <2>1, RoomAlone DEF boardVars, flagVars, queueVars, setupVars, rxVars, apiVars,
       OnItsWay, RxHolds, ApiHolds
  <2>4. QED BY <2>2, <2>3 DEF MeasureInv
<1>8. QED BY <1>2, <1>3, <1>4, <1>5, <1>6, <1>7 DEF SocketNext, SocketRx

LEMMA InsideRoom ==
  ASSUME StackInv, SafeInv, MeasureInv PROVE WritesInside
<1> SUFFICES ASSUME filling # NoBuffer, samplesPerRecord # 0
             PROVE  RecordsPerBuffer * samplesPerRecord <= room[filling]
  BY DEF WritesInside
<1>1. rxpc = "wait" /\ filling = rxBuf /\ threadRunning
  BY DEF SafeInv, FillInv, LifeInv
<1>2. room[filling] = geometry.bufferLen BY <1>1 DEF MeasureInv, RoomInv, OnItsWay
<1>3. posted \in Seq(Buffers) BY DEF StackInv, SocketType, TypeInv, TypeOK, BoardTypeOK
<1>4. posted # <<>> => posted[Len(posted)] \in Range(posted)
  BY <1>3, LenProperties, EmptySeq DEF Range
<1>5. bufferLenBytes = geometry.bufferLen
  BY <1>1, <1>4 DEF MeasureInv, SizeInv, bufferLenBytes, LastPosted
<1>6. bufferLenBytes \in Nat /\ samplesPerRecord \in Nat \ {0}
  BY LengthRead DEF StackInv, SocketType, StandInType
<1>7. \A n \in Nat : \A k \in Nat \ {0} : (n \div k) * k <= n OBVIOUS
<1>8. QED BY <1>2, <1>5, <1>6, <1>7 DEF RecordsPerBuffer

(* The stand-in never writes to a buffer that was freed, waits in dataQ or *)
(* is being read, also between the moment it takes the buffer off its      *)
(* queue and the end of the wait, nor beyond the end of the buffer, though *)
(* it goes by the length of the latest post and the record length of       *)
(* AlazarBeforeAsyncRead (alazarSim.cpp:41-71); and stop leaves none with  *)
(* it.  For every client that configures only while no acquisition is on,  *)
(* whatever it unregisters meanwhile, and every failure but the abort's.   *)
(* (With a larger geometry configured in mid-run postBuffer announces more *)
(* than was allocated, and the stand-in writes that far.)                  *)
THEOREM StandInWritesSafely ==
  ASSUME "abort" \notin Faults, "setAll" \notin MidRun
  PROVE  SocketSpec => [](/\ Library!MemoryLive
                          /\ Library!ExclusiveBuffers
                          /\ Library!CleanWhenStopped
                          /\ WritesInside)
<1>1. StackInv /\ SafeInv =>
        Library!MemoryLive /\ Library!ExclusiveBuffers /\ Library!CleanWhenStopped
  <2> SUFFICES ASSUME StackInv, SafeInv
               PROVE  Library!MemoryLive /\ Library!ExclusiveBuffers /\ Library!CleanWhenStopped
    OBVIOUS
  <2>1. posted \in Seq(Buffers) BY DEF StackInv, SocketType, TypeInv, TypeOK, BoardTypeOK
  <2>2. CASE filling = NoBuffer
    <3>1. BoardFifo = posted BY <2>2 DEF BoardFifo
    <3>2. Library!MemoryLive
      BY <3>1, SameOnSequences DEF SafeInv, OwnInv, Library!MemoryLive, Library!Allocated
    <3>3. Library!ExclusiveBuffers
      BY <3>1, SameOnSequences
         DEF SafeInv, ExclusiveBuffers, RxHolds, ApiHolds, Library!ExclusiveBuffers,
             Library!RxHolds, Library!ApiHolds
    <3>4. Library!CleanWhenStopped
      BY <3>1 DEF SafeInv, LifeInv, Library!CleanWhenStopped
    <3>5. QED BY <3>2, <3>3, <3>4
  <2>3. CASE filling # NoBuffer
    <3>1. /\ rxpc = "wait" /\ threadRunning /\ filling = rxBuf /\ filling \in ownerQ
          /\ filling \notin Range(posted) \cup Range(dataQ) \cup ApiHolds
      BY <2>3 DEF SafeInv, FillInv, LifeInv
    <3>2. BoardFifo = <<filling>> \o posted BY <2>3 DEF BoardFifo
    <3>3. Range(BoardFifo) = Range(posted) \cup {filling} /\ IsInjective(BoardFifo)
      BY <2>1, <3>1, <3>2, HeadedRange DEF SafeInv, ExclusiveBuffers, FillInv, StackInv,
         SocketType, TypeInv, TypeOK
    <3>4. Library!MemoryLive
      BY <3>1, <3>3, SameOnSequences DEF SafeInv, OwnInv, Library!MemoryLive, Library!Allocated
    <3>5. Library!ExclusiveBuffers
      BY <3>1, <3>3, SameOnSequences
         DEF SafeInv, ExclusiveBuffers, RxHolds, ApiHolds, Library!ExclusiveBuffers,
             Library!RxHolds, Library!ApiHolds
    <3>6. Library!CleanWhenStopped BY <3>1 DEF Library!CleanWhenStopped
    <3>7. QED BY <3>4, <3>5, <3>6
  <2>4. QED BY <2>2, <2>3
<1>2. StackInv /\ SafeInv /\ MeasureInv => WritesInside BY InsideRoom
<1>3. QED
  BY <1>1, <1>2, InitSafe, SafeStep, InitMeasure, MeasureStep, StackInvHolds, PTL
  DEF SocketSpec
=============================================================================
