--------------------------- MODULE ConfigureBoard ---------------------------
(***************************************************************************)
(* setAll's work on the board object: ConfigureBoard and getBufferSize     *)
(* (src/lib/libAlazar.cpp), which divide the records of an acquisition     *)
(* into DMA buffers and tell the application how many samples to expect.   *)
(* The board object outlives the calls: a call that is refused half-way,   *)
(* or a branch that leaves a field alone, leaves what an earlier call put  *)
(* there.                                                                  *)
(*                                                                         *)
(* uint32_t arithmetic wraps at Word.  Sizes can be given in units of 64   *)
(* samples (the alignment of recordLength) when the limits and Word are    *)
(* divided by 64 too: every product below has recordLength as a factor or  *)
(* counts records.                                                         *)
(***************************************************************************)
EXTENDS Integers, FiniteSets, FiniteSetsExt

CONSTANTS
  Word,            \* 2^32
  MinRecord,       \* 256 samples
  RecordAlign,     \* 64 samples
  MaxBufferSize,   \* MAX_BUFFER_SIZE
  PrefBufferSize,  \* PREF_BUFFER_SIZE
  Requests         \* the ConfigData_t's the client may pass

(* uint32_t *)
Unsigned == 0..(Word - 1)

Request == [averager : BOOLEAN, recordLength : Unsigned, nbrSegments : Unsigned,
            nbrWaveforms : Unsigned, nbrRoundRobins : Unsigned]

ASSUME SizesAssumption ==
  /\ {Word, MinRecord, RecordAlign, MaxBufferSize, PrefBufferSize} \subseteq Nat \ {0}
  /\ PrefBufferSize <= MaxBufferSize /\ MaxBufferSize < Word
ASSUME RequestsAssumption == Requests \subseteq Request

VARIABLES
  board,      \* the fields of AlazarATS9870 that setAll computes
  acqParams,  \* what the application was told
  result      \* how the last setAll ended

vars == <<board, acqParams, result>>

numChannels == 2

(* uint32_t multiplication. *)
a \otimes b == (a * b) % Word

Divisors(n) == {d \in 1..n : n % d = 0}
-----------------------------------------------------------------------------
Init ==
  /\ board = [averager |-> FALSE, recordLength |-> 0, nbrSegments |-> 0,
              nbrWaveforms |-> 0, nbrRoundRobins |-> 0,
              partialBuffer |-> FALSE, bufferLen |-> 0, nbrBuffers |-> 0,
              roundRobinsPerBuffer |-> 0, buffersPerRoundRobin |-> 0,
              recordsPerBuffer |-> 0, recordsPerAcquisition |-> 0,
              samplesPerAcquisition |-> 0]
  /\ acqParams = [samplesPerAcquisition |-> 0, numberAcquisitions |-> 0]
  /\ result = "none"

(* The list of n's factors: the loop counts up from 1 and puts every factor *)
(* it finds in front, so that a factor's place is the number of factors at *)
(* least as large.                                                         *)
BugEveryNumber(n) == [i \in 1..n |-> n - i + 1]
Factors(n) ==
  LET found == Divisors(n)
      place(d) == Cardinality({e \in found : e >= d})
  IN [i \in 1..Cardinality(found) |-> CHOOSE d \in found : place(d) = i]

(* How many round robins, or records of a round robin, a buffer has room   *)
(* for: the test in each of the two loops.                                 *)
BugTooLong(b) == 1..b.nbrRoundRobins
FittingRoundRobins(b) ==
  {rr \in 1..b.nbrRoundRobins :
     b.recordLength \otimes b.nbrSegments \otimes b.nbrWaveforms
       \otimes rr \otimes numChannels <= PrefBufferSize}
FittingRecords(b) ==
  {rec \in 1..(b.nbrSegments \otimes b.nbrWaveforms) :
     b.recordLength \otimes rec \otimes numChannels <= PrefBufferSize}

(* Each loop goes through its list from the front, takes a factor that     *)
(* fits and breaks; without one the variable stays what it was.            *)
BugNoBreak(factors, fitting, otherwise) ==
  LET places == {i \in DOMAIN factors : factors[i] \in fitting}
  IN IF places = {} THEN otherwise ELSE factors[Max(places)]
FirstFitting(factors, fitting, otherwise) ==
  LET places == {i \in DOMAIN factors : factors[i] \in fitting}
  IN IF places = {} THEN otherwise ELSE factors[Min(places)]

(* getBufferSize when a buffer holds whole round robins: as many as fit.   *)
WholeRoundRobins(b, rr) ==
  LET records == b.nbrSegments \otimes b.nbrWaveforms \otimes rr
  IN [b EXCEPT
       !.roundRobinsPerBuffer = rr,
       !.bufferLen = b.recordLength \otimes b.nbrSegments
                       \otimes b.nbrWaveforms \otimes rr \otimes numChannels,
       !.nbrBuffers = b.nbrRoundRobins \div rr,
       !.recordsPerBuffer = records,
       !.recordsPerAcquisition = records \otimes (b.nbrRoundRobins \div rr),
       !.partialBuffer = FALSE]

(* ... and when one round robin takes several buffers.  Without a fitting  *)
(* number of records recordsPerBuffer stays what it was.                   *)
DividedRoundRobin(b) ==
  LET records == FirstFitting(Factors(b.nbrSegments \otimes b.nbrWaveforms),
                              FittingRecords(b), b.recordsPerBuffer)
      all == b.nbrSegments \otimes b.nbrWaveforms \otimes b.nbrRoundRobins
      Filled == [b EXCEPT
        !.roundRobinsPerBuffer = 0,
        !.recordsPerBuffer = records,
        !.bufferLen = b.recordLength \otimes records \otimes numChannels,
        !.recordsPerAcquisition = all,
        !.nbrBuffers = all \div records,
        !.partialBuffer = TRUE,
        !.buffersPerRoundRobin = (all \div records) \div b.nbrRoundRobins]
  IN IF records = 0 \/ b.nbrRoundRobins = 0
     THEN [board |-> b, result |-> "divisionByZero"]
     ELSE [board |-> Filled,
           result |-> IF Filled.buffersPerRoundRobin \otimes records
                           \otimes b.recordLength > MaxBufferSize
                      THEN "refused" ELSE "ok"]

(* getBufferSize *)
GetBufferSize(b) ==
  LET rr == FirstFitting(Factors(b.nbrRoundRobins), FittingRoundRobins(b), 0)
  IN IF b.recordLength \otimes numChannels > MaxBufferSize
     THEN [board |-> b, result |-> "refused"]
     ELSE IF rr >= 1
          THEN [board |-> WholeRoundRobins(b, rr), result |-> "ok"]
          ELSE DividedRoundRobin(b)

(* What ConfigureBoard tells the application, unless it divides by zero:   *)
(* with a stale recordsPerBuffer that is more than the acquisition has.    *)
NoNumber(b) == b.partialBuffer /\ b.buffersPerRoundRobin = 0
BugAllWaveforms(b) ==
  [samplesPerAcquisition |->
     b.recordLength \otimes b.nbrSegments \otimes b.nbrWaveforms
       \otimes (IF b.partialBuffer THEN 1 ELSE b.roundRobinsPerBuffer),
   numberAcquisitions |-> b.nbrBuffers]
AcquisitionParams(b) ==
  [samplesPerAcquisition |->
     IF b.averager THEN b.recordLength \otimes b.nbrSegments
     ELSE b.recordLength \otimes b.nbrSegments \otimes b.nbrWaveforms
            \otimes (IF b.partialBuffer THEN 1 ELSE b.roundRobinsPerBuffer),
   numberAcquisitions |->
     IF b.partialBuffer THEN b.nbrBuffers \div b.buffersPerRoundRobin
     ELSE b.nbrBuffers]
-----------------------------------------------------------------------------
(* ConfigureBoard returns before it gets to the record length: an unknown  *)
(* board, mode, scale, coupling, bandwidth, trigger source or slope, a     *)
(* decimation the board cannot do, or a driver call that fails.  The mode  *)
(* may have been taken over by then.                                       *)
RefuseSetup(c) ==
  /\ result # "divisionByZero"
  /\ \/ UNCHANGED board
     \/ board' = [board EXCEPT !.averager = c.averager]
  /\ result' = "refused"
  /\ UNCHANGED acqParams

(* ... at the record length, which is already stored. *)
RefuseRecordLength(c) ==
  /\ result # "divisionByZero"
  /\ c.recordLength < MinRecord \/ c.recordLength % RecordAlign # 0
  /\ board' = [board EXCEPT !.averager = c.averager,
                            !.recordLength = c.recordLength]
  /\ result' = "refused"
  /\ UNCHANGED acqParams

(* ... or gets to the buffer size. *)
Configure(c) ==
  LET stored == [board EXCEPT !.averager = c.averager,
                              !.recordLength = c.recordLength,
                              !.nbrSegments = c.nbrSegments,
                              !.nbrWaveforms = c.nbrWaveforms,
                              !.nbrRoundRobins = c.nbrRoundRobins]
      sized == GetBufferSize(stored)
      params == AcquisitionParams(sized.board)
  IN /\ result # "divisionByZero"
     /\ c.recordLength >= MinRecord /\ c.recordLength % RecordAlign = 0
     /\ IF sized.result = "ok" /\ ~NoNumber(sized.board)
        THEN /\ acqParams' = params
             /\ board' = [sized.board EXCEPT
                            !.samplesPerAcquisition = params.samplesPerAcquisition]
             /\ result' = "ok"
        ELSE /\ board' = sized.board
             /\ result' = IF sized.result = "ok" THEN "divisionByZero" ELSE sized.result
             /\ UNCHANGED acqParams

Next ==
  \E c \in Requests : RefuseSetup(c) \/ RefuseRecordLength(c) \/ Configure(c)

Spec == Init /\ [][Next]_vars
-----------------------------------------------------------------------------
(* Every field has its type; and processPartialBuffer, which divides by    *)
(* buffersPerRoundRobin (libAlazar.cpp:733), is only used when it can.     *)
TypeOK ==
  /\ board.averager \in BOOLEAN /\ board.partialBuffer \in BOOLEAN
  /\ \A f \in DOMAIN board \ {"averager", "partialBuffer"} : board[f] \in Unsigned
  /\ result # "divisionByZero" /\ board.partialBuffer => board.buffersPerRoundRobin > 0
  /\ acqParams.samplesPerAcquisition \in Nat
  /\ acqParams.numberAcquisitions \in Nat
  /\ result \in {"none", "ok", "refused", "divisionByZero"}

recordsPerRoundRobin == board.nbrSegments * board.nbrWaveforms

(* A buffer holds exactly its records, within the size Alazar recommends,  *)
(* and the board is told to stop after nbrBuffers of them                  *)
(* (libAlazar.cpp:571, 587, 611-615, 649-653; AlazarBeforeAsyncRead gets   *)
(* recordsPerBuffer and recordsPerAcquisition at 481-484).                 *)
BuffersHoldRecords ==
  result = "ok" =>
    /\ board.bufferLen = board.recordLength * board.recordsPerBuffer * numChannels
    /\ board.bufferLen <= PrefBufferSize
    /\ board.recordsPerAcquisition = board.recordsPerBuffer * board.nbrBuffers

(* libAlazar.cpp:577-579: "Each buffer will contain an integer number of   *)
(* round robins and the number of round robins will be divided equally     *)
(* amoung all of the buffers."                                             *)
RoundRobinsDividedEqually ==
  result = "ok" /\ ~board.partialBuffer =>
    /\ board.roundRobinsPerBuffer * board.nbrBuffers = board.nbrRoundRobins
    /\ board.bufferLen = board.recordLength * recordsPerRoundRobin
                           * board.roundRobinsPerBuffer * numChannels

(* libAlazar.cpp:623: "A round robin must be equally divided into buffers". *)
RoundRobinEquallyDivided ==
  result = "ok" /\ board.partialBuffer =>
    /\ board.recordsPerBuffer * board.buffersPerRoundRobin = recordsPerRoundRobin
    /\ board.buffersPerRoundRobin * board.nbrRoundRobins = board.nbrBuffers

(* No coarser equal division fits the recommended size: fewer, larger      *)
(* transfers are not possible (libAlazar.cpp:587, 634).                    *)
LargestBuffers ==
  LET TooLarge(records) ==
        board.recordLength * records * numChannels > PrefBufferSize
  IN result = "ok" =>
       \A d \in Divisors(IF board.partialBuffer THEN recordsPerRoundRobin
                         ELSE board.nbrRoundRobins) :
         IF board.partialBuffer
         THEN d > board.recordsPerBuffer => TooLarge(d)
         ELSE d > board.roundRobinsPerBuffer => TooLarge(d * recordsPerRoundRobin)

(* The application's buffers, filled numberAcquisitions times, take every  *)
(* sample of a digitizer acquisition, and of an averaged one one record    *)
(* per segment and result; what it was told is what the library uses.      *)
SamplesConserved ==
  result = "ok" =>
    /\ acqParams.samplesPerAcquisition = board.samplesPerAcquisition
    /\ IF board.averager
       THEN acqParams.samplesPerAcquisition
              = board.recordLength * board.nbrSegments
       ELSE acqParams.samplesPerAcquisition * acqParams.numberAcquisitions
              = board.recordLength * recordsPerRoundRobin * board.nbrRoundRobins

(* libAlazar.h:78-79: "this working buffer is used for the partial buffer  *)
(* logic when a round robin is distributed over multiple buffers": it has  *)
(* room for the buffers of a round robin, which processPartialBuffer puts  *)
(* one after the other into it (libAlazar.cpp:745-751).                    *)
WorkBufferFits ==
  result = "ok" /\ board.partialBuffer /\ board.averager =>
    board.buffersPerRoundRobin * board.recordsPerBuffer * board.recordLength
      <= board.samplesPerAcquisition
=============================================================================
