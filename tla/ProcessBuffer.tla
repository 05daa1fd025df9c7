--------------------------- MODULE ProcessBuffer ---------------------------
(***************************************************************************)
(* processBuffer (src/lib/libAlazar.cpp): the bytes of a buffer become     *)
(* samples in the two channel arrays, de-interleaved, assembled from the   *)
(* buffers of a round robin, and averaged.  The geometry is the one        *)
(* ConfigureBoard computes.                                                *)
(*                                                                         *)
(* A sample is known by its channel and its place in the acquisition, an   *)
(* element of an array by the samples added up in it (a bag) and the       *)
(* divisor; volts are left out.  Buffers are processed in capture order,   *)
(* by rx when sockets are registered and else by the polling client, while *)
(* rx counts the buffers it received: processPartialBuffer places a buffer *)
(* by rx's counter, whoever processes it.                                  *)
(*                                                                         *)
(* acquire does not ask how setAll ended.  What the board puts into the    *)
(* buffers of a mixture of two configurations is not modelled, only where  *)
(* processBuffer then writes and reads.  setAll is called between          *)
(* acquisitions only (Acquisition has it at any time).                     *)
(***************************************************************************)
EXTENDS ConfigureBoard, Bags, Folds

VARIABLES
  acquiring,      \* between acquire and stop
  onSocket,       \* rx processes into the work buffers and sends those
  bufferCounter,  \* buffers rx has counted in this acquisition
  processed,      \* buffers processed in it
  inStep,         \* bufferCounter was the number of each of those
  work,           \* ch1WorkBuff, ch2WorkBuff
  app,            \* the arrays given to wait_for_acquisition
  full,           \* what the last processBuffer returned
  results,        \* how often it returned 1 in this acquisition
  overrun         \* an index was out of bounds in this acquisition

configVars == <<board, acqParams, result>>
processVars == <<acquiring, onSocket, bufferCounter, processed, inStep, work,
                 app, full, results, overrun>>

Channels == {"ch1", "ch2"}

(* Elements of the arrays. *)
Zero == [sum |-> EmptyBag, over |-> 1]
Value(sample) == [sum |-> SetToBag({sample}), over |-> 1]
Old == Value(<<"old", 0>>)
ArraysOf(element, size) == [ch \in Channels |-> [x \in 0..(size - 1) |-> element]]

(* The extents of the averager's loops. *)
ni == board.recordLength
nj == board.nbrWaveforms
nk == board.nbrSegments
nl == IF board.partialBuffer THEN 1 ELSE board.roundRobinsPerBuffer

half == board.bufferLen \div 2

(* The sample in byte p of the buffer: channels alternate, records follow  *)
(* each other from buffer to buffer.                                       *)
Byte(p) ==
  <<IF p % 2 = 0 THEN "ch1" ELSE "ch2", processed * half + p \div 2>>
Interleaved(x, ch) == Byte(IF ch = "ch1" THEN 2 * x ELSE 2 * x + 1)

partialIndex == bufferCounter % board.buffersPerRoundRobin
BugByteOffset == board.bufferLen * partialIndex
Offset == (board.bufferLen * partialIndex) \div 2
BugNeverLast == board.partialBuffer => partialIndex = board.buffersPerRoundRobin
LastOfRoundRobin ==
  board.partialBuffer => partialIndex = board.buffersPerRoundRobin - 1

(* The samples of the buffer on channel ch, from an offset of the array.   *)
Place(array, offset, ch) ==
  [x \in DOMAIN array |->
     IF x - offset \in 0..(half - 1) THEN Value(Interleaved(x - offset, ch))
     ELSE array[x]]
PlaceOverruns(array, offset) == offset + half > Cardinality(DOMAIN array)

(* The averager's loops over a source of samples (a buffer's, or those in  *)
(* the work buffer), into a cleared array: element i + k*ni gets waveform  *)
(* j of round robin l for all j and l.                                     *)
BugSegmentsFirst(i, j, k, l) == i + k*ni + j*ni*nk + l*ni*nj*nk
SourceIndex(i, j, k, l) == i + j*ni + k*ni*nj + l*ni*nj*nk
Denominator == nj * nl
Elements(x) == {SourceIndex(x % ni, j, x \div ni, l) :
                  j \in 0..(nj - 1), l \in 0..(nl - 1)}
Total(source, indices) ==
  MapThenFoldSet(LAMBDA a, b : a (+) b, EmptyBag, LAMBDA s : source[s].sum,
                 LAMBDA S : CHOOSE s \in S : TRUE, indices)
Averaged(array, source) ==
  [x \in DOMAIN array |->
     IF x < ni * nk THEN [sum |-> Total(source, Elements(x)), over |-> Denominator]
     ELSE Zero]
AverageOverruns(array, samples) ==
  ni * nk > Cardinality(DOMAIN array) \/ ni * nj * nk * nl > samples
-----------------------------------------------------------------------------
ProcessInit ==
  /\ Init
  /\ acquiring = FALSE /\ onSocket = FALSE
  /\ bufferCounter = 0 /\ processed = 0 /\ inStep = TRUE /\ results = 0
  /\ work = ArraysOf(Old, 0) /\ app = ArraysOf(Old, 0)
  /\ full = FALSE /\ overrun = FALSE

(* setAll between acquisitions; what the arrays hold then is of no use.    *)
(* The work buffers are resized and the client allocates what it was told. *)
BugNotResized(c) ==
  /\ ~acquiring
  /\ RefuseSetup(c) \/ RefuseRecordLength(c) \/ Configure(c)
  /\ app' = ArraysOf(Old, acqParams'.samplesPerAcquisition)
  /\ UNCHANGED <<acquiring, onSocket, bufferCounter, processed, inStep, work, full,
                 results, overrun>>
SetAll(c) ==
  /\ ~acquiring
  /\ RefuseSetup(c) \/ RefuseRecordLength(c) \/ Configure(c)
  /\ work' = ArraysOf(Old, board'.samplesPerAcquisition)
  /\ app' = ArraysOf(Old, acqParams'.samplesPerAcquisition)
  /\ UNCHANGED <<acquiring, onSocket, bufferCounter, processed, inStep, full,
                 results, overrun>>

(* acquire, with the sockets registered or not; it does not look at how    *)
(* setAll ended.                                                           *)
Acquire(socket) ==
  /\ ~acquiring /\ result # "divisionByZero"
  /\ acquiring' = TRUE /\ onSocket' = socket
  /\ bufferCounter' = 0
  /\ UNCHANGED <<configVars, processed, inStep, work, app, full, results, overrun>>

(* rx has put a buffer into dataQ and counts it. *)
RxCounts ==
  /\ acquiring /\ ~onSocket /\ ~overrun
  /\ bufferCounter < board.nbrBuffers
  /\ bufferCounter' = bufferCounter + 1
  /\ UNCHANGED <<configVars, acquiring, onSocket, processed, inStep, work, app, full,
                 results, overrun>>

(* A buffer has been processed, into `written` the work buffers and into   *)
(* `filled` the arrays the caller passed - which are the work buffers when *)
(* rx is the caller; rx then counts it.                                    *)
Processed(written, filled) ==
  /\ work' = IF onSocket THEN filled ELSE written
  /\ app' = IF onSocket THEN app ELSE filled
  /\ full' = LastOfRoundRobin
  /\ results' = results + (IF LastOfRoundRobin THEN 1 ELSE 0)
  /\ processed' = processed + 1
  /\ inStep' = (inStep /\ bufferCounter = processed)
  /\ bufferCounter' = bufferCounter + (IF onSocket THEN 1 ELSE 0)
  /\ UNCHANGED <<configVars, acquiring, onSocket>>

(* The client may take a buffer that rx has put into dataQ and not counted *)
(* yet.  What an overrun does to the rest of the memory is not followed.   *)
HasBuffer ==
  /\ acquiring /\ ~overrun
  /\ processed < board.nbrBuffers /\ processed <= bufferCounter
Passed == IF onSocket THEN work ELSE app

ProcessCompleteBuffer ==
  /\ HasBuffer
  /\ ~board.partialBuffer
  /\ overrun' = IF board.averager THEN AverageOverruns(Passed["ch1"], half)
                ELSE PlaceOverruns(Passed["ch1"], 0)
  /\ Processed(work, [ch \in Channels |->
       IF overrun' THEN Passed[ch]
       ELSE IF board.averager
       THEN Averaged(Passed[ch], [x \in 0..(half - 1) |-> Value(Interleaved(x, ch))])
       ELSE Place([x \in DOMAIN Passed[ch] |-> Zero], 0, ch)])

ProcessPartialDigitizer ==
  /\ HasBuffer
  /\ board.partialBuffer /\ ~board.averager
  /\ Processed(work, [ch \in Channels |-> Place(Passed[ch], Offset, ch)])
  /\ overrun' = PlaceOverruns(Passed["ch1"], Offset)

(* Both channels' samples are put into ch1WorkBuff, ch2's over ch1's.  The *)
(* averager clears the arrays the caller passed and then reads the work    *)
(* buffers, which on the socket path it has just cleared.  (An element of  *)
(* a work buffer is read before the loops add to it or while it is 0, so   *)
(* the order of the loops does not show.)                                  *)
ProcessPartialAverager ==
  LET written == [work EXCEPT
                    !["ch1"] = Place(Place(@, Offset, "ch1"), Offset, "ch2")]
      cleared == [ch \in Channels |-> [x \in DOMAIN Passed[ch] |-> Zero]]
      source == IF onSocket THEN cleared ELSE written
      averaged == [ch \in Channels |-> Averaged(cleared[ch], source[ch])]
  IN /\ HasBuffer
     /\ board.partialBuffer /\ board.averager
     /\ overrun' = \/ PlaceOverruns(work["ch1"], Offset)
                   \/ /\ LastOfRoundRobin
                      /\ AverageOverruns(Passed["ch1"], Cardinality(DOMAIN work["ch1"]))
     /\ IF overrun' \/ ~LastOfRoundRobin
        THEN Processed(written, IF onSocket THEN written ELSE app)
        ELSE Processed(written, averaged)

(* stop, after any number of buffers; what is recorded of the acquisition  *)
(* ends with it.                                                           *)
Stop ==
  /\ acquiring
  /\ acquiring' = FALSE
  /\ processed' = 0 /\ inStep' = TRUE
  /\ full' = FALSE /\ results' = 0 /\ overrun' = FALSE
  /\ work' = ArraysOf(Old, board.samplesPerAcquisition)
  /\ app' = ArraysOf(Old, acqParams.samplesPerAcquisition)
  /\ UNCHANGED <<configVars, onSocket, bufferCounter>>

ProcessNext ==
  \/ \E c \in Requests : SetAll(c)
  \/ \E socket \in BOOLEAN : Acquire(socket)
  \/ RxCounts
  \/ ProcessCompleteBuffer \/ ProcessPartialDigitizer
  \/ ProcessPartialAverager \/ Stop

ProcessSpec == ProcessInit /\ [][ProcessNext]_<<configVars, processVars>>
-----------------------------------------------------------------------------
(* Every variable has its type, the counters with the bounds of the        *)
(* acquisition that is on; where rx processes, the two are one.            *)
ProcessTypeOK ==
  /\ TypeOK
  /\ {acquiring, onSocket, inStep, full, overrun} \subseteq BOOLEAN
  /\ acquiring => {bufferCounter, processed} \subseteq 0..board.nbrBuffers
  /\ acquiring /\ onSocket => processed = bufferCounter
  /\ results \in 0..processed
  /\ \A ch \in Channels :
       /\ DOMAIN work[ch] = 0..(board.samplesPerAcquisition - 1)
       /\ DOMAIN app[ch] = 0..(acqParams.samplesPerAcquisition - 1)

(* After a setAll that was not refused processBuffer stays inside the      *)
(* arrays the client allocated for samplesPerAcquisition samples, inside   *)
(* the work buffers and inside the buffer it reads (libAlazar.cpp:307-331  *)
(* against 679-795), whatever rx has counted by then.  (After a refused    *)
(* one it need not: 105 and 280-303 store fields that 331 never sees.)     *)
NoOverrun == result = "ok" => ~overrun

(* The result at hand when processBuffer returned 1 for buffer             *)
(* processed - 1, and what it should be by the layout of an            *)
(* acquisition: records of waveforms within segments within round robins.  *)
ResultNumber ==
  (processed - 1)
    \div (IF board.partialBuffer THEN board.buffersPerRoundRobin ELSE 1)
Layout(g) ==
  LET record == g \div ni
  IN [position |-> g % ni, waveform |-> record % nj,
      segment |-> (record \div nj) % nk, roundRobin |-> record \div (nj * nk)]
RoundRobins == {ResultNumber * nl + l : l \in 0..(nl - 1)}
Expected(ch, x) ==
  IF board.averager
  THEN [sum |-> SetToBag(
          {<<ch, g>> : g \in {g \in 0..(ni*nj*nk*board.nbrRoundRobins - 1) :
              /\ Layout(g).roundRobin \in RoundRobins
              /\ Layout(g).segment = x \div ni
              /\ Layout(g).position = x % ni}}),
        over |-> nj * nl]
  ELSE Value(<<ch, ResultNumber * acqParams.samplesPerAcquisition + x>>)

ResultRight ==
  \A ch \in Channels : \A x \in DOMAIN Passed[ch] :
    Passed[ch][x] = Expected(ch, x)

(* A finished result is what the mode promises: every sample of its round  *)
(* robins on its channel, in order, or for each segment the average over   *)
(* waveforms and round robins (README.md:5-6: "averaging capability around *)
(* inner (waveforms) or outer (round robins) loops"); nothing is left in   *)
(* it of an earlier result, acquisition or configuration.  A round robin   *)
(* of several buffers needs bufferCounter in step with the processing, as  *)
(* it is when rx processes; polled, a client may be late and the place is  *)
(* another buffer's.  Averaged it is wrong anyhow: see the last two.       *)
ResultsRight ==
  (/\ full /\ result = "ok"
   /\ board.partialBuffer => inStep /\ ~board.averager)
    => ResultRight

(* An acquisition that ran to its end has given exactly the number of      *)
(* results the application was told to wait for - when a round robin takes *)
(* several buffers, if bufferCounter was in step.                          *)
ResultCount ==
  (/\ acquiring /\ result = "ok" /\ processed = board.nbrBuffers
   /\ board.partialBuffer => inStep)
    => results = acqParams.numberAcquisitions

(* test_alazar_driver.py:141-148, 329-342 (test_partial_buffer_averager):  *)
(* the averages over the waveforms of a round robin that takes several     *)
(* buffers match the pattern on both channels, for a client that polls;    *)
(* asked only of a client that is never late.                              *)
PolledAverageRight == full /\ ~onSocket /\ result = "ok" /\ inStep => ResultRight

(* README.md:5-7: averaging, and "Data is passed to the user application   *)
(* through a socket interface": what rx sends when a round robin is        *)
(* averaged is made of samples, whichever channel they are put on.         *)
SentAverageHasSamples ==
  onSocket /\ full /\ result = "ok" =>
    \A ch \in Channels : \E x \in DOMAIN work[ch] : work[ch][x].sum # EmptyBag
=============================================================================
