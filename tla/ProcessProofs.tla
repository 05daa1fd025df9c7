---------------------------- MODULE ProcessProofs ----------------------------
(***************************************************************************)
(* processBuffer for every configuration whose products fit a uint32_t and *)
(* whose records fit a buffer (RegularRequests, in GeometryProofs).  The   *)
(* inductive invariants are GeometryInv for the geometry, ProcessInv for   *)
(* the counters and the extents of the arrays, and Placed for a round      *)
(* robin of which only some of the buffers have come.                      *)
(***************************************************************************)
EXTENDS ProcessBuffer, GeometryProofs, FiniteSetTheorems

processAll == <<configVars, processVars>>

(* The board object is assigned to by setAll only.                         *)
LEMMA ConfiguresOnly == [ProcessNext]_processAll => [Next]_vars
<1> SUFFICES ASSUME [ProcessNext]_processAll PROVE [Next]_vars
  OBVIOUS
<1>1. ASSUME NEW c \in Requests, SetAll(c) PROVE Next
  BY <1>1 DEF SetAll, Next
<1>2. ASSUME NEW socket \in BOOLEAN, Acquire(socket) PROVE UNCHANGED vars
  BY <1>2 DEF Acquire, configVars, vars
<1>3. CASE ProcessCompleteBuffer
  BY <1>3 DEF ProcessCompleteBuffer, Processed, configVars, vars
<1>4. CASE ProcessPartialDigitizer
  BY <1>4 DEF ProcessPartialDigitizer, Processed, configVars, vars
<1>5. CASE ProcessPartialAverager
  <2>1. PICK written, filled : Processed(written, filled)
    BY <1>5, Zenon DEF ProcessPartialAverager
  <2>2. QED BY <2>1 DEF Processed, configVars, vars
<1>6. CASE Stop BY <1>6 DEF Stop, configVars, vars
<1>7. CASE UNCHANGED processAll BY <1>7 DEF processAll, configVars, vars
<1>8. CASE RxCounts BY <1>8 DEF RxCounts, configVars, vars
<1>9. QED BY <1>1, <1>2, <1>3, <1>4, <1>5, <1>6, <1>7, <1>8 DEF ProcessNext

(* Of the actions of ProcessBuffer only setAll assigns to ConfigureBoard's *)
(* variables, so what is proved of ConfigureBoard holds here.              *)
LEMMA ProcessConfigures == ProcessSpec => Spec
<1>1. ProcessInit => Init BY DEF ProcessInit
<1>2. [ProcessNext]_processAll => [Next]_vars BY ConfiguresOnly
<1>3. QED BY <1>1, <1>2, PTL DEF ProcessSpec, Spec, processAll

LEMMA ProcessGeometry == ASSUME RegularRequests PROVE ProcessSpec => []GeometryInv
BY ProcessConfigures, GeometryHolds, PTL
-----------------------------------------------------------------------------
(* Arithmetic. *)

(* A quotient and a remainder are the only ones. *)
LEMMA Unique ==
  ASSUME NEW q \in Nat \ {0}, NEW d \in Nat, NEW r \in 0..(q - 1)
  PROVE  (d * q + r) \div q = d /\ (d * q + r) % q = r
OBVIOUS

LEMMA NoneOf == ASSUME NEW q \in Nat \ {0} PROVE 0 \div q = 0
OBVIOUS

LEMMA Split ==
  ASSUME NEW n \in Nat, NEW q \in Nat \ {0}
  PROVE  n \div q \in Nat /\ n % q \in 0..(q - 1) /\ n = (n \div q) * q + (n % q)
<1>1. n \div q \in Nat /\ n % q \in 0..(q - 1)
  <2>1. q \in Int /\ q > 0 /\ n \in Int OBVIOUS
  <2>2. n \div q \in Nat OBVIOUS
  <2>3. n % q \in Int /\ 0 <= n % q /\ n % q < q BY <2>1
  <2>4. QED BY <2>1, <2>2, <2>3
<1>2. n = q * (n \div q) + (n % q) OBVIOUS
<1>3. q * (n \div q) = (n \div q) * q BY <1>1
<1>4. QED BY <1>1, <1>2, <1>3

LEMMA NextQuotient ==
  ASSUME NEW n \in Nat, NEW q \in Nat \ {0}
  PROVE  /\ n % q = q - 1 => (n + 1) \div q = n \div q + 1 /\ (n + 1) % q = 0
         /\ n % q # q - 1 => (n + 1) \div q = n \div q /\ (n + 1) % q = (n % q) + 1
<1> DEFINE d == n \div q
           r == n % q
<1>1. d \in Nat /\ r \in 0..(q - 1) /\ n = d * q + r BY Split
<1> HIDE DEF d, r
<1>2. ASSUME r = q - 1 PROVE (n + 1) \div q = d + 1 /\ (n + 1) % q = 0
  <2>1. n + 1 = (d + 1) * q + 0
    <3> DEFINE p == d * q
    <3>1. (d + 1) * q = p + q /\ p \in Nat /\ n = p + r BY <1>1
    <3> HIDE DEF p
    <3>2. n + 1 = p + q + 0 BY <1>1, <1>2, <3>1
    <3>3. QED BY <3>1, <3>2
  <2>2. 0 \in 0..(q - 1) /\ d + 1 \in Nat BY <1>1
  <2>3. (n + 1) \div q = d + 1 /\ (n + 1) % q = 0
    <3> DEFINE e == d + 1
    <3>1. n + 1 = e * q + 0 /\ e \in Nat BY <2>1, <2>2
    <3> HIDE DEF e
    <3>2. (e * q + 0) \div q = e /\ (e * q + 0) % q = 0 BY <2>2, <3>1, Unique
    <3>3. QED BY <3>1, <3>2, Zenon DEF e
  <2>4. QED BY <2>3
<1>3. ASSUME r # q - 1 PROVE (n + 1) \div q = d /\ (n + 1) % q = r + 1
  <2>1. n + 1 = d * q + (r + 1) BY <1>1
  <2>2. r + 1 \in 0..(q - 1) BY <1>1, <1>3
  <2>3. QED BY <1>1, <2>1, <2>2, Unique
<1>4. QED BY <1>2, <1>3 DEF d, r
-----------------------------------------------------------------------------
(* The counters and the extents of the arrays. *)

PerResult == IF board.partialBuffer THEN board.buffersPerRoundRobin ELSE 1

Arrays(arrays, size) ==
  DOMAIN arrays = Channels /\ \A ch \in Channels : DOMAIN arrays[ch] = 0..(size - 1)

(* The place processPartialBuffer takes from bufferCounter is right: it    *)
(* takes none when a buffer holds whole round robins.                      *)
InPlace == board.partialBuffer => inStep

ProcessInv ==
  /\ acquiring \in BOOLEAN /\ onSocket \in BOOLEAN /\ full \in BOOLEAN /\ overrun \in BOOLEAN
  /\ inStep \in BOOLEAN
  /\ bufferCounter \in Nat /\ processed \in Nat /\ results \in 0..processed
  /\ Arrays(work, board.samplesPerAcquisition)
  /\ Arrays(app, acqParams.samplesPerAcquisition)
  /\ full \/ overrun => acquiring
  /\ ~acquiring => processed = 0
  /\ acquiring => bufferCounter <= board.nbrBuffers /\ processed <= board.nbrBuffers
  /\ acquiring /\ onSocket => processed = bufferCounter
  /\ result = "ok" /\ InPlace => results = processed \div PerResult

(* The extent of the arrays processBuffer was passed. *)
PassedSize ==
  IF onSocket THEN board.samplesPerAcquisition ELSE acqParams.samplesPerAcquisition

(* A configuration that was not refused. *)
LEMMA Extents ==
  ASSUME GeometryInv, result = "ok", bufferCounter \in Nat
  PROVE  LET samples == acqParams.samplesPerAcquisition
         IN /\ samples \in Nat /\ board.samplesPerAcquisition = samples
            /\ board.nbrBuffers \in Nat /\ half \in Nat
            /\ PerResult \in Nat \ {0}
            /\ board.nbrBuffers = PerResult * acqParams.numberAcquisitions
            /\ acqParams.numberAcquisitions \in Nat
            /\ ~board.averager => samples = half * PerResult
            /\ board.partialBuffer => PerResult = board.buffersPerRoundRobin
            /\ board.partialBuffer => Offset = half * partialIndex
<1> DEFINE L == board.recordLength
           S == board.nbrSegments
           W == board.nbrWaveforms
           R == board.nbrRoundRobins
           samples == acqParams.samplesPerAcquisition
<1>1. L \in Nat /\ S \in Nat /\ W \in Nat /\ R \in Nat /\ board.nbrBuffers \in Nat BY Numbers
<1>2. /\ Told
      /\ samples \in Nat /\ acqParams.numberAcquisitions \in Nat
      /\ board.samplesPerAcquisition = samples
  BY SizesAssumption DEF GeometryInv, Params, Unsigned, Told
<1>3. CASE board.partialBuffer
  <2>1. DividedSize(board) BY <1>3 DEF GeometryInv
  <2>2. PICK d \in Divisors(S * W) : \E q \in Nat :
           /\ S * W = d * q /\ d \in Nat /\ q > 0
           /\ board.buffersPerRoundRobin = q /\ board.bufferLen = L * d * 2
           /\ board.nbrBuffers = q * R
    BY <2>1 DEF DividedSize
  <2>3. PICK q \in Nat :
           /\ S * W = d * q /\ q > 0
           /\ board.buffersPerRoundRobin = q /\ board.nbrBuffers = q * R
    BY <2>2
  <2>4. PerResult = q BY <1>3, <2>3 DEF PerResult
  <2>5. half = L * d
    <3>1. L * d \in Nat /\ L * d * 2 = 2 * (L * d) BY <1>1, <2>2
    <3>2. (2 * (L * d)) \div 2 = L * d BY <3>1, Exact
    <3>3. QED BY <2>2, <3>1, <3>2 DEF half
  <2>6. Offset = half * partialIndex
    <3> DEFINE p == partialIndex
    <3>1. p \in Nat BY <2>3, Split DEF partialIndex
    <3> HIDE DEF p
    <3>2. L * d * 2 * p = 2 * (L * d * p) /\ L * d * p \in Nat BY <1>1, <2>2, <3>1
    <3>3. (2 * (L * d * p)) \div 2 = L * d * p BY <3>2, Exact
    <3>4. (board.bufferLen * p) \div 2 = half * p BY <2>2, <2>5, <3>2, <3>3
    <3>5. QED BY <3>4 DEF Offset, p
  <2>7. ~board.averager => samples = half * PerResult
    <3>1. ~board.averager => samples = L * S * W BY <1>2, <1>3 DEF Told
    <3>2. L * S * W = L * d * q
      <4>1. L * S * W = L * (S * W) BY <1>1
      <4>2. L * (d * q) = L * d * q BY <1>1, <2>2
      <4>3. QED BY <2>3, <4>1, <4>2
    <3>3. QED BY <2>4, <2>5, <3>1, <3>2
  <2>8. acqParams.numberAcquisitions = R BY <1>2, <1>3 DEF Told
  <2>9. L * d \in Nat BY <1>1, <2>2
  <2>10. QED BY <1>1, <1>2, <1>3, <2>3, <2>4, <2>5, <2>6, <2>7, <2>8, <2>9
<1>4. CASE ~board.partialBuffer
  <2>1. WholeSize(board) BY <1>4 DEF GeometryInv
  <2>2. PICK rr \in Divisors(R) :
           /\ rr \in Nat /\ board.roundRobinsPerBuffer = rr
           /\ board.bufferLen = L * S * W * rr * 2
    BY <2>1 DEF WholeSize
  <2>3. PerResult = 1 BY <1>4 DEF PerResult
  <2>4. half = L * S * W * rr /\ half \in Nat
    <3>1. L * S * W * rr \in Nat /\ L * S * W * rr * 2 = 2 * (L * S * W * rr)
      BY <1>1, <2>2
    <3>2. (2 * (L * S * W * rr)) \div 2 = L * S * W * rr BY <3>1, Exact
    <3>3. QED BY <2>2, <3>1, <3>2 DEF half
  <2>5. ~board.averager => samples = half
    BY <1>2, <1>4, <2>2, <2>4 DEF Told
  <2>6. acqParams.numberAcquisitions = board.nbrBuffers BY <1>2, <1>4 DEF Told
  <2>7. half * 1 = half /\ 1 * board.nbrBuffers = board.nbrBuffers BY <1>1, <2>4
  <2>8. QED BY <1>1, <1>2, <1>4, <2>3, <2>4, <2>5, <2>6, <2>7
<1>5. QED BY <1>3, <1>4

(* A configuration of whole round robins.                                  *)
LEMMA WholeExtents ==
  ASSUME GeometryInv, result = "ok", ~board.partialBuffer
  PROVE  /\ ni \in Nat /\ nj \in Nat /\ nk \in Nat /\ nl \in Nat \ {0}
         /\ board.nbrBuffers \in Nat /\ board.nbrRoundRobins = nl * board.nbrBuffers
         /\ half = ni * nk * nj * nl
         /\ board.averager => acqParams.samplesPerAcquisition = ni * nk
<1>1. ni \in Nat /\ nj \in Nat /\ nk \in Nat /\ board.nbrBuffers \in Nat
  BY Numbers DEF ni, nj, nk
<1>2. WholeSize(board) /\ Told BY DEF GeometryInv
<1>3. PICK rr \in Divisors(board.nbrRoundRobins) :
         /\ board.nbrRoundRobins = rr * board.nbrBuffers /\ rr \in Nat /\ rr > 0
         /\ board.roundRobinsPerBuffer = rr
         /\ board.bufferLen = ni * nk * nj * rr * 2
  BY <1>2 DEF WholeSize, ni, nj, nk
<1>4. nl = rr BY <1>3 DEF nl
<1>5. half = ni * nk * nj * rr
  <2>1. ni * nk * nj * rr \in Nat /\ ni * nk * nj * rr * 2 = 2 * (ni * nk * nj * rr)
    BY <1>1, <1>3
  <2>2. (2 * (ni * nk * nj * rr)) \div 2 = ni * nk * nj * rr BY <2>1, Exact
  <2>3. QED BY <1>3, <2>1, <2>2 DEF half
<1>6. board.averager => acqParams.samplesPerAcquisition = ni * nk
  BY <1>2 DEF Told, ni, nk
<1>7. QED BY <1>1, <1>3, <1>4, <1>5, <1>6

LEMMA LastCompletes ==
  ASSUME GeometryInv, result = "ok", processed \in Nat,
         board.partialBuffer => bufferCounter = processed
  PROVE  LastOfRoundRobin <=> processed % PerResult = PerResult - 1
<1>1. CASE board.partialBuffer
  BY <1>1 DEF LastOfRoundRobin, PerResult, partialIndex
<1>2. CASE ~board.partialBuffer
  <2>1. processed % 1 = 0 OBVIOUS
  <2>2. QED BY <1>2, <2>1 DEF LastOfRoundRobin, PerResult
<1>3. QED BY <1>1, <1>2

(* A buffer has been processed into arrays of the right extent.            *)
LEMMA ProcessedKeeps ==
  ASSUME GeometryInv, ProcessInv, HasBuffer, overrun' \in BOOLEAN,
         NEW written, Arrays(written, board.samplesPerAcquisition),
         NEW filled, Arrays(filled, PassedSize),
         Processed(written, filled)
  PROVE  ProcessInv'
<1> DEFINE n == processed
           P == PerResult
<1>1. /\ acquiring /\ n < board.nbrBuffers /\ n <= bufferCounter /\ n \in Nat
      /\ bufferCounter <= board.nbrBuffers /\ bufferCounter \in Nat /\ results \in 0..n
      /\ onSocket \in BOOLEAN /\ inStep \in BOOLEAN
      /\ onSocket => n = bufferCounter
      /\ Arrays(work, board.samplesPerAcquisition)
      /\ Arrays(app, acqParams.samplesPerAcquisition)
  BY DEF HasBuffer, ProcessInv
<1>2. /\ board' = board /\ acqParams' = acqParams /\ result' = result
      /\ acquiring' = acquiring /\ onSocket' = onSocket
      /\ full' = LastOfRoundRobin /\ processed' = n + 1
      /\ inStep' = (inStep /\ bufferCounter = n)
      /\ bufferCounter' = bufferCounter + (IF onSocket THEN 1 ELSE 0)
      /\ results' = results + (IF LastOfRoundRobin THEN 1 ELSE 0)
      /\ work' = IF onSocket THEN filled ELSE written
      /\ app' = IF onSocket THEN app ELSE filled
  BY DEF Processed, configVars
<1>3. board.nbrBuffers \in Nat BY Numbers
<1>4. LastOfRoundRobin \in BOOLEAN BY DEF LastOfRoundRobin
<1>5. results' \in 0..(n + 1) BY <1>1, <1>2, <1>4
<1>6. ASSUME result' = "ok", InPlace' PROVE results' = processed' \div P'
  <2>1. result = "ok" /\ (board.partialBuffer => inStep /\ bufferCounter = n)
    BY <1>2, <1>6 DEF InPlace
  <2>2. P \in Nat \ {0} /\ P' = P BY <1>1, <1>2, <2>1, Extents DEF PerResult
  <2>3. LastOfRoundRobin <=> n % P = P - 1 BY <1>1, <2>1, LastCompletes
  <2>4. results = n \div P BY <2>1 DEF ProcessInv, InPlace
  <2> HIDE DEF P
  <2>5. n \div P \in Nat BY <1>1, <2>2, Split
  <2>6. /\ n % P = P - 1 => (n + 1) \div P = n \div P + 1
        /\ n % P # P - 1 => (n + 1) \div P = n \div P
    BY <1>1, <2>2, NextQuotient
  <2>7. CASE LastOfRoundRobin
    <3>1. results' = (n \div P) + 1 BY <1>2, <2>4, <2>7
    <3>2. results' = (n + 1) \div P BY <2>3, <2>6, <2>7, <3>1, Zenon
    <3>3. QED BY <1>2, <2>2, <3>2
  <2>8. CASE ~LastOfRoundRobin
    <3>1. results' = n \div P BY <1>2, <2>4, <2>5, <2>8
    <3>2. results' = (n + 1) \div P BY <2>3, <2>6, <2>8, <3>1, Zenon
    <3>3. QED BY <1>2, <2>2, <3>2
  <2>9. QED BY <1>4, <2>7, <2>8
<1>7. Arrays(work', board.samplesPerAcquisition)
      /\ Arrays(app', acqParams.samplesPerAcquisition)
  BY <1>1, <1>2 DEF PassedSize
<1>8. /\ bufferCounter' \in Nat /\ processed' \in Nat /\ inStep' \in BOOLEAN
      /\ bufferCounter' <= board.nbrBuffers /\ processed' <= board.nbrBuffers
      /\ onSocket => processed' = bufferCounter'
  <2>1. inStep' \in BOOLEAN BY <1>2, Zenon
  <2>2. processed' \in Nat /\ processed' <= board.nbrBuffers BY <1>1, <1>2, <1>3
  <2>3. CASE onSocket
    <3>1. bufferCounter' = n + 1 BY <1>1, <1>2, <2>3
    <3>2. processed' = n + 1 BY <1>2
    <3>3. QED BY <2>1, <2>2, <3>1, <3>2
  <2>4. CASE ~onSocket
    <3>1. bufferCounter' = bufferCounter BY <1>1, <1>2, <2>4
    <3>2. QED BY <1>1, <2>1, <2>2, <2>4, <3>1
  <2>5. QED BY <2>3, <2>4
<1> HIDE DEF P
<1>9. result' = "ok" /\ InPlace' => results' = processed' \div PerResult'
  BY <1>6 DEF P
<1>10. QED BY <1>1, <1>2, <1>4, <1>5, <1>7, <1>8, <1>9 DEF ProcessInv

LEMMA ProcessStep ==
  ASSUME GeometryInv, ProcessInv, GeometryInv', [ProcessNext]_processAll PROVE ProcessInv'
<1>0. /\ Arrays(work, board.samplesPerAcquisition) /\ Arrays(Passed, PassedSize)
      /\ Arrays(app, acqParams.samplesPerAcquisition)
  BY DEF ProcessInv, Passed, PassedSize
<1>1. ASSUME NEW c \in Requests, SetAll(c) PROVE ProcessInv'
  <2>1. Arrays(work', board'.samplesPerAcquisition)
        /\ Arrays(app', acqParams'.samplesPerAcquisition)
    BY <1>1 DEF SetAll, Arrays, ArraysOf
  <2>2. /\ ~acquiring /\ processed = 0 /\ results = 0 /\ bufferCounter \in Nat
        /\ UNCHANGED <<acquiring, onSocket, bufferCounter, processed, inStep, full,
                       results, overrun>>
    BY <1>1 DEF SetAll, ProcessInv
  <2>3. result' = "ok" => results' = processed' \div PerResult'
    <3>1. PerResult' \in Nat \ {0}
      BY SizesAssumption DEF GeometryInv, Board, Unsigned, PerResult
    <3> HIDE DEF PerResult
    <3>2. 0 \div PerResult' = 0 BY <3>1, NoneOf
    <3>3. results' = 0 /\ processed' = 0 BY <2>2
    <3>4. QED BY <3>2, <3>3
  <2>4. QED BY <2>1, <2>2, <2>3 DEF ProcessInv
<1>2. ASSUME NEW socket \in BOOLEAN, Acquire(socket) PROVE ProcessInv'
  <2>1. PerResult' = PerResult /\ InPlace' = InPlace
    BY <1>2 DEF Acquire, configVars, PerResult, InPlace
  <2>2. board.nbrBuffers \in Nat BY Numbers
  <2>3. Arrays(work, board.samplesPerAcquisition)'
        /\ Arrays(app, acqParams.samplesPerAcquisition)'
    BY <1>0, <1>2 DEF Acquire, configVars, Arrays
  <2> HIDE DEF PerResult, InPlace
  <2>4. QED BY <1>2, <2>1, <2>2, <2>3 DEF Acquire, configVars, ProcessInv
<1>3. CASE ProcessCompleteBuffer
  <2> DEFINE filled == [ch \in Channels |->
       IF overrun' THEN Passed[ch]
       ELSE IF board.averager
       THEN Averaged(Passed[ch], [x \in 0..(half - 1) |-> Value(Interleaved(x, ch))])
       ELSE Place([x \in DOMAIN Passed[ch] |-> Zero], 0, ch)]
  <2>1. Processed(work, filled) /\ HasBuffer /\ overrun' \in BOOLEAN
    <3>1. /\ Processed(work, filled) /\ HasBuffer
          /\ overrun' = IF board.averager THEN AverageOverruns(Passed["ch1"], half)
                        ELSE PlaceOverruns(Passed["ch1"], 0)
      BY <1>3, Zenon DEF ProcessCompleteBuffer
    <3>2. /\ AverageOverruns(Passed["ch1"], half) \in BOOLEAN
          /\ PlaceOverruns(Passed["ch1"], 0) \in BOOLEAN
      BY DEF AverageOverruns, PlaceOverruns
    <3> HIDE DEF filled
    <3>3. QED BY <3>1, <3>2
  <2>2. Arrays(filled, PassedSize)
    BY <1>0, Zenon DEF Arrays, Place, Averaged
  <2> HIDE DEF filled
  <2>3. QED BY <1>0, <2>1, <2>2, ProcessedKeeps
<1>4. CASE ProcessPartialDigitizer
  <2> DEFINE filled == [ch \in Channels |-> Place(Passed[ch], Offset, ch)]
  <2>1. Processed(work, filled) /\ HasBuffer /\ overrun' \in BOOLEAN
    BY <1>4 DEF ProcessPartialDigitizer, PlaceOverruns
  <2>2. Arrays(filled, PassedSize)
    BY <1>0, Zenon DEF Arrays, Place
  <2> HIDE DEF filled
  <2>3. QED BY <1>0, <2>1, <2>2, ProcessedKeeps
<1>5. CASE ProcessPartialAverager
  <2> DEFINE written == [work EXCEPT
               !["ch1"] = Place(Place(@, Offset, "ch1"), Offset, "ch2")]
             cleared == [ch \in Channels |-> [x \in DOMAIN Passed[ch] |-> Zero]]
             source == IF onSocket THEN cleared ELSE written
             averaged == [ch \in Channels |-> Averaged(cleared[ch], source[ch])]
             stored == IF onSocket THEN written ELSE app
  <2>1. /\ HasBuffer /\ overrun' \in BOOLEAN
        /\ Processed(written, stored) \/ Processed(written, averaged)
    <3>1. HasBuffer BY <1>5, Zenon DEF ProcessPartialAverager
    <3>2. overrun' = \/ PlaceOverruns(work["ch1"], Offset)
                     \/ /\ LastOfRoundRobin
                        /\ AverageOverruns(Passed["ch1"], Cardinality(DOMAIN work["ch1"]))
      BY <1>5, Zenon DEF ProcessPartialAverager
    <3>3. IF overrun' \/ ~LastOfRoundRobin
          THEN Processed(written, stored) ELSE Processed(written, averaged)
      BY <1>5, Zenon DEF ProcessPartialAverager
    <3> HIDE DEF written, averaged, stored
    <3>4. QED BY <3>1, <3>2, <3>3
  <2>2. Arrays(written, board.samplesPerAcquisition)
    BY <1>0 DEF Arrays, Place, Channels
  <2>3. Arrays(averaged, PassedSize)
    BY <1>0, Zenon DEF Arrays, Averaged
  <2>4. Arrays(stored, PassedSize) BY <1>0, <2>2 DEF PassedSize
  <2> HIDE DEF written, averaged, stored
  <2>5. QED BY <2>1, <2>2, <2>3, <2>4, ProcessedKeeps
<1>6. CASE Stop
  <2>1. Arrays(work', board'.samplesPerAcquisition)
        /\ Arrays(app', acqParams'.samplesPerAcquisition)
    BY <1>6 DEF Stop, configVars, Arrays, ArraysOf
  <2>2. result' = "ok" => results' = processed' \div PerResult'
    <3>1. PerResult' \in Nat \ {0}
      BY SizesAssumption DEF GeometryInv, Board, Unsigned, PerResult
    <3> HIDE DEF PerResult
    <3>2. 0 \div PerResult' = 0 BY <3>1, NoneOf
    <3>3. results' = 0 /\ processed' = 0 BY <1>6 DEF Stop
    <3>4. QED BY <3>2, <3>3
  <2> HIDE DEF PerResult
  <2>3. /\ acquiring' = FALSE /\ inStep' = TRUE /\ full' = FALSE /\ overrun' = FALSE
        /\ processed' = 0 /\ results' = 0 /\ onSocket' = onSocket
        /\ bufferCounter' = bufferCounter
    BY <1>6 DEF Stop
  <2>4. 0 \in Nat /\ 0 \in 0..0 OBVIOUS
  <2>5. onSocket \in BOOLEAN /\ bufferCounter \in Nat BY DEF ProcessInv
  <2>6. QED BY <2>1, <2>2, <2>3, <2>4, <2>5 DEF ProcessInv
<1>7. ASSUME \/ UNCHANGED processAll
             \/ RxCounts
      PROVE  ProcessInv'
  <2>1. PerResult' = PerResult /\ InPlace' = InPlace
    BY <1>7 DEF processAll, configVars, processVars, RxCounts, PerResult, InPlace
  <2>2. Arrays(work, board.samplesPerAcquisition)'
        /\ Arrays(app, acqParams.samplesPerAcquisition)'
    BY <1>0, <1>7 DEF processAll, configVars, processVars, RxCounts, Arrays
  <2>3. /\ UNCHANGED <<configVars, acquiring, onSocket, processed, inStep, full, results,
                       overrun>>
        /\ \/ bufferCounter' = bufferCounter
           \/ /\ bufferCounter' = bufferCounter + 1 /\ ~onSocket
              /\ bufferCounter < board.nbrBuffers
    BY <1>7 DEF processAll, processVars, RxCounts
  <2>4. board.nbrBuffers \in Nat BY Numbers
  <2> HIDE DEF PerResult, InPlace
  <2>5. bufferCounter' \in Nat /\ (acquiring => bufferCounter' <= board.nbrBuffers)
        /\ (acquiring /\ onSocket => processed = bufferCounter')
    BY <2>3, <2>4 DEF ProcessInv
  <2>6. QED BY <2>1, <2>2, <2>3, <2>5 DEF configVars, ProcessInv
<1>8. QED BY <1>1, <1>2, <1>3, <1>4, <1>5, <1>6, <1>7 DEF ProcessNext

LEMMA ProcessHolds == ASSUME RegularRequests PROVE ProcessSpec => []ProcessInv
<1>1. ProcessInit => ProcessInv
  <2> SUFFICES ASSUME ProcessInit PROVE ProcessInv
    OBVIOUS
  <2>1. board.samplesPerAcquisition = 0 /\ acqParams.samplesPerAcquisition = 0
    BY DEF ProcessInit, Init
  <2>2. /\ Arrays(work, board.samplesPerAcquisition)
        /\ Arrays(app, acqParams.samplesPerAcquisition)
    BY <2>1 DEF ProcessInit, Arrays, ArraysOf
  <2>3. /\ acquiring = FALSE /\ onSocket = FALSE /\ full = FALSE /\ overrun = FALSE
        /\ inStep = TRUE /\ bufferCounter = 0 /\ processed = 0 /\ results = 0
        /\ result = "none"
    BY DEF ProcessInit, Init
  <2>4. 0 \in Nat /\ 0 \in 0..0 OBVIOUS
  <2>5. QED BY <2>2, <2>3, <2>4 DEF ProcessInv
<1>2. GeometryInv /\ ProcessInv /\ GeometryInv' /\ [ProcessNext]_processAll => ProcessInv'
  BY ProcessStep
<1>3. QED BY <1>1, <1>2, ProcessGeometry, PTL DEF ProcessSpec, processAll
-----------------------------------------------------------------------------
(* Places in the arrays. *)

(* A part of a buffer's length fits behind the earlier ones.               *)
LEMMA PartFits ==
  ASSUME NEW h \in Nat, NEW q \in Nat \ {0}, NEW p \in 0..(q - 1)
  PROVE  h * p + h = h * (p + 1) /\ h * p + h <= h * q /\ h * p \in Nat /\ h * q \in Nat
<1>1. p + 1 \in Nat /\ p + 1 <= q /\ p \in Nat OBVIOUS
<1>2. h * (p + 1) <= h * q /\ h * q \in Nat BY <1>1, Monotone
<1>3. h * (p + 1) = h * p + h /\ h * p \in Nat BY <1>1
<1>4. QED BY <1>2, <1>3

LEMMA FitsIn ==
  ASSUME NEW array, NEW size \in Nat, DOMAIN array = 0..(size - 1), half \in Nat,
         NEW offset \in Nat, offset + half <= size
  PROVE  ~PlaceOverruns(array, offset)
<1>1. 0 \in Int /\ size - 1 \in Int OBVIOUS
<1>2. Cardinality(0..(size - 1)) = IF 0 > size - 1 THEN 0 ELSE (size - 1) - 0 + 1
  BY <1>1, FS_Interval, Zenon
<1>3. Cardinality(0..(size - 1)) = size BY <1>2
<1>4. Cardinality(DOMAIN array) = size BY <1>3
<1>5. offset + half \in Nat OBVIOUS
<1>6. QED BY <1>4, <1>5 DEF PlaceOverruns

(* What PlaceOverruns is asked of fits.                                    *)
LEMMA BufferFits ==
  ASSUME GeometryInv, ProcessInv, HasBuffer, result = "ok", WorkBufferFits
  PROVE  /\ ~board.partialBuffer /\ ~board.averager => ~PlaceOverruns(Passed["ch1"], 0)
         /\ board.partialBuffer /\ ~board.averager => ~PlaceOverruns(Passed["ch1"], Offset)
         /\ board.partialBuffer /\ board.averager => ~PlaceOverruns(work["ch1"], Offset)
<1> DEFINE samples == acqParams.samplesPerAcquisition
           P == PerResult
<1>1. /\ bufferCounter \in Nat
      /\ Arrays(work, board.samplesPerAcquisition) /\ Arrays(app, samples)
  BY DEF ProcessInv
<1>2. /\ samples \in Nat /\ board.samplesPerAcquisition = samples
      /\ half \in Nat /\ P \in Nat \ {0}
      /\ ~board.averager => samples = half * P
      /\ board.partialBuffer => P = board.buffersPerRoundRobin
      /\ board.partialBuffer => Offset = half * partialIndex
  BY <1>1, Extents
<1>3. DOMAIN work["ch1"] = 0..(samples - 1) /\ DOMAIN Passed["ch1"] = 0..(samples - 1)
  BY <1>1, <1>2 DEF Arrays, Channels, Passed
<1>4. board.partialBuffer => partialIndex \in 0..(P - 1)
  BY <1>1, <1>2, Split DEF partialIndex
<1>5. ~board.partialBuffer => P = 1 BY DEF PerResult
<1> HIDE DEF P, samples
<1>6. ASSUME ~board.partialBuffer, ~board.averager PROVE ~PlaceOverruns(Passed["ch1"], 0)
  <2>1. 0 + half <= samples BY <1>2, <1>5, <1>6
  <2>2. QED BY <1>2, <1>3, <2>1, FitsIn
<1>7. ASSUME board.partialBuffer, NEW size \in Nat, half * P <= size,
             NEW array, DOMAIN array = 0..(size - 1)
      PROVE  ~PlaceOverruns(array, Offset)
  <2> DEFINE p == partialIndex
             offset == half * p
  <2>1. p \in 0..(P - 1) BY <1>4, <1>7
  <2>2. offset + half <= half * P /\ offset \in Nat /\ half * P \in Nat
    BY <1>2, <2>1, PartFits
  <2>3. Offset = offset BY <1>2, <1>7
  <2> HIDE DEF offset
  <2>4. offset + half <= size BY <1>2, <1>7, <2>2
  <2>5. ~PlaceOverruns(array, offset) BY <1>2, <1>7, <2>2, <2>4, FitsIn
  <2>6. QED BY <2>3, <2>5
<1>8. ASSUME board.partialBuffer, ~board.averager PROVE ~PlaceOverruns(Passed["ch1"], Offset)
  <2>1. half * P \in Nat BY <1>2
  <2>2. half * P <= samples BY <1>2, <1>8, <2>1
  <2>3. QED BY <1>2, <1>3, <1>7, <1>8, <2>2
<1>9. ASSUME board.partialBuffer, board.averager PROVE ~PlaceOverruns(work["ch1"], Offset)
  <2> DEFINE L == board.recordLength
             d == board.recordsPerBuffer
  <2>1. L \in Nat /\ d \in Nat BY Numbers
  <2>2. board.bufferLen = L * d * 2 BY <1>1, <1>9 DEF GeometryInv, DividedSize
  <2>3. half = L * d
    <3>1. L * d \in Nat /\ L * d * 2 = 2 * (L * d) BY <2>1
    <3>2. (2 * (L * d)) \div 2 = L * d BY <3>1, Exact
    <3>3. QED BY <2>2, <3>1, <3>2 DEF half
  <2>4. P * d * L <= samples BY <1>1, <1>2, <1>9 DEF WorkBufferFits
  <2>5. half * P = P * d * L BY <1>2, <2>1, <2>3
  <2>6. QED BY <1>2, <1>3, <1>7, <1>9, <2>4, <2>5
<1>10. QED BY <1>6, <1>8, <1>9

(* So does what the averager's loops write and read.                       *)
LEMMA LoopsFit ==
  ASSUME GeometryInv, ProcessInv, HasBuffer, result = "ok", WorkBufferFits, board.averager
  PROVE  /\ ~board.partialBuffer => ~AverageOverruns(Passed["ch1"], half)
         /\ board.partialBuffer =>
              ~AverageOverruns(Passed["ch1"], Cardinality(DOMAIN work["ch1"]))
<1> DEFINE samples == acqParams.samplesPerAcquisition
<1>1. /\ bufferCounter \in Nat
      /\ Arrays(work, board.samplesPerAcquisition) /\ Arrays(app, samples)
  BY DEF ProcessInv
<1>2. samples \in Nat /\ board.samplesPerAcquisition = samples BY <1>1, Extents
<1>3. DOMAIN work["ch1"] = 0..(samples - 1) /\ DOMAIN Passed["ch1"] = 0..(samples - 1)
  BY <1>1, <1>2 DEF Arrays, Channels, Passed
<1>4. Cardinality(0..(samples - 1)) = samples
  <2>1. 0 \in Int /\ samples - 1 \in Int BY <1>2
  <2>2. Cardinality(0..(samples - 1)) = IF 0 > samples - 1 THEN 0 ELSE (samples - 1) - 0 + 1
    BY <2>1, FS_Interval, Zenon
  <2>3. QED BY <1>2, <2>2
<1>5. ni \in Nat /\ nj \in Nat /\ nk \in Nat BY Numbers DEF ni, nj, nk
<1>6. samples = ni * nk /\ ni * nk \in Nat BY <1>5 DEF GeometryInv, Told, ni, nk
<1> HIDE DEF samples
<1>7. ASSUME ~board.partialBuffer PROVE ~AverageOverruns(Passed["ch1"], half)
  <2>1. nl \in Nat /\ half = ni * nk * nj * nl BY <1>7, WholeExtents
  <2>2. ni * nj * nk * nl = ni * nk * nj * nl /\ ni * nk * nj * nl \in Nat BY <1>5, <2>1
  <2>3. QED BY <1>3, <1>4, <1>6, <2>1, <2>2 DEF AverageOverruns
<1>8. ASSUME board.partialBuffer
      PROVE  ~AverageOverruns(Passed["ch1"], Cardinality(DOMAIN work["ch1"]))
  <2> DEFINE L == board.recordLength
             d == board.recordsPerBuffer
             P == board.buffersPerRoundRobin
  <2>1. P * d * L <= samples BY <1>2, <1>8 DEF WorkBufferFits
  <2>2. L \in Nat /\ d \in Nat /\ P \in Nat BY Numbers
  <2>3. nk * nj = d * P BY <1>8 DEF GeometryInv, DividedSize, nj, nk
  <2>4. ni * nj * nk * nl = P * d * L
    <3>1. nl = 1 /\ ni = L BY <1>8 DEF nl, ni
    <3> HIDE DEF L, d, P
    <3>2. ni * nj * nk * 1 = L * (nk * nj) BY <1>5, <2>2, <3>1
    <3>3. L * (d * P) = P * d * L BY <2>2
    <3>4. QED BY <2>3, <3>1, <3>2, <3>3
  <2> HIDE DEF L, d, P
  <2>5. P * d * L \in Nat BY <2>2
  <2>6. QED BY <1>2, <1>3, <1>4, <1>6, <2>1, <2>4, <2>5 DEF AverageOverruns
<1>9. QED BY <1>7, <1>8

LEMMA StaysInside ==
  ASSUME GeometryInv, ProcessInv, WorkBufferFits, NoOverrun, [ProcessNext]_processAll
  PROVE  NoOverrun'
<1> SUFFICES ASSUME result' = "ok" PROVE ~overrun'
  BY DEF NoOverrun
<1>1. ASSUME NEW c \in Requests, SetAll(c) PROVE ~overrun'
  BY <1>1 DEF SetAll, ProcessInv
<1>2. ASSUME NEW socket \in BOOLEAN, Acquire(socket) PROVE ~overrun'
  BY <1>2 DEF Acquire, ProcessInv
<1>3. CASE ProcessCompleteBuffer
  <2>1. /\ HasBuffer /\ ~board.partialBuffer
        /\ overrun' = IF board.averager THEN AverageOverruns(Passed["ch1"], half)
                      ELSE PlaceOverruns(Passed["ch1"], 0)
        /\ \E filled : Processed(work, filled)
    BY <1>3, Zenon DEF ProcessCompleteBuffer
  <2>2. result = "ok" BY <2>1 DEF Processed, configVars
  <2>3. QED BY <2>1, <2>2, BufferFits, LoopsFit
<1>4. CASE ProcessPartialDigitizer
  <2>1. /\ HasBuffer /\ board.partialBuffer /\ ~board.averager
        /\ overrun' = PlaceOverruns(Passed["ch1"], Offset)
        /\ \E filled : Processed(work, filled)
    BY <1>4, Zenon DEF ProcessPartialDigitizer
  <2>2. result = "ok" BY <2>1 DEF Processed, configVars
  <2>3. QED BY <2>1, <2>2, BufferFits
<1>5. CASE ProcessPartialAverager
  <2>1. /\ HasBuffer /\ board.partialBuffer /\ board.averager
        /\ overrun' = \/ PlaceOverruns(work["ch1"], Offset)
                      \/ /\ LastOfRoundRobin
                         /\ AverageOverruns(Passed["ch1"], Cardinality(DOMAIN work["ch1"]))
        /\ \E written, filled : Processed(written, filled)
    BY <1>5, Zenon DEF ProcessPartialAverager
  <2>2. result = "ok" BY <2>1 DEF Processed, configVars
  <2>3. QED BY <2>1, <2>2, BufferFits, LoopsFit
<1>6. CASE Stop BY <1>6 DEF Stop
<1>7. CASE UNCHANGED processAll
  BY <1>7 DEF processAll, configVars, processVars, NoOverrun
<1>8. CASE RxCounts BY <1>8 DEF RxCounts
<1>9. QED BY <1>1, <1>2, <1>3, <1>4, <1>5, <1>6, <1>7, <1>8 DEF ProcessNext
-----------------------------------------------------------------------------
(* What the arrays hold. *)

(* The channels alternate in a buffer, and buffers follow each other.      *)
LEMMA SampleInByte ==
  ASSUME NEW x \in Nat, NEW ch \in Channels
  PROVE  Interleaved(x, ch) = <<ch, processed * half + x>>
<1>1. (x * 2 + 0) \div 2 = x /\ (x * 2 + 0) % 2 = 0 BY Unique
<1>2. (x * 2 + 1) \div 2 = x /\ (x * 2 + 1) % 2 = 1 BY Unique
<1>3. x * 2 + 0 = 2 * x /\ x * 2 + 1 = 2 * x + 1 OBVIOUS
<1>4. (2 * x) \div 2 = x /\ (2 * x) % 2 = 0 BY <1>1, <1>3
<1>5. (2 * x + 1) \div 2 = x /\ (2 * x + 1) % 2 = 1 BY <1>2, <1>3
<1>6. CASE ch = "ch1" BY <1>4, <1>6 DEF Interleaved, Byte
<1>7. CASE ch = "ch2" BY <1>5, <1>7 DEF Interleaved, Byte
<1>8. QED BY <1>6, <1>7 DEF Channels

(* What a buffer leaves in an array: itself from the offset on, and before *)
(* the offset what was there.                                              *)
LEMMA PlacedSamples ==
  ASSUME NEW array, NEW offset \in Nat, NEW ch \in Channels, half \in Nat,
         NEW x \in DOMAIN array, x \in Nat, x < offset + half
  PROVE  Place(array, offset, ch)[x] =
           IF x < offset THEN array[x]
           ELSE Value(<<ch, processed * half + (x - offset)>>)
<1>1. Place(array, offset, ch)[x] =
        IF x - offset \in 0..(half - 1) THEN Value(Interleaved(x - offset, ch)) ELSE array[x]
  BY DEF Place
<1>2. CASE x < offset
  <2>1. x - offset \notin 0..(half - 1) BY <1>2
  <2>2. QED BY <1>1, <1>2, <2>1
<1>3. CASE ~(x < offset)
  <2>1. x - offset \in 0..(half - 1) /\ x - offset \in Nat BY <1>3
  <2>2. Interleaved(x - offset, ch) = <<ch, processed * half + (x - offset)>>
    BY <2>1, SampleInByte
  <2>3. QED BY <1>1, <1>3, <2>1, <2>2
<1>4. QED BY <1>2, <1>3

(* The buffers of a round robin that have come are in their places.        *)
Placed ==
  acquiring /\ result = "ok" /\ board.partialBuffer /\ ~board.averager /\ inStep =>
    \A ch \in Channels : \A x \in 0..(half * (processed % PerResult) - 1) :
      Passed[ch][x] =
        Value(<<ch, (processed \div PerResult) * acqParams.samplesPerAcquisition + x>>)

(* A complete buffer that overruns nothing. *)
LEMMA CompleteProcessed ==
  ASSUME ProcessCompleteBuffer, ~overrun', NEW f,
         \A ch \in Channels :
           f[ch] = IF board.averager
                   THEN Averaged(Passed[ch],
                                 [x \in 0..(half - 1) |-> Value(Interleaved(x, ch))])
                   ELSE Place([x \in DOMAIN Passed[ch] |-> Zero], 0, ch),
         f = [ch \in Channels |-> f[ch]]
  PROVE  HasBuffer /\ ~board.partialBuffer /\ Processed(work, f)
<1> DEFINE filled == [ch \in Channels |->
       IF overrun' THEN Passed[ch]
       ELSE IF board.averager
       THEN Averaged(Passed[ch], [x \in 0..(half - 1) |-> Value(Interleaved(x, ch))])
       ELSE Place([x \in DOMAIN Passed[ch] |-> Zero], 0, ch)]
<1>1. Processed(work, filled) /\ HasBuffer /\ ~board.partialBuffer
  BY Zenon DEF ProcessCompleteBuffer
<1>2. filled = f
  <2>1. \A ch \in Channels : filled[ch] = f[ch] BY Zenon
  <2>2. filled = [ch \in Channels |-> filled[ch]] BY Zenon
  <2> HIDE DEF filled
  <2>3. QED BY <2>1, <2>2
<1> HIDE DEF filled
<1>3. QED BY <1>1, <1>2

LEMMA CompleteDigitized ==
  ASSUME GeometryInv, ProcessInv, ProcessCompleteBuffer, ~board.averager,
         result = "ok", ~overrun'
  PROVE  ResultsRight' /\ Placed'
<1> DEFINE n == processed
           filled == [ch \in Channels |-> Place([x \in DOMAIN Passed[ch] |-> Zero], 0, ch)]
           samples == acqParams.samplesPerAcquisition
<1>1. HasBuffer /\ ~board.partialBuffer /\ Processed(work, filled)
  <2>1. \A ch \in Channels : filled[ch] = Place([x \in DOMAIN Passed[ch] |-> Zero], 0, ch)
    BY Zenon
  <2>2. filled = [ch \in Channels |-> filled[ch]] BY Zenon
  <2> HIDE DEF filled
  <2>3. QED BY <2>1, <2>2, CompleteProcessed
<1>2. n \in Nat /\ bufferCounter \in Nat /\ Arrays(work, board.samplesPerAcquisition)
      /\ Arrays(app, samples)
  BY <1>1 DEF HasBuffer, ProcessInv
<1>3. samples \in Nat /\ half \in Nat /\ samples = half /\ Arrays(Passed, samples)
  <2>1. PerResult = 1 BY <1>1 DEF PerResult
  <2>2. half \in Nat /\ samples = half * 1 /\ board.samplesPerAcquisition = samples
    BY <1>2, <2>1, Extents
  <2>3. QED BY <1>2, <2>2 DEF Passed
<1> HIDE DEF filled
<1>4. /\ board' = board /\ acqParams' = acqParams /\ processed' = n + 1
      /\ Passed' = filled
  BY <1>1 DEF Processed, configVars, Passed
<1>5. ASSUME NEW ch \in Channels, NEW x \in DOMAIN filled[ch]
      PROVE  x \in Nat /\ filled[ch][x] = Value(<<ch, n * samples + x>>)
  <2> DEFINE zeros == [y \in DOMAIN Passed[ch] |-> Zero]
  <2>1. filled[ch] = Place(zeros, 0, ch) BY DEF filled
  <2>2. DOMAIN zeros = 0..(samples - 1) BY <1>3 DEF Arrays
  <2> HIDE DEF zeros
  <2>3. x \in DOMAIN zeros BY <2>1 DEF Place
  <2>4. x \in Nat /\ x < 0 + half BY <1>3, <2>2, <2>3
  <2>5. Place(zeros, 0, ch)[x] = Value(<<ch, n * half + (x - 0)>>)
    <3>1. ~(x < 0) BY <2>4
    <3>2. 0 \in Nat OBVIOUS
    <3>3. QED BY <1>3, <2>3, <2>4, <3>1, <3>2, PlacedSamples
  <2>6. x - 0 = x BY <2>4
  <2>7. QED BY <1>3, <2>1, <2>4, <2>5, <2>6
<1>6. ResultNumber' = n
  <2>1. ResultNumber' = ((n + 1) - 1) \div 1
    BY <1>1, <1>4 DEF ResultNumber
  <2>2. ((n + 1) - 1) \div 1 = n BY <1>2
  <2>3. QED BY <2>1, <2>2
<1>7. ASSUME NEW ch \in Channels, NEW x \in DOMAIN filled[ch]
      PROVE  Expected(ch, x)' = Value(<<ch, n * samples + x>>)
  <2>1. ~board'.averager /\ acqParams' = acqParams BY <1>4
  <2>2. Expected(ch, x)' = Value(<<ch, ResultNumber' * acqParams'.samplesPerAcquisition + x>>)
    BY <2>1, Zenon DEF Expected
  <2>3. QED BY <1>6, <2>1, <2>2
<1>8. ResultRight' BY <1>4, <1>5, <1>7 DEF ResultRight
<1>9. QED BY <1>1, <1>4, <1>8 DEF ResultsRight, Placed

LEMMA PartialDigitized ==
  ASSUME GeometryInv, ProcessInv, Placed, ProcessPartialDigitizer, result = "ok", inStep'
  PROVE  ResultsRight' /\ Placed'
<1> DEFINE n == processed
           P == PerResult
           d == n \div P
           p == n % P
           filled == [ch \in Channels |-> Place(Passed[ch], Offset, ch)]
           samples == acqParams.samplesPerAcquisition
<1>1. HasBuffer /\ board.partialBuffer /\ ~board.averager /\ Processed(work, filled)
  BY Zenon DEF ProcessPartialDigitizer
<1> HIDE DEF filled
<1>2. /\ n \in Nat /\ acquiring /\ inStep /\ bufferCounter = n
      /\ Arrays(work, board.samplesPerAcquisition) /\ Arrays(app, samples)
  BY <1>1 DEF HasBuffer, ProcessInv, Processed
<1>3. /\ samples \in Nat /\ half \in Nat /\ P \in Nat \ {0} /\ samples = half * P
      /\ P = board.buffersPerRoundRobin /\ Arrays(Passed, samples)
      /\ partialIndex = p /\ Offset = half * p
  <2>1. /\ samples \in Nat /\ half \in Nat /\ P \in Nat \ {0} /\ samples = half * P
        /\ P = board.buffersPerRoundRobin /\ board.samplesPerAcquisition = samples
        /\ Offset = half * partialIndex
    BY <1>1, <1>2, Extents
  <2>2. partialIndex = p BY <1>2, <2>1 DEF partialIndex
  <2>3. QED BY <1>2, <2>1, <2>2 DEF Passed
<1>4. /\ board' = board /\ acqParams' = acqParams /\ processed' = n + 1
      /\ Passed' = filled /\ full' = LastOfRoundRobin /\ acquiring' = acquiring
  BY <1>1 DEF Processed, configVars, Passed
<1>5. d \in Nat /\ p \in 0..(P - 1) /\ n = d * P + p BY <1>2, <1>3, Split
<1>6. /\ p = P - 1 => (n + 1) \div P = d + 1 /\ (n + 1) % P = 0
      /\ p # P - 1 => (n + 1) \div P = d /\ (n + 1) % P = p + 1
  BY <1>2, <1>3, NextQuotient
<1>7. P' = P /\ half' = half BY <1>4 DEF PerResult, half
<1>8. processed' % P' = (n + 1) % P BY <1>4, <1>7
<1>9. full' => p = P - 1 BY <1>1, <1>2, <1>4, LastCompletes
<1>10. \A ch \in Channels : \A x \in 0..(half * p - 1) :
          Passed[ch][x] = Value(<<ch, d * samples + x>>)
  BY <1>1, <1>2, <1>3 DEF Placed
<1> HIDE DEF P, d, p
<1>11. half * p + half = half * (p + 1) /\ half * p + half <= half * P
       /\ half * p \in Nat /\ half * P \in Nat
  BY <1>3, <1>5, PartFits
<1>12. n * half = d * samples + half * p
  <2>1. n * half = d * P * half + p * half BY <1>3, <1>5
  <2>2. d * P * half = d * (half * P) /\ p * half = half * p BY <1>3, <1>5
  <2>3. QED BY <1>3, <2>1, <2>2
<1>13. ASSUME NEW ch \in Channels, NEW x \in Nat, x < half * (p + 1)
       PROVE  filled[ch][x] = Value(<<ch, d * samples + x>>)
  <2> DEFINE offset == half * p
  <2>1. offset \in Nat /\ x < offset + half /\ x < samples BY <1>3, <1>11, <1>13
  <2>2. x \in DOMAIN Passed[ch] BY <1>3, <2>1 DEF Arrays
  <2>3. filled[ch] = Place(Passed[ch], offset, ch) BY <1>3 DEF filled
  <2>4. \A y \in 0..(offset - 1) : Passed[ch][y] = Value(<<ch, d * samples + y>>) BY <1>10
  <2>5. n * half = d * samples + offset /\ d * samples \in Nat /\ n * half \in Nat
    BY <1>2, <1>3, <1>5, <1>12
  <2> HIDE DEF offset
  <2>6. filled[ch][x] = IF x < offset THEN Passed[ch][x]
                        ELSE Value(<<ch, n * half + (x - offset)>>)
    <3>1. half \in Nat /\ offset \in Nat /\ x < offset + half BY <1>3, <2>1
    <3>2. Place(Passed[ch], offset, ch)[x] =
            IF x < offset THEN Passed[ch][x]
            ELSE Value(<<ch, n * half + (x - offset)>>)
      BY <2>2, <3>1, PlacedSamples
    <3>3. QED BY <2>3, <3>2
  <2>7. n * half + (x - offset) = d * samples + x BY <2>1, <2>5
  <2>8. x < offset => Passed[ch][x] = Value(<<ch, d * samples + x>>) BY <2>1, <2>4
  <2>9. QED BY <2>6, <2>7, <2>8
<1>14. ASSUME full' PROVE ResultRight'
  <2>1. p = P - 1 BY <1>9, <1>14
  <2>2. half * (p + 1) = samples BY <1>3, <1>5, <2>1
  <2>3. ResultNumber' = d
    <3>1. ResultNumber' = ((n + 1) - 1) \div P
      BY <1>1, <1>3, <1>4 DEF ResultNumber
    <3>2. (n + 1) - 1 = n BY <1>2
    <3>3. QED BY <3>1, <3>2 DEF d
  <2>4. ASSUME NEW ch \in Channels, NEW x \in DOMAIN filled[ch]
        PROVE  filled[ch][x] = Expected(ch, x)'
    <3>1. x \in 0..(samples - 1) BY <1>3 DEF filled, Place, Arrays
    <3>2. filled[ch][x] = Value(<<ch, d * samples + x>>) BY <1>3, <1>13, <2>2, <3>1
    <3>3. ~board'.averager BY <1>1, <1>4
    <3>4. Expected(ch, x)' =
            Value(<<ch, ResultNumber' * acqParams'.samplesPerAcquisition + x>>)
      BY <3>3, Zenon DEF Expected
    <3>5. QED BY <1>4, <2>3, <3>2, <3>4
  <2>5. QED BY <1>4, <2>4 DEF ResultRight
<1>15. Placed'
  <2>1. SUFFICES ASSUME NEW ch \in Channels, NEW x \in 0..(half' * (processed' % P') - 1)
                 PROVE  Passed'[ch][x] = Value(<<ch,
                          (processed' \div P') * acqParams'.samplesPerAcquisition + x>>)
    BY DEF Placed, P
  <2>2. CASE p = P - 1
    <3>1. processed' % P' = 0 BY <1>6, <1>8, <2>2
    <3>2. half' * (processed' % P') = 0 BY <1>3, <1>7, <3>1
    <3>3. QED BY <2>1, <3>2
  <2>3. CASE p # P - 1
    <3>1. processed' % P' = p + 1 /\ processed' \div P' = d BY <1>4, <1>6, <1>7, <1>8, <2>3
    <3>2. half' * (processed' % P') = half * (p + 1) /\ half * (p + 1) \in Nat
      BY <1>3, <1>5, <1>7, <3>1
    <3>3. x \in Nat /\ x < half * (p + 1) BY <2>1, <3>2
    <3>4. QED BY <1>4, <1>13, <3>1, <3>3
  <2>4. QED BY <2>2, <2>3
<1>16. QED BY <1>14, <1>15 DEF ResultsRight
-----------------------------------------------------------------------------
(* What the averager adds up. *)

(* One sample more. *)
LEMMA AddSample ==
  ASSUME NEW U, NEW u \in U
  PROVE  SetToBag({u}) (+) SetToBag(U \ {u}) = SetToBag(U)
<1> DEFINE A == SetToBag({u})
           B == SetToBag(U \ {u})
<1>1. A = [e \in {u} |-> 1] /\ B = [e \in U \ {u} |-> 1] BY DEF SetToBag
<1>2. DOMAIN A = {u} /\ DOMAIN B = U \ {u} BY <1>1
<1>3. A[u] = 1 /\ \A e \in U \ {u} : B[e] = 1 BY <1>1
<1> HIDE DEF A, B
<1>4. A (+) B = [e \in U |-> 1]
  <2>1. A (+) B = [e \in (DOMAIN A) \cup (DOMAIN B) |->
                       (IF e \in DOMAIN A THEN A[e] ELSE 0)
                       + (IF e \in DOMAIN B THEN B[e] ELSE 0)]
    BY DEF (+)
  <2>2. (DOMAIN A) \cup (DOMAIN B) = U BY <1>2
  <2>3. \A e \in U : (IF e \in DOMAIN A THEN A[e] ELSE 0)
                     + (IF e \in DOMAIN B THEN B[e] ELSE 0) = 1
    BY <1>2, <1>3
  <2>4. QED BY <2>1, <2>2, <2>3
<1>5. QED BY <1>4 DEF A, B, SetToBag

(* Each element at the indices is one sample, and no two the same.         *)
SingleSamples(source, S, sample) ==
  /\ IsFiniteSet(S)
  /\ \A s \in S : source[s].sum = SetToBag({sample[s]})
  /\ \A s, t \in S : sample[s] = sample[t] => s = t

(* Their sum is the bag of them.  The fold is the only function that does  *)
(* what its definition says; this sum does, and a smallest set on which    *)
(* they differed would be one element larger than one on which they agree. *)
LEMMA TotalOfSamples ==
  ASSUME NEW S, NEW source, NEW sample, SingleSamples(source, S, sample)
  PROVE  Total(source, S) = SetToBag({sample[s] : s \in S})
<1>0. /\ IsFiniteSet(S)
      /\ \A s \in S : source[s].sum = SetToBag({sample[s]})
      /\ \A s, t \in S : sample[s] = sample[t] => s = t
  BY DEF SingleSamples
<1> DEFINE choice(s) == CHOOSE x \in s : TRUE
           step(g, s) == IF s = {} THEN EmptyBag
                         ELSE source[choice(s)].sum (+) g[s \ {choice(s)}]
           iter == CHOOSE g : g = [s \in SUBSET S |-> step(g, s)]
           sums == [s \in SUBSET S |-> SetToBag({sample[x] : x \in s})]
<1>1. Total(source, S) = iter[S]
  BY Zenon DEF Total, MapThenFoldSet
<1>2. ASSUME NEW s \in SUBSET S, s # {}
      PROVE  /\ choice(s) \in s /\ s \ {choice(s)} \in SUBSET S
             /\ source[choice(s)].sum (+) sums[s \ {choice(s)}] = sums[s]
  <2> DEFINE x == choice(s)
             U == {sample[y] : y \in s}
  <2>1. x \in s BY <1>2
  <2> HIDE DEF x
  <2>2. source[x].sum = SetToBag({sample[x]}) /\ sample[x] \in U BY <1>0, <2>1
  <2>3. {sample[y] : y \in s \ {x}} = U \ {sample[x]} BY <1>0, <2>1
  <2>4. sums[s \ {x}] = SetToBag(U \ {sample[x]}) BY <2>3
  <2>5. sums[s] = SetToBag(U) OBVIOUS
  <2>6. SetToBag({sample[x]}) (+) SetToBag(U \ {sample[x]}) = SetToBag(U)
    BY <2>2, AddSample
  <2> HIDE DEF U, sums
  <2>7. source[x].sum (+) sums[s \ {x}] = sums[s] BY <2>2, <2>4, <2>5, <2>6, Zenon
  <2>8. QED BY <2>1, <2>7 DEF x
<1>3. sums[{}] = EmptyBag BY DEF EmptyBag
<1>4. \A s \in SUBSET S : step(sums, s) = sums[s]
  BY <1>2, <1>3
<1>5. sums = [s \in SUBSET S |-> step(sums, s)]
  <2>1. sums = [s \in SUBSET S |-> sums[s]] OBVIOUS
  <2> HIDE DEF sums, step
  <2>2. QED BY <1>4, <2>1
<1>6. iter = [s \in SUBSET S |-> step(iter, s)]
  <2> HIDE DEF sums, step
  <2>1. QED BY <1>5, Zenon
<1> HIDE DEF iter
<1>7. \A s \in SUBSET S : iter[s] = step(iter, s)
  <2> HIDE DEF step
  <2>1. QED BY <1>6
(* The smallest set whose sum would be another. *)
<1> DEFINE wrong == {s \in SUBSET S : iter[s] # sums[s]}
           sizes == {Cardinality(s) : s \in wrong}
<1>8. CASE wrong # {}
  <2>1. sizes \in SUBSET Nat /\ sizes # {}
    <3>1. \A s \in SUBSET S : Cardinality(s) \in Nat
      BY <1>0, FS_Subset, FS_CardinalityType
    <3>2. \A s \in wrong : s \in SUBSET S OBVIOUS
    <3> HIDE DEF wrong
    <3>3. QED BY <1>8, <3>1, <3>2
  <2>2. PICK m \in sizes : \A y \in sizes : m <= y BY <2>1, Least
  <2>3. PICK s \in wrong : m = Cardinality(s) OBVIOUS
  <2>4. s \in SUBSET S /\ iter[s] # sums[s] /\ IsFiniteSet(s) BY <1>0, FS_Subset
  <2>5. s # {} BY <1>3, <1>7, <2>4
  <2> DEFINE x == choice(s)
             t == s \ {x}
  <2>6. x \in s /\ t \in SUBSET S /\ source[x].sum (+) sums[t] = sums[s] BY <1>2, <2>4, <2>5
  <2>7. iter[s] = source[x].sum (+) iter[t] BY <1>7, <2>4, <2>5
  <2> HIDE DEF x, sums
  <2>8. Cardinality(t) = Cardinality(s) - 1 BY <2>4, <2>6, FS_RemoveElement
  <2>9. t \notin wrong
    <3>1. Cardinality(s) \in Nat BY <2>4, FS_CardinalityType
    <3>2. ~(m <= Cardinality(t)) BY <2>3, <2>8, <3>1
    <3>3. QED BY <2>2, <3>2
  <2>10. iter[t] = sums[t] BY <2>6, <2>9
  <2>11. QED BY <2>4, <2>6, <2>7, <2>10
<1>9. CASE wrong = {}
  <2>1. iter[S] = sums[S] BY <1>9
  <2>2. QED BY <1>1, <2>1
<1>10. QED BY <1>8, <1>9

(* A place in a table of rows.                                             *)
LEMMA InTable ==
  ASSUME NEW rows \in Nat, NEW q \in Nat \ {0}, NEW d \in 0..(rows - 1), NEW r \in 0..(q - 1)
  PROVE  d * q + r \in 0..(rows * q - 1)
<1>1. d + 1 \in Nat /\ d + 1 <= rows /\ d \in Nat OBVIOUS
<1>2. q * (d + 1) <= q * rows /\ q * rows \in Nat BY <1>1, Monotone
<1>3. q * (d + 1) = d * q + q /\ q * rows = rows * q /\ d * q \in Nat BY <1>1
<1>4. QED BY <1>2, <1>3

(* The samples that belong in element x of result n, by the layout of an   *)
(* acquisition.                                                            *)
Sought(x, n) ==
  {g \in 0..(ni*nj*nk*board.nbrRoundRobins - 1) :
     /\ Layout(g).roundRobin \in {n * nl + l : l \in 0..(nl - 1)}
     /\ Layout(g).segment = x \div ni
     /\ Layout(g).position = x % ni}

(* The averager's indices are the places of those samples in the buffer.   *)
LEMMA RightSamples ==
  ASSUME GeometryInv, result = "ok", ~board.partialBuffer,
         NEW n \in Nat, n < board.nbrBuffers, NEW x \in 0..(ni * nk - 1)
  PROVE  /\ Elements(x) \subseteq 0..(half - 1)
         /\ Sought(x, n) = {n * half + s : s \in Elements(x)}
<1> DEFINE L == ni
           W == nj
           S == nk
           r == nl
           R == board.nbrRoundRobins
           i == x % L
           k == x \div L
<1>1. /\ L \in Nat /\ W \in Nat /\ S \in Nat /\ r \in Nat \ {0}
      /\ board.nbrBuffers \in Nat /\ R = r * board.nbrBuffers /\ half = L * S * W * r
  BY WholeExtents
<1>2. L \in Nat \ {0} /\ S \in Nat \ {0} /\ x \in Nat
  <2>1. x \in Nat /\ 0 < L * S BY <1>1
  <2>2. L = 0 => L * S = 0 BY <1>1
  <2>3. S = 0 => L * S = 0 BY <1>1
  <2>4. QED BY <1>1, <2>1, <2>2, <2>3
<1>3. i \in 0..(L - 1) /\ k \in Nat /\ x = k * L + i BY <1>2, Split
<1>4. k \in 0..(S - 1)
  <2>1. k >= S => L * S <= L * k BY <1>2, <1>3, Monotone
  <2>2. L * k = k * L /\ L * S \in Nat /\ k * L \in Nat BY <1>2, <1>3
  <2>3. k * L <= x BY <1>3, <2>2
  <2>4. x < L * S BY <1>2, <2>2
  <2>5. QED BY <1>2, <1>3, <2>1, <2>2, <2>3, <2>4
<1>5. Elements(x) = {SourceIndex(i, j, k, l) : j \in 0..(W - 1), l \in 0..(r - 1)}
  BY DEF Elements
<1>6. ASSUME NEW g \in Nat
      PROVE  Layout(g) = [position |-> g % L, waveform |-> (g \div L) % W,
                          segment |-> ((g \div L) \div W) % S,
                          roundRobin |-> (g \div L) \div (W * S)]
  BY DEF Layout
<1> HIDE DEF i, k, L, W, S, r, R
<1>7. ASSUME NEW j \in 0..(W - 1), NEW l \in 0..(r - 1)
      PROVE  /\ SourceIndex(i, j, k, l) \in 0..(half - 1)
             /\ n * half + SourceIndex(i, j, k, l) \in Sought(x, n)
  <2> DEFINE m == n * r + l
             a == m * S + k
             b == a * W + j
             g == b * L + i
             s == SourceIndex(i, j, k, l)
  <2>1. W \in Nat \ {0} /\ j \in Nat /\ l \in Nat BY <1>1
  <2>2. s = ((l * S + k) * W + j) * L + i
    <3>1. s = i + j*L + k*L*W + l*L*W*S BY DEF SourceIndex, L, W, S
    <3>2. i + j*L + k*L*W + l*L*W*S = ((l * S + k) * W + j) * L + i
      BY <1>1, <1>3, <2>1
    <3>3. QED BY <3>1, <3>2
  <2>3. s \in 0..(half - 1)
    <3>1. l * S + k \in 0..(r * S - 1) BY <1>1, <1>2, <1>4, InTable
    <3>2. r * S \in Nat /\ r * S * W \in Nat BY <1>1
    <3>3. (l * S + k) * W + j \in 0..(r * S * W - 1) BY <2>1, <3>1, <3>2, InTable
    <3>4. ((l * S + k) * W + j) * L + i \in 0..(r * S * W * L - 1)
      BY <1>2, <1>3, <3>2, <3>3, InTable
    <3>5. half = r * S * W * L BY <1>1
    <3>6. QED BY <2>2, <3>4, <3>5
  <2>4. n * half + s = g
    <3>1. n * half = n * (L * S * W * r) BY <1>1
    <3>2. n * (L * S * W * r) + (((l * S + k) * W + j) * L + i)
            = (((n * r + l) * S + k) * W + j) * L + i
      BY <1>1, <1>3, <2>1
    <3>3. QED BY <2>2, <3>1, <3>2
  <2>5. m \in 0..(R - 1) /\ m \in Nat
    <3>1. m \in 0..(board.nbrBuffers * r - 1) BY <1>1, InTable
    <3>2. board.nbrBuffers * r = R BY <1>1
    <3>3. QED BY <3>1, <3>2
  <2>6. m \in {n * r + y : y \in 0..(r - 1)} OBVIOUS
  <2> HIDE DEF m, s
  <2>7. a \in 0..(R * S - 1) /\ a \div S = m /\ a % S = k /\ a \in Nat
    <3>1. R \in Nat BY <1>1
    <3>2. a \in 0..(R * S - 1) BY <1>2, <1>4, <2>5, <3>1, InTable
    <3>3. (m * S + k) \div S = m /\ (m * S + k) % S = k BY <1>2, <1>4, <2>5, Unique
    <3>4. m * S + k \in Nat BY <1>2, <1>3, <2>5
    <3>5. QED BY <3>2, <3>3, <3>4
  <2>8. b \div (W * S) = m
    <3>1. k * W + j \in 0..(S * W - 1) BY <1>1, <1>4, <2>1, InTable
    <3>2. S * W \in Nat \ {0} BY <1>2, <2>1
    <3>3. (m * (S * W) + (k * W + j)) \div (S * W) = m
      <4> DEFINE q == S * W
                 y == k * W + j
      <4>1. q \in Nat \ {0} /\ y \in 0..(q - 1) BY <3>1, <3>2
      <4> HIDE DEF q, y
      <4>2. m \in Nat BY <2>5
      <4>3. (m * q + y) \div q = m BY <4>1, <4>2, Unique
      <4>4. QED BY <4>3 DEF q, y
    <3>4. b = m * (S * W) + (k * W + j) BY <1>1, <1>3, <2>1, <2>5
    <3>5. W * S = S * W BY <1>1
    <3>6. QED BY <3>3, <3>4, <3>5
  <2> HIDE DEF a
  <2>9. b \in 0..(R * S * W - 1) /\ b \div W = a /\ b % W = j /\ b \in Nat
    <3>1. R * S \in Nat BY <1>1
    <3>2. b \in 0..(R * S * W - 1) BY <2>1, <2>7, <3>1, InTable
    <3>3. (a * W + j) \div W = a /\ (a * W + j) % W = j BY <2>1, <2>7, Unique
    <3>4. a * W + j \in Nat BY <2>1, <2>7
    <3>5. QED BY <3>2, <3>3, <3>4
  <2> HIDE DEF b
  <2>10. g \in 0..(R * S * W * L - 1) /\ g \div L = b /\ g % L = i /\ g \in Nat
    <3>1. R * S * W \in Nat BY <1>1
    <3>2. g \in 0..(R * S * W * L - 1) BY <1>2, <1>3, <2>9, <3>1, InTable
    <3>3. (b * L + i) \div L = b /\ (b * L + i) % L = i BY <1>2, <1>3, <2>9, Unique
    <3>4. b * L + i \in Nat BY <1>2, <1>3, <2>9
    <3>5. QED BY <3>2, <3>3, <3>4
  <2> HIDE DEF g
  <2>11. Layout(g) = [position |-> i, waveform |-> j, segment |-> k, roundRobin |-> m]
    BY <1>6, <2>7, <2>8, <2>9, <2>10
  <2>12. R * S * W * L = L * W * S * R BY <1>1
  <2>13. g \in Sought(x, n)
    <3>1. /\ Layout(g).roundRobin = m /\ Layout(g).segment = k /\ Layout(g).position = i
      BY <2>11
    <3>2. g \in 0..(L * W * S * R - 1) BY <2>10, <2>12
    <3>3. QED BY <2>6, <3>1, <3>2 DEF Sought, i, k, L, W, S, R, r
  <2>14. QED BY <2>3, <2>4, <2>13 DEF s
<1>8. ASSUME NEW g \in Sought(x, n)
      PROVE  \E s \in Elements(x) : g = n * half + s
  <2> DEFINE b == g \div L
             j == b % W
             a == b \div W
             m == b \div (W * S)
  <2>1. g \in 0..(L * W * S * R - 1) BY DEF Sought, L, W, S, R
  <2>2. W \in Nat \ {0} /\ R \in Nat
    <3>1. R \in Nat BY <1>1
    <3>2. W = 0 => L * W * S * R = 0 BY <1>1, <3>1
    <3>3. QED BY <1>1, <2>1, <3>1, <3>2
  <2>3. g \in Nat BY <1>1, <2>1, <2>2
  <2>4. b \in Nat /\ g = b * L + (g % L) BY <1>2, <2>3, Split
  <2>5. a \in Nat /\ j \in 0..(W - 1) /\ b = a * W + j BY <2>2, <2>4, Split
  <2>6. /\ m \in {n * r + l : l \in 0..(r - 1)} /\ a % S = k /\ g % L = i
    <3>1. Layout(g) = [position |-> g % L, waveform |-> j, segment |-> a % S, roundRobin |-> m]
      BY <1>6, <2>3
    <3> HIDE DEF m, a, j
    <3>2. /\ Layout(g).roundRobin = m /\ Layout(g).segment = a % S
          /\ Layout(g).position = g % L
      BY <3>1
    <3>3. QED BY <3>2 DEF Sought, i, k, L, W, S, R, r
  <2>7. PICK l \in 0..(r - 1) : m = n * r + l BY <2>6
  <2> HIDE DEF a
  <2>8. a = m * S + k
    <3> DEFINE c == a \div S
    <3>1. c \in Nat /\ a = c * S + k BY <1>2, <2>5, <2>6, Split
    <3> HIDE DEF c
    <3>2. k * W + j \in 0..(S * W - 1) BY <1>1, <1>4, <2>2, <2>5, InTable
    <3>3. S * W \in Nat \ {0} BY <1>2, <2>2
    <3>4. (c * (S * W) + (k * W + j)) \div (S * W) = c BY <3>1, <3>2, <3>3, Unique
    <3>5. b = c * (S * W) + (k * W + j)
      <4>1. a * W + j = (c * S + k) * W + j BY <3>1
      <4>2. (c * S + k) * W + j = c * (S * W) + (k * W + j)
        BY <1>1, <1>3, <2>2, <2>5, <3>1
      <4>3. QED BY <2>5, <4>1, <4>2
    <3>6. W * S = S * W BY <1>1
    <3>7. m = c BY <3>4, <3>5, <3>6
    <3>8. QED BY <3>1, <3>7
  <2> HIDE DEF b, j, m
  <2> DEFINE s == SourceIndex(i, j, k, l)
  <2>9. g = n * half + s
    <3>1. s = i + j*L + k*L*W + l*L*W*S BY DEF SourceIndex, L, W, S
    <3>2. g = (((n * r + l) * S + k) * W + j) * L + i
      BY <2>4, <2>5, <2>6, <2>7, <2>8
    <3>3. n * half = n * (L * S * W * r) BY <1>1
    <3>4. l \in Nat /\ j \in Nat BY <1>1, <2>2, <2>5
    <3>5. (((n * r + l) * S + k) * W + j) * L + i
            = n * (L * S * W * r) + (i + j*L + k*L*W + l*L*W*S)
      BY <1>1, <1>3, <3>4
    <3>6. QED BY <3>1, <3>2, <3>3, <3>5
  <2>10. s \in Elements(x) BY <1>5, <2>5
  <2>11. QED BY <2>9, <2>10
<1>9. Elements(x) \subseteq 0..(half - 1) BY <1>5, <1>7
<1>10. \A s \in Elements(x) : n * half + s \in Sought(x, n) BY <1>5, <1>7
<1>11. QED BY <1>8, <1>9, <1>10

LEMMA AverageOfBuffer ==
  ASSUME GeometryInv, result = "ok", ~board.partialBuffer, processed \in Nat,
         processed < board.nbrBuffers, half \in Nat,
         NEW ch \in Channels, NEW x \in 0..(ni * nk - 1)
  PROVE  Total([y \in 0..(half - 1) |-> Value(Interleaved(y, ch))], Elements(x))
           = SetToBag({<<ch, g>> : g \in Sought(x, processed)})
<1> DEFINE n == processed
           E == Elements(x)
           source == [y \in 0..(half - 1) |-> Value(Interleaved(y, ch))]
           sample == [y \in E |-> <<ch, n * half + y>>]
<1>1. E \subseteq 0..(half - 1) /\ Sought(x, n) = {n * half + s : s \in E}
  BY RightSamples
<1> HIDE DEF E
<1>2. IsFiniteSet(E)
  <2>1. IsFiniteSet(0..(half - 1)) BY FS_Interval
  <2>2. QED BY <1>1, <2>1, FS_Subset
<1>3. ASSUME NEW y \in E PROVE source[y].sum = SetToBag({sample[y]})
  <2>1. y \in 0..(half - 1) /\ y \in Nat BY <1>1
  <2>2. source[y] = Value(Interleaved(y, ch)) BY <2>1
  <2>3. Interleaved(y, ch) = <<ch, n * half + y>> BY <2>1, SampleInByte
  <2>4. sample[y] = <<ch, n * half + y>> OBVIOUS
  <2> HIDE DEF source, sample
  <2>5. source[y].sum = SetToBag({Interleaved(y, ch)}) BY <2>2 DEF Value
  <2>6. QED BY <2>3, <2>4, <2>5
<1>4. ASSUME NEW y \in E, NEW z \in E, sample[y] = sample[z] PROVE y = z
  <2>1. y \in Nat /\ z \in Nat /\ n * half \in Nat BY <1>1
  <2>2. sample[y][2] = n * half + y /\ sample[z][2] = n * half + z OBVIOUS
  <2>3. n * half + y = n * half + z BY <1>4, <2>2
  <2>4. QED BY <2>1, <2>3
<1> HIDE DEF source
<1>5. Total(source, E) = SetToBag({sample[y] : y \in E})
  <2> HIDE DEF sample
  <2>1. \A s \in E : source[s].sum = SetToBag({sample[s]}) BY <1>3
  <2>2. \A s, t \in E : sample[s] = sample[t] => s = t BY <1>4
  <2>3. SingleSamples(source, E, sample) BY <1>2, <2>1, <2>2 DEF SingleSamples
  <2>4. QED BY <2>3, TotalOfSamples
<1>6. {sample[y] : y \in E} = {<<ch, g>> : g \in Sought(x, n)} BY <1>1
<1>7. QED BY <1>5, <1>6 DEF source, E

LEMMA CompleteAveraged ==
  ASSUME GeometryInv, ProcessInv, ProcessCompleteBuffer, board.averager,
         result = "ok", ~overrun'
  PROVE  ResultsRight' /\ Placed'
<1> DEFINE n == processed
           Source(ch) == [y \in 0..(half - 1) |-> Value(Interleaved(y, ch))]
           filled == [ch \in Channels |-> Averaged(Passed[ch], Source(ch))]
           samples == acqParams.samplesPerAcquisition
<1>1. HasBuffer /\ ~board.partialBuffer /\ Processed(work, filled)
  <2>1. \A ch \in Channels : filled[ch] = Averaged(Passed[ch], Source(ch))
    BY Zenon
  <2>2. filled = [ch \in Channels |-> filled[ch]] BY Zenon
  <2> HIDE DEF filled
  <2>3. QED BY <2>1, <2>2, CompleteProcessed
<1>2. /\ n \in Nat /\ n < board.nbrBuffers /\ bufferCounter \in Nat
      /\ Arrays(work, board.samplesPerAcquisition) /\ Arrays(app, samples)
  BY <1>1 DEF HasBuffer, ProcessInv
<1>3. half \in Nat /\ samples = ni * nk /\ Arrays(Passed, ni * nk)
  <2>1. half \in Nat /\ board.samplesPerAcquisition = samples BY <1>2, Extents
  <2>2. samples = ni * nk BY <1>1, <1>2, WholeExtents
  <2>3. QED BY <1>2, <2>1, <2>2 DEF Passed
<1> HIDE DEF filled
<1>4. /\ board' = board /\ acqParams' = acqParams /\ processed' = n + 1
      /\ Passed' = filled
  BY <1>1 DEF Processed, configVars, Passed
<1>5. ResultNumber' = n
  <2>1. ResultNumber' = ((n + 1) - 1) \div 1
    BY <1>1, <1>4 DEF ResultNumber
  <2>2. ((n + 1) - 1) \div 1 = n BY <1>2
  <2>3. QED BY <2>1, <2>2
<1>6. ASSUME NEW ch \in Channels, NEW x \in DOMAIN filled[ch]
      PROVE  filled[ch][x] = [sum |-> SetToBag({<<ch, g>> : g \in Sought(x, n)}),
                              over |-> nj * nl]
  <2>1. filled[ch] = Averaged(Passed[ch], Source(ch)) BY DEF filled
  <2> HIDE DEF Source
  <2>2. x \in DOMAIN Passed[ch] BY <2>1 DEF Averaged
  <2>3. x \in 0..(ni * nk - 1) BY <1>3, <2>2 DEF Arrays
  <2>4. x < ni * nk
    <3>1. ni * nk \in Nat BY <1>1, <1>2, WholeExtents
    <3>2. QED BY <2>3, <3>1
  <2>5. filled[ch][x] = [sum |-> Total(Source(ch), Elements(x)), over |-> nj * nl]
    BY <2>1, <2>2, <2>4, Zenon DEF Averaged, Denominator
  <2>6. Total(Source(ch), Elements(x)) = SetToBag({<<ch, g>> : g \in Sought(x, n)})
    BY <1>1, <1>2, <1>3, <2>3, AverageOfBuffer DEF Source
  <2>7. QED BY <2>5, <2>6, Zenon
<1>7. ASSUME NEW ch \in Channels, NEW x
      PROVE  Expected(ch, x)' = [sum |-> SetToBag({<<ch, g>> : g \in Sought(x, n)}),
                                 over |-> nj * nl]
  <2>1. ni' = ni /\ nj' = nj /\ nk' = nk /\ nl' = nl BY <1>4 DEF ni, nj, nk, nl
  <2>2. \A g : Layout(g)' = Layout(g) BY <2>1, Zenon DEF Layout
  <2>3. RoundRobins' = {n * nl + l : l \in 0..(nl - 1)} BY <1>5, <2>1, Zenon DEF RoundRobins
  <2>4. Expected(ch, x)' =
          [sum |-> SetToBag(
             {<<ch, g>> : g \in {g \in 0..(ni'*nj'*nk'*board'.nbrRoundRobins - 1) :
                /\ Layout(g)'.roundRobin \in RoundRobins'
                /\ Layout(g)'.segment = x \div ni'
                /\ Layout(g)'.position = x % ni'}}),
           over |-> nj' * nl']
    BY <1>4, Zenon DEF Expected
  <2>5. {g \in 0..(ni'*nj'*nk'*board'.nbrRoundRobins - 1) :
           /\ Layout(g)'.roundRobin \in RoundRobins'
           /\ Layout(g)'.segment = x \div ni'
           /\ Layout(g)'.position = x % ni'} = Sought(x, n)
    BY <1>4, <2>1, <2>2, <2>3, Zenon DEF Sought
  <2>6. QED BY <2>1, <2>4, <2>5, Zenon
<1>8. ResultRight' BY <1>4, <1>6, <1>7 DEF ResultRight
<1>9. QED BY <1>1, <1>4, <1>8 DEF ResultsRight, Placed

LEMMA StaysRight ==
  ASSUME GeometryInv, ProcessInv, ResultsRight, Placed, [ProcessNext]_processAll
  PROVE  ResultsRight' /\ Placed'
<1>1. ASSUME NEW c \in Requests, SetAll(c) PROVE ResultsRight' /\ Placed'
  <2>1. ~full' /\ ~acquiring' BY <1>1 DEF SetAll, ProcessInv
  <2>2. QED BY <2>1 DEF ResultsRight, Placed
<1>2. ASSUME NEW socket \in BOOLEAN, Acquire(socket) PROVE ResultsRight' /\ Placed'
  <2>1. ~full' BY <1>2 DEF Acquire, ProcessInv
  <2>2. Placed'
    <3>1. ASSUME result' = "ok" PROVE half' * (processed' % PerResult') = 0
      <4>1. board' = board /\ processed' = 0 /\ result = "ok" /\ bufferCounter \in Nat
        BY <1>2, <3>1 DEF Acquire, configVars, ProcessInv
      <4>2. half \in Nat /\ PerResult \in Nat \ {0} BY <4>1, Extents
      <4>3. half' = half /\ PerResult' = PerResult BY <4>1 DEF half, PerResult
      <4> HIDE DEF half, PerResult
      <4>4. 0 % PerResult = 0 BY <4>2
      <4>5. QED BY <4>1, <4>2, <4>3, <4>4
    <3>2. ASSUME result' = "ok" PROVE 0..(half' * (processed' % PerResult') - 1) = {}
      BY <3>1, <3>2
    <3>3. QED BY <3>2 DEF Placed
  <2>3. QED BY <2>1, <2>2 DEF ResultsRight
<1>3. CASE ProcessCompleteBuffer
  <2>1. /\ HasBuffer /\ ~board.partialBuffer
        /\ overrun' = IF board.averager THEN AverageOverruns(Passed["ch1"], half)
                      ELSE PlaceOverruns(Passed["ch1"], 0)
        /\ \E filled : Processed(work, filled)
    BY <1>3, Zenon DEF ProcessCompleteBuffer
  <2>2. result' = result BY <2>1 DEF Processed, configVars
  <2>3. CASE result # "ok" BY <2>2, <2>3 DEF ResultsRight, Placed
  <2>4. CASE result = "ok"
    <3>1. WorkBufferFits BY <2>1 DEF WorkBufferFits
    <3>2. ~overrun' BY <2>1, <2>4, <3>1, BufferFits, LoopsFit
    <3>3. QED BY <1>3, <2>4, <3>2, CompleteDigitized, CompleteAveraged
  <2>5. QED BY <2>3, <2>4
<1>4. CASE ProcessPartialDigitizer
  <2>1. board.partialBuffer /\ \E filled : Processed(work, filled)
    BY <1>4, Zenon DEF ProcessPartialDigitizer
  <2>2. board' = board /\ result' = result BY <2>1 DEF Processed, configVars
  <2>3. CASE result # "ok" \/ ~inStep' BY <2>1, <2>2, <2>3 DEF ResultsRight, Placed
  <2>4. CASE result = "ok" /\ inStep' BY <1>4, <2>4, PartialDigitized
  <2>5. QED BY <2>3, <2>4
<1>5. CASE ProcessPartialAverager
  <2>1. board.partialBuffer /\ board.averager BY <1>5, Zenon DEF ProcessPartialAverager
  <2>2. PICK written, filled : Processed(written, filled)
    BY <1>5, Zenon DEF ProcessPartialAverager
  <2>3. board' = board BY <2>2 DEF Processed, configVars
  <2>4. QED BY <2>1, <2>3 DEF ResultsRight, Placed
<1>6. CASE Stop
  <2>1. ~full' /\ ~acquiring' BY <1>6 DEF Stop
  <2>2. QED BY <2>1 DEF ResultsRight, Placed
<1>7. ASSUME \/ UNCHANGED processAll
             \/ RxCounts
      PROVE  ResultsRight' /\ Placed'
  <2>1. /\ board' = board /\ acqParams' = acqParams /\ acquiring' = acquiring
        /\ onSocket' = onSocket /\ processed' = processed /\ inStep' = inStep
        /\ work' = work /\ app' = app /\ full' = full /\ result' = result
    BY <1>7 DEF processAll, configVars, processVars, RxCounts
  <2>2. Passed' = Passed BY <2>1 DEF Passed
  <2>3. Placed'
    <3>1. half' = half /\ PerResult' = PerResult BY <2>1 DEF half, PerResult
    <3>2. QED BY <2>1, <2>2, <3>1 DEF Placed
  <2>4. ResultRight' <=> ResultRight
    <3>1. ni' = ni /\ nj' = nj /\ nk' = nk /\ nl' = nl /\ ResultNumber' = ResultNumber
      BY <2>1 DEF ni, nj, nk, nl, ResultNumber
    <3>2. RoundRobins' = RoundRobins BY <3>1 DEF RoundRobins
    <3>3. \A g : Layout(g)' = Layout(g) BY <3>1, Zenon DEF Layout
    <3>4. \A ch, x : Expected(ch, x)' = Expected(ch, x)
      BY <2>1, <3>1, <3>2, <3>3, Zenon DEF Expected
    <3>5. QED BY <2>2, <3>4, Zenon DEF ResultRight
  <2>5. QED BY <2>1, <2>3, <2>4 DEF ResultsRight
<1>8. QED BY <1>1, <1>2, <1>3, <1>4, <1>5, <1>6, <1>7 DEF ProcessNext
-----------------------------------------------------------------------------
(* The theorems. *)

(* The counters stay in the bounds of the acquisition that is on, and the  *)
(* arrays have the extents the application was told and the work buffers   *)
(* were resized to (libAlazar.cpp:326-331), through every refused setAll.  *)
THEOREM ProcessTyped == ASSUME RegularRequests PROVE ProcessSpec => []ProcessTypeOK
<1>1. TypeOK /\ GeometryInv /\ ProcessInv => ProcessTypeOK
  <2> SUFFICES ASSUME TypeOK, GeometryInv, ProcessInv PROVE ProcessTypeOK
    OBVIOUS
  <2>1. acquiring => {bufferCounter, processed} \subseteq 0..board.nbrBuffers
    BY Numbers DEF ProcessInv
  <2>2. QED BY <2>1 DEF ProcessTypeOK, ProcessInv, Arrays
<1>2. QED BY <1>1, GeometryTyped, ProcessConfigures, ProcessGeometry, ProcessHolds, PTL

(* processBuffer returns 1 exactly numberAcquisitions times over the       *)
(* buffers of an acquisition that follows an accepted setAll               *)
(* (libAlazar.cpp:306, 318, 667, 787): the application neither waits for a *)
(* result that never comes nor misses one.  When a round robin takes       *)
(* several buffers and a client polls, this needs bufferCounter, which rx  *)
(* counts, in step with the client.                                        *)
THEOREM ResultsCounted == ASSUME RegularRequests PROVE ProcessSpec => []ResultCount
<1>1. GeometryInv /\ ProcessInv => ResultCount
  <2> SUFFICES ASSUME GeometryInv, ProcessInv, result = "ok", processed = board.nbrBuffers,
                      InPlace
               PROVE  results = acqParams.numberAcquisitions
    BY DEF ResultCount, InPlace
  <2> DEFINE P == PerResult
             N == acqParams.numberAcquisitions
  <2>1. bufferCounter \in Nat /\ results = processed \div P BY DEF ProcessInv
  <2>2. P \in Nat \ {0} /\ N \in Nat /\ board.nbrBuffers = P * N BY <2>1, Extents
  <2>3. (P * N) \div P = N BY <2>2, Exact
  <2>4. QED BY <2>1, <2>2, <2>3
<1>2. QED BY <1>1, ProcessGeometry, ProcessHolds, PTL

(* After an accepted setAll processBuffer stays inside the arrays the      *)
(* client allocated, inside the work buffers and inside the buffer it      *)
(* reads (libAlazar.cpp:307-331 against 679-795), whatever rx has counted  *)
(* by then, unless round robins of several waveforms and several buffers   *)
(* are averaged.                                                           *)
THEOREM StaysInArrays ==
  ASSUME RegularRequests, AveragesFit PROVE ProcessSpec => []NoOverrun
<1>1. ProcessInit => NoOverrun BY DEF ProcessInit, NoOverrun
<1>2. GeometryInv /\ ProcessInv /\ WorkBufferFits /\ NoOverrun /\ [ProcessNext]_processAll
        => NoOverrun'
  BY StaysInside
<1>3. ProcessSpec => []WorkBufferFits BY ProcessConfigures, WorkBuffersFit, PTL
<1>4. QED
  BY <1>1, <1>2, <1>3, ProcessGeometry, ProcessHolds, PTL DEF ProcessSpec, processAll

(* A finished result after an accepted setAll is what the mode promises    *)
(* (libAlazar.cpp:682-732, 776-795): in digitizer mode every sample of its *)
(* round robins, on its channel and in order, put together from one buffer *)
(* or, as long as bufferCounter is in step with the processing, several;   *)
(* in averager mode, when a buffer holds whole round robins, for each      *)
(* segment the sum over exactly its waveforms and round robins.  Nothing   *)
(* is left in it of an earlier result, acquisition or configuration.       *)
THEOREM ResultsAreRight == ASSUME RegularRequests PROVE ProcessSpec => []ResultsRight
<1>1. ProcessInit => ResultsRight /\ Placed
  BY DEF ProcessInit, ResultsRight, Placed
<1>2. GeometryInv /\ ProcessInv /\ ResultsRight /\ Placed /\ [ProcessNext]_processAll
        => ResultsRight' /\ Placed'
  BY StaysRight
<1>3. QED BY <1>1, <1>2, ProcessGeometry, ProcessHolds, PTL DEF ProcessSpec, processAll

(* In ProcessBuffer too an accepted setAll leaves a geometry that conserves *)
(* the records and the samples, whatever acquisitions, stops and refused   *)
(* calls came before it.                                                   *)
THEOREM GeometryWhileProcessing ==
  ASSUME RegularRequests
  PROVE  ProcessSpec => [](/\ BuffersHoldRecords
                           /\ RoundRobinsDividedEqually
                           /\ RoundRobinEquallyDivided
                           /\ LargestBuffers
                           /\ SamplesConserved)
BY ProcessConfigures, BuffersExact, RoundRobinsDivided, RoundRobinDivided, BuffersLargest,
   SamplesTold, PTL
=============================================================================
