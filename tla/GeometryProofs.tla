--------------------------- MODULE GeometryProofs ---------------------------
(***************************************************************************)
(* What holds of ConfigureBoard for every configuration whose products fit *)
(* a uint32_t and whose records fit a buffer of the recommended size.      *)
(***************************************************************************)
EXTENDS ConfigureBoard, FiniteSetTheorems, TLAPS

(* No product of the configuration wraps, and its records fit the size     *)
(* Alazar recommends or are refused.  What the code does with others is    *)
(* shown on instances: HugeAcquisition and LongRecord.                     *)
Regular(c) ==
  /\ c.recordLength * c.nbrSegments < Word
  /\ c.recordLength * c.nbrSegments * c.nbrWaveforms * c.nbrRoundRobins * numChannels < Word
  /\ \/ c.recordLength * numChannels <= PrefBufferSize
     \/ c.recordLength * numChannels > MaxBufferSize
RegularRequests == \A c \in Requests : Regular(c)
-----------------------------------------------------------------------------
(* Arithmetic. *)

(* A set of numbers has a least one. *)
LEMMA Least == ASSUME NEW T \in SUBSET Nat, T # {} PROVE \E m \in T : \A y \in T : m <= y
<1>1. \A x, y \in Nat : <<x, y>> \in OpToRel(<, Nat) <=> x < y
  BY Zenon DEF OpToRel
<1>2. PICK m \in T : \A y \in T : ~(<<y, m>> \in OpToRel(<, Nat))
  BY NatLessThanWellFounded, WFMin, Zenon
<1>3. \A y \in T : ~(y < m) BY <1>1, <1>2, Zenon
<1>4. QED BY <1>3

LEMMA Small == ASSUME NEW x \in Nat, x < Word PROVE x % Word = x
BY SizesAssumption

(* A product that fits is the product. *)
LEMMA Times ==
  ASSUME NEW a \in Nat, NEW b \in Nat
  PROVE  /\ a \otimes b \in Unsigned /\ a \otimes b \in Nat
         /\ a * b \in Nat
         /\ a * b < Word => a \otimes b = a * b
<1>1. a * b \in Nat OBVIOUS
<1>2. ASSUME NEW x \in Nat PROVE x % Word \in Unsigned /\ x % Word \in Nat
  BY SizesAssumption DEF Unsigned
<1>3. QED BY <1>1, <1>2, Small DEF \otimes

LEMMA Monotone ==
  ASSUME NEW a \in Nat, NEW b \in Nat, NEW c \in Nat, b <= c
  PROVE  a * b <= a * c /\ a * b \in Nat /\ a * c \in Nat
<1>1. a * c = a * b + a * (c - b) OBVIOUS
<1>2. a * (c - b) \in Nat /\ a * b \in Nat OBVIOUS
<1>3. QED BY <1>1, <1>2

LEMMA Grows ==
  ASSUME NEW a \in Nat, NEW b \in Nat \ {0} PROVE a <= a * b
<1>1. a * 1 <= a * b BY Monotone
<1>2. QED BY <1>1

(* A divisor and its quotient. *)
LEMMA Quotient ==
  ASSUME NEW n \in Nat, NEW d \in Divisors(n)
  PROVE  \E q \in Nat : /\ n = d * q /\ n \div d = q
                        /\ d \in Nat \ {0} /\ d <= n /\ q > 0
<1>1. d \in Nat \ {0} /\ n % d = 0 /\ d <= n BY DEF Divisors
<1>2. n = d * (n \div d) /\ n \div d \in Nat BY <1>1
<1>3. n \div d # 0
  <2>1. n \div d = 0 => n = d * 0 BY <1>2
  <2>2. d * 0 = 0 BY <1>1
  <2>3. QED BY <1>1, <2>1, <2>2
<1>4. QED BY <1>1, <1>2, <1>3

LEMMA Exact == ASSUME NEW d \in Nat \ {0}, NEW q \in Nat PROVE (d * q) \div d = q
OBVIOUS

(* The lists of factors and the loops over them. *)

(* The place of a factor in n's list. *)
Rank(n, d) == Cardinality({e \in Divisors(n) : e >= d})

(* A larger factor stands before a smaller one. *)
LEMMA PlacesDescend ==
  ASSUME NEW n \in Nat
  PROVE  /\ IsFiniteSet(Divisors(n)) /\ Divisors(n) \in SUBSET Nat
         /\ Cardinality(Divisors(n)) \in Nat
         /\ \A d \in Divisors(n) : Rank(n, d) \in 1..Cardinality(Divisors(n))
         /\ \A d, e \in Divisors(n) : d < e => Rank(n, e) < Rank(n, d)
<1> DEFINE D == Divisors(n)
           From(d) == {e \in D : e >= d}
<1>1. D \in SUBSET (1..n) /\ D \in SUBSET Nat BY DEF Divisors
<1>2. IsFiniteSet(D) /\ Cardinality(D) \in Nat
  <2>1. IsFiniteSet(1..n) BY FS_Interval
  <2>2. IsFiniteSet(D) BY <1>1, <2>1, FS_Subset
  <2>3. QED BY <2>2, FS_CardinalityType
<1> HIDE DEF D
<1>3. ASSUME NEW d \in D
      PROVE  /\ IsFiniteSet(From(d)) /\ From(d) \in SUBSET D /\ d \in From(d)
             /\ Cardinality(From(d)) \in 1..Cardinality(D)
  <2>1. From(d) \in SUBSET D OBVIOUS
  <2>2. IsFiniteSet(From(d)) /\ Cardinality(From(d)) <= Cardinality(D)
    BY <1>2, <2>1, FS_Subset
  <2>3. d \in From(d) BY <1>1
  <2> DEFINE U == From(d)
  <2> HIDE DEF U
  <2>4. Cardinality(U) \in Nat /\ Cardinality(U) # 0
    <3>1. IsFiniteSet(U) /\ U # {} BY <2>2, <2>3 DEF U
    <3>2. QED BY <3>1, FS_CardinalityType, FS_EmptySet
  <2>5. QED BY <1>2, <2>1, <2>2, <2>3, <2>4 DEF U
<1>4. ASSUME NEW d \in D, NEW e \in D, d < e
      PROVE  Cardinality(From(e)) < Cardinality(From(d))
  <2> DEFINE U == From(d)
             V == From(e)
  <2>1. IsFiniteSet(U) /\ Cardinality(U) \in Nat /\ Cardinality(V) \in Nat
    BY <1>3, <1>2
  <2>2. V \in SUBSET U
    <3>1. d \in Nat /\ e \in Nat /\ d < e BY <1>1, <1>4
    <3>2. ASSUME NEW x \in D, x >= e PROVE x >= d
      <4>1. x \in Nat BY <1>1
      <4>2. QED BY <3>1, <3>2, <4>1
    <3>3. QED BY <3>2
  <2>3. d \in U /\ d \notin V BY <1>1, <1>4
  <2> HIDE DEF U, V
  <2>4. V # U BY <2>3
  <2>5. Cardinality(V) <= Cardinality(U) /\ Cardinality(V) # Cardinality(U)
    BY <2>1, <2>2, <2>4, FS_Subset
  <2>6. Cardinality(V) < Cardinality(U) BY <2>1, <2>5
  <2>7. QED BY <2>6 DEF U, V
<1>5. \A d \in D : Rank(n, d) = Cardinality(From(d)) BY DEF Rank, D
<1>6. \A d \in D : Rank(n, d) \in 1..Cardinality(D) BY <1>3, <1>5
<1>7. \A d, e \in D : d < e => Rank(n, e) < Rank(n, d) BY <1>4, <1>5
<1>8. QED BY <1>1, <1>2, <1>6, <1>7 DEF D

(* Every place is taken, so that the list is what the places say. *)
LEMMA FactorsPlaced ==
  ASSUME NEW n \in Nat
  PROVE  /\ DOMAIN Factors(n) = 1..Cardinality(Divisors(n))
         /\ \A i \in DOMAIN Factors(n) :
              Factors(n)[i] \in Divisors(n) /\ Rank(n, Factors(n)[i]) = i
         /\ \A d \in Divisors(n) :
              Rank(n, d) \in DOMAIN Factors(n) /\ Factors(n)[Rank(n, d)] = d
<1> DEFINE D == Divisors(n)
           size == Cardinality(D)
           f == [d \in D |-> Rank(n, d)]
<1>1. /\ IsFiniteSet(D) /\ D \in SUBSET Nat /\ size \in Nat
      /\ \A d \in D : Rank(n, d) \in 1..size
      /\ \A d, e \in D : d < e => Rank(n, e) < Rank(n, d)
  BY PlacesDescend
<1>2. ASSUME NEW d \in D, NEW e \in D, Rank(n, d) = Rank(n, e) PROVE d = e
  <2>1. d \in Nat /\ e \in Nat /\ Rank(n, d) \in 1..size BY <1>1
  <2>2. ~(d < e) /\ ~(e < d) BY <1>1, <1>2, <2>1
  <2>3. QED BY <2>1, <2>2
<1> HIDE DEF D, size
<1>3. Factors(n) = [i \in 1..size |-> CHOOSE d \in D : Rank(n, d) = i]
  BY DEF Factors, Rank, D, size
<1>4. f \in Injection(D, 1..size)
  <2>1. f \in [D -> 1..size] BY <1>1
  <2>2. \A d, e \in D : f[d] = f[e] => d = e BY <1>2
  <2>3. QED BY <2>1, <2>2 DEF Injection, IsInjective
<1>5. f \in Surjection(D, 1..size)
  <2>1. IsFiniteSet(1..size) /\ Cardinality(1..size) = size
    BY <1>1, FS_Interval
  <2>2. Cardinality(D) = Cardinality(1..size) BY <2>1 DEF size
  <2> HIDE DEF f
  <2>3. QED BY <1>4, <2>1, <2>2, FS_Injection
<1>6. ASSUME NEW i \in 1..size PROVE \E d \in D : Rank(n, d) = i
  <2>1. PICK d \in D : f[d] = i BY <1>5 DEF Surjection
  <2>2. QED BY <2>1
<1>7. ASSUME NEW i \in 1..size
      PROVE  Factors(n)[i] \in D /\ Rank(n, Factors(n)[i]) = i
  <2>1. Factors(n)[i] = CHOOSE d \in D : Rank(n, d) = i BY <1>3
  <2>2. QED BY <1>6, <2>1
<1>8. ASSUME NEW d \in D
      PROVE  Rank(n, d) \in 1..size /\ Factors(n)[Rank(n, d)] = d
  <2>1. Rank(n, d) \in 1..size BY <1>1
  <2>2. QED BY <1>2, <1>7, <2>1
<1>9. DOMAIN Factors(n) = 1..size BY <1>3
<1>10. QED BY <1>7, <1>8, <1>9 DEF D, size

(* The loop over n's factors ends with the largest one that fits, if any.  *)
LEMMA FirstIsLargest ==
  ASSUME NEW n \in Nat, NEW fitting, NEW otherwise
  PROVE  LET found == FirstFitting(Factors(n), fitting, otherwise)
         IN \/ found = otherwise /\ Divisors(n) \cap fitting = {}
            \/ /\ found \in Divisors(n) /\ found \in fitting
               /\ \A d \in Divisors(n) : d > found => d \notin fitting
<1> DEFINE list == Factors(n)
           places == {i \in DOMAIN list : list[i] \in fitting}
           found == FirstFitting(list, fitting, otherwise)
           size == Cardinality(Divisors(n))
<1>1. /\ DOMAIN list = 1..size /\ size \in Nat
      /\ \A i \in DOMAIN list : list[i] \in Divisors(n) /\ Rank(n, list[i]) = i
      /\ \A d \in Divisors(n) : Rank(n, d) \in DOMAIN list /\ list[Rank(n, d)] = d
  BY FactorsPlaced, PlacesDescend
<1>2. found = IF places = {} THEN otherwise ELSE list[Min(places)]
  BY DEF FirstFitting
<1> HIDE DEF list, found, size
<1>3. CASE places = {}
  <2>1. \A d \in Divisors(n) : d \notin fitting BY <1>1, <1>3
  <2>2. QED BY <1>2, <1>3, <2>1 DEF list, found
<1>4. CASE places # {}
  <2>1. places \in SUBSET Nat BY <1>1
  <2> DEFINE i == Min(places)
  <2>2. i \in places /\ \A j \in places : i <= j
    <3> HIDE DEF places
    <3>1. PICK m \in places : \A j \in places : m <= j BY <1>4, <2>1, Least
    <3>2. QED BY <3>1 DEF Min
  <2> HIDE DEF i
  <2>3. found = list[i] BY <1>2, <1>4 DEF i
  <2>4. found \in Divisors(n) /\ found \in fitting /\ Rank(n, found) = i
    BY <1>1, <2>2, <2>3
  <2>5. ASSUME NEW d \in Divisors(n), d > found, d \in fitting PROVE FALSE
    <3>1. Rank(n, d) < Rank(n, found)
      <4>1. found < d BY <2>4, <2>5, PlacesDescend
      <4>2. QED BY <2>4, <4>1, PlacesDescend
    <3>2. Rank(n, d) \in places BY <1>1, <2>5
    <3>3. Rank(n, d) \in Nat /\ i \in Nat BY <2>1, <2>2, <3>2
    <3>4. i <= Rank(n, d) BY <2>2, <3>2
    <3>5. QED BY <2>4, <3>1, <3>3, <3>4
  <2>6. QED BY <2>4, <2>5 DEF list, found
<1>5. QED BY <1>3, <1>4

(* The board object. *)

Board ==
  [averager : BOOLEAN, recordLength : Unsigned, nbrSegments : Unsigned,
   nbrWaveforms : Unsigned, nbrRoundRobins : Unsigned, partialBuffer : BOOLEAN,
   bufferLen : Unsigned, nbrBuffers : Unsigned, roundRobinsPerBuffer : Unsigned,
   buffersPerRoundRobin : Unsigned, recordsPerBuffer : Unsigned,
   recordsPerAcquisition : Unsigned, samplesPerAcquisition : Unsigned]

(* The products of a regular configuration: none of them wraps. *)
LEMMA Products ==
  ASSUME NEW b \in Board, Regular(b), b.recordLength > 0, NEW r \in 1..b.nbrRoundRobins
  PROVE  LET L == b.recordLength
             S == b.nbrSegments
             W == b.nbrWaveforms
         IN /\ S \otimes W = S * W /\ S \otimes W \otimes r = S * W * r
            /\ L \otimes S = L * S
            /\ L \otimes S \otimes W = L * S * W
            /\ L \otimes S \otimes W \otimes r = L * S * W * r
            /\ L \otimes S \otimes W \otimes r \otimes 2 = L * S * W * r * 2
            /\ {L * S, S * W, L * S * W, S * W * r, L * S * W * r, L * S * W * r * 2}
                 \subseteq Unsigned
<1> DEFINE L == b.recordLength
           S == b.nbrSegments
           W == b.nbrWaveforms
           R == b.nbrRoundRobins
<1>0. /\ L \in Nat \ {0} /\ S \in Nat /\ W \in Nat /\ R \in Nat \ {0} /\ r \in 1..R
      /\ L * S < Word /\ L * S * W * R * 2 < Word
  BY SizesAssumption DEF Board, Unsigned, Regular, numChannels
<1> HIDE DEF L, S, W, R
<1>1. /\ L * S \in Nat /\ S * W \in Nat /\ L * S * W \in Nat /\ S * W * r \in Nat
      /\ L * S * W * r \in Nat /\ L * S * W * r * 2 \in Nat /\ L * S * W * R \in Nat
  BY <1>0
<1>2. L * S * W * r <= L * S * W * R
  BY <1>0, <1>1, Monotone
<1>3. L * S * W <= L * S * W * r
  BY <1>0, <1>1, Grows
<1>4. S * W <= L * S * W
  <2>1. S * W <= (S * W) * L BY <1>0, <1>1, Grows
  <2>2. (S * W) * L = L * S * W BY <1>0
  <2>3. QED BY <2>1, <2>2
<1>5. S * W * r <= L * S * W * r
  <2>1. S * W * r <= (S * W * r) * L BY <1>0, <1>1, Grows
  <2>2. (S * W * r) * L = L * S * W * r BY <1>0
  <2>3. QED BY <2>1, <2>2
<1>6. /\ S * W < Word /\ S * W * r < Word /\ L * S * W < Word /\ L * S * W * r < Word
      /\ L * S * W * r * 2 < Word
  <2> DEFINE p == L * S * W * r
             m == L * S * W * R
             w == L * S * W
             v == S * W
             u == S * W * r
  <2>1. p \in Nat /\ m \in Nat /\ w \in Nat /\ v \in Nat /\ u \in Nat BY <1>1
  <2>2. p <= m /\ w <= p /\ v <= w /\ u <= p /\ m * 2 < Word
    BY <1>0, <1>2, <1>3, <1>4, <1>5
  <2> HIDE DEF p, m, w, v, u
  <2>3. v < Word /\ u < Word /\ w < Word /\ p < Word /\ p * 2 < Word
    BY <2>1, <2>2, SizesAssumption
  <2>4. QED BY <2>3 DEF p, w, v, u
<1>7. S \otimes W = S * W BY <1>0, <1>6, Times
<1>8. S \otimes W \otimes r = S * W * r BY <1>0, <1>1, <1>6, <1>7, Times
<1>9. L \otimes S = L * S BY <1>0, Times
<1>10. L \otimes S \otimes W = L * S * W BY <1>0, <1>1, <1>6, <1>9, Times
<1>11. L \otimes S \otimes W \otimes r = L * S * W * r BY <1>0, <1>1, <1>6, <1>10, Times
<1>12. L \otimes S \otimes W \otimes r \otimes 2 = L * S * W * r * 2
  BY <1>0, <1>1, <1>6, <1>11, Times
<1>13. {L * S, S * W, L * S * W, S * W * r, L * S * W * r, L * S * W * r * 2}
         \subseteq Unsigned
  <2>1. \A x \in Nat : x < Word => x \in Unsigned BY SizesAssumption DEF Unsigned
  <2>2. QED BY <1>0, <1>1, <1>6, <2>1
<1>14. QED BY <1>7, <1>8, <1>9, <1>10, <1>11, <1>12, <1>13 DEF L, S, W
-----------------------------------------------------------------------------
(* What a board keeps of the request it is given. *)
SameRequest(b, n) ==
  /\ n.averager = b.averager /\ n.recordLength = b.recordLength
  /\ n.nbrSegments = b.nbrSegments /\ n.nbrWaveforms = b.nbrWaveforms
  /\ n.nbrRoundRobins = b.nbrRoundRobins

(* What a regular configuration makes of a board when whole round robins   *)
(* fit a buffer: rr of them in each of q buffers, and no larger divisor    *)
(* would fit.                                                              *)
WholeSize(n) ==
  \E rr \in Divisors(n.nbrRoundRobins) : \E q \in Nat :
    /\ n.nbrRoundRobins = rr * q /\ rr \in Nat /\ rr > 0
    /\ ~n.partialBuffer
    /\ n.roundRobinsPerBuffer = rr /\ n.nbrBuffers = q
    /\ n.bufferLen = n.recordLength * n.nbrSegments * n.nbrWaveforms * rr * 2
    /\ n.bufferLen <= PrefBufferSize
    /\ n.recordsPerBuffer = n.nbrSegments * n.nbrWaveforms * rr
    /\ n.recordsPerAcquisition = n.nbrSegments * n.nbrWaveforms * rr * q
    /\ \A d \in Divisors(n.nbrRoundRobins) :
         d > rr => n.recordLength * n.nbrSegments * n.nbrWaveforms * d * 2 > PrefBufferSize

(* ... and when one round robin takes q buffers of d records. *)
DividedSize(n) ==
  LET records == n.nbrSegments * n.nbrWaveforms
  IN \E d \in Divisors(records) : \E q \in Nat :
       /\ records = d * q /\ d \in Nat /\ d > 0 /\ q > 0 /\ n.nbrRoundRobins > 0
       /\ n.partialBuffer
       /\ n.recordsPerBuffer = d /\ n.buffersPerRoundRobin = q
       /\ n.bufferLen = n.recordLength * d * 2 /\ n.bufferLen <= PrefBufferSize
       /\ n.nbrBuffers = q * n.nbrRoundRobins
       /\ n.recordsPerAcquisition = records * n.nbrRoundRobins
       /\ \A e \in Divisors(records) : e > d => n.recordLength * e * 2 > PrefBufferSize

(* Then a round robin does not fit one buffer, but can be assembled.       *)
Assembled(n) ==
  LET samples == n.recordLength * n.nbrSegments * n.nbrWaveforms
  IN samples * 2 > PrefBufferSize /\ samples <= MaxBufferSize

(* What the loop over the factors of nbrRoundRobins ends with.             *)
RoundRobinsFound(b) ==
  FirstFitting(Factors(b.nbrRoundRobins), FittingRoundRobins(b), 0)

LEMMA WholeSized ==
  ASSUME NEW b \in Board, Regular(b), b.recordLength > 0, RoundRobinsFound(b) >= 1
  PROVE  LET n == WholeRoundRobins(b, RoundRobinsFound(b))
         IN n \in Board /\ SameRequest(b, n) /\ WholeSize(n)
<1> DEFINE L == b.recordLength
           S == b.nbrSegments
           W == b.nbrWaveforms
           R == b.nbrRoundRobins
           fitting == FittingRoundRobins(b)
           rr == RoundRobinsFound(b)
<1>1. L \in Nat \ {0} /\ S \in Nat /\ W \in Nat /\ R \in Nat BY DEF Board, Unsigned
<1>2. L * S < Word /\ L * S * W * R * 2 < Word BY DEF Regular, numChannels
<1>3. rr # 0
  <2> HIDE DEF rr
  <2>1. rr >= 1 BY DEF rr
  <2>2. QED BY <2>1
<1>4. /\ rr \in Divisors(R) /\ rr \in fitting
      /\ \A d \in Divisors(R) : d > rr => d \notin fitting
  BY <1>1, <1>3, FirstIsLargest DEF RoundRobinsFound
<1>5. R \in Nat \ {0} BY <1>1, <1>4 DEF Divisors
<1>6. rr \in Divisors(R) /\ rr \in 1..R BY <1>4 DEF Divisors
<1>7. PICK q \in Nat : R = rr * q /\ R \div rr = q /\ q > 0
  BY <1>1, <1>6, Quotient
<1>8. \A d \in fitting : L \otimes S \otimes W \otimes d \otimes 2 <= PrefBufferSize
  BY DEF FittingRoundRobins, numChannels
<1>9. \A d \in Divisors(R) :
        d \notin fitting => L \otimes S \otimes W \otimes d \otimes 2 > PrefBufferSize
  <2>1. ASSUME NEW d \in 1..R PROVE L \otimes S \otimes W \otimes d \otimes 2 \in Nat
    <3>1. L \otimes S \in Nat BY <1>1, Times
    <3>2. L \otimes S \otimes W \in Nat BY <1>1, <3>1, Times
    <3>3. d \in Nat BY <1>1
    <3>4. L \otimes S \otimes W \otimes d \in Nat BY <3>2, <3>3, Times
    <3>5. QED BY <3>4, Times
  <2>2. \A d \in Divisors(R) : d \in 1..R BY DEF Divisors
  <2>3. QED BY <2>1, <2>2, SizesAssumption DEF FittingRoundRobins, numChannels
<1> HIDE DEF fitting, rr, L, S, W, R
<1>10. ASSUME NEW d \in 1..R
       PROVE  /\ L \otimes S \otimes W \otimes d \otimes 2 = L * S * W * d * 2
              /\ S \otimes W \otimes d = S * W * d
  BY Products DEF L, S, W, R
<1>11. L * S * W * rr * 2 <= PrefBufferSize BY <1>4, <1>6, <1>8, <1>10
<1>12. \A d \in Divisors(R) : d > rr => L * S * W * d * 2 > PrefBufferSize
  <2>1. \A d \in Divisors(R) : d \in 1..R BY DEF Divisors
  <2>2. QED BY <1>4, <1>9, <1>10, <2>1
<1>13. (S * W * rr) \otimes q = S * W * rr * q
  <2>1. S * W * rr * q = S * W * R BY <1>1, <1>6, <1>7
  <2>2. R \in 1..R BY <1>5
  <2>3. S * W * R < Word /\ S * W * R \in Nat
    <3>1. S * W * R \in Unsigned BY <2>2, Products DEF L, S, W, R
    <3>2. QED BY <3>1, SizesAssumption DEF Unsigned
  <2>4. S * W * rr \in Nat BY <1>1, <1>6
  <2>5. QED BY <2>1, <2>3, <2>4, Times
<1> DEFINE n == [b EXCEPT
            !.roundRobinsPerBuffer = rr, !.bufferLen = L * S * W * rr * 2, !.nbrBuffers = q,
            !.recordsPerBuffer = S * W * rr, !.recordsPerAcquisition = S * W * rr * q,
            !.partialBuffer = FALSE]
<1>14. WholeRoundRobins(b, rr) = n
  <2>1. WholeRoundRobins(b, rr) =
         [b EXCEPT
            !.roundRobinsPerBuffer = rr,
            !.bufferLen = L \otimes S \otimes W \otimes rr \otimes 2,
            !.nbrBuffers = R \div rr,
            !.recordsPerBuffer = S \otimes W \otimes rr,
            !.recordsPerAcquisition = S \otimes W \otimes rr \otimes (R \div rr),
            !.partialBuffer = FALSE]
    BY DEF WholeRoundRobins, L, S, W, R, numChannels
  <2>2. QED BY <1>6, <1>7, <1>10, <1>13, <2>1
<1>15. rr > 0 /\ rr \in Nat BY <1>6
(* The fields of the new board, and their types. *)
<1>16. /\ rr \in Unsigned /\ q \in Unsigned
       /\ L * S * W * rr * 2 \in Unsigned /\ S * W * rr \in Unsigned
       /\ S * W * rr * q \in Unsigned
  <2>1. L * S * W * rr * 2 \in Unsigned /\ S * W * rr \in Unsigned
    BY <1>6, Products DEF L, S, W, R
  <2>2. S * W * rr * q \in Unsigned BY <1>13, <1>6, <1>7, <2>1, Times DEF Unsigned
  <2>3. R \in Unsigned BY DEF R, Board
  <2>4. q <= R
    <3>1. q <= q * rr BY <1>7, <1>15, Grows
    <3>2. q * rr = rr * q BY <1>7, <1>15
    <3>3. QED BY <1>7, <3>1, <3>2
  <2>5. rr \in Unsigned /\ q \in Unsigned
    BY <1>1, <1>6, <1>7, <2>3, <2>4, SizesAssumption DEF Unsigned
  <2>6. QED BY <2>1, <2>2, <2>5
<1> DEFINE len == L * S * W * rr * 2
           held == S * W * rr
           all == S * W * rr * q
<1>17. /\ n \in Board /\ SameRequest(b, n) /\ ~n.partialBuffer
       /\ n.roundRobinsPerBuffer = rr /\ n.nbrBuffers = q /\ n.bufferLen = len
       /\ n.recordsPerBuffer = held /\ n.recordsPerAcquisition = all
  <2>1. len \in Unsigned /\ held \in Unsigned /\ all \in Unsigned BY <1>16
  <2> HIDE DEF len, held, all
  <2>2. n = [b EXCEPT
            !.roundRobinsPerBuffer = rr, !.bufferLen = len, !.nbrBuffers = q,
            !.recordsPerBuffer = held, !.recordsPerAcquisition = all,
            !.partialBuffer = FALSE]
    BY DEF len, held, all
  <2> HIDE DEF n
  <2>3. QED BY <1>16, <2>1, <2>2 DEF Board, SameRequest
<1> HIDE DEF n
<1>18. WholeSize(n)
  <2>1. n.recordLength = L /\ n.nbrSegments = S /\ n.nbrWaveforms = W /\ n.nbrRoundRobins = R
    BY <1>17 DEF SameRequest, L, S, W, R
  <2>2. n.bufferLen = len /\ n.bufferLen <= PrefBufferSize BY <1>11, <1>17
  <2>3. QED BY <1>6, <1>7, <1>12, <1>15, <1>17, <2>1, <2>2 DEF WholeSize
<1>19. QED BY <1>14, <1>17, <1>18 DEF rr

(* Records of a round robin that is too long for one buffer. *)
LEMMA RecordProducts ==
  ASSUME NEW b \in Board, Regular(b), b.recordLength > 0, b.nbrRoundRobins > 0,
         NEW e \in 1..(b.nbrSegments * b.nbrWaveforms)
  PROVE  /\ b.recordLength \otimes e \otimes 2 = b.recordLength * e * 2
         /\ b.recordLength * e * 2 \in Unsigned
<1> DEFINE L == b.recordLength
           S == b.nbrSegments
           W == b.nbrWaveforms
<1>1. L \in Nat \ {0} /\ S \in Nat /\ W \in Nat /\ 1 \in 1..b.nbrRoundRobins
      /\ b.nbrRoundRobins \in Nat
  BY SizesAssumption DEF Board, Unsigned
<1>2. L * S * W * 1 * 2 \in Unsigned BY <1>1, Products
<1> HIDE DEF L, S, W
<1>3. e \in Nat /\ S * W \in Nat /\ e <= S * W BY <1>1 DEF L, S, W
<1>4. L * e <= L * (S * W) BY <1>1, <1>3, Monotone
<1>5. L * (S * W) * 2 = L * S * W * 1 * 2 BY <1>1
<1> DEFINE p == L * e
           m == L * (S * W)
<1>6. p \in Nat /\ m \in Nat BY <1>1, <1>3
<1>7. m * 2 < Word BY <1>2, <1>5, SizesAssumption DEF Unsigned
<1>8. p <= m BY <1>4
<1> HIDE DEF p, m
<1>9. p < Word /\ p * 2 < Word /\ p * 2 \in Unsigned
  BY <1>6, <1>7, <1>8, SizesAssumption DEF Unsigned
<1>10. L \otimes e = p BY <1>1, <1>3, <1>9, Times DEF p
<1>11. p \otimes 2 = p * 2 BY <1>6, <1>9, Times
<1>12. QED BY <1>9, <1>10, <1>11 DEF p, L

LEMMA DividedSized ==
  ASSUME NEW b \in Board, Regular(b), b.recordLength > 0, b.nbrRoundRobins > 0,
         RoundRobinsFound(b) = 0, b.recordLength \otimes numChannels <= MaxBufferSize
  PROVE  LET n == DividedRoundRobin(b).board
         IN /\ n \in Board /\ SameRequest(b, n) /\ DividedSize(n)
            /\ DividedRoundRobin(b).result \in {"ok", "refused"}
            /\ DividedRoundRobin(b).result = "ok" => Assembled(n)
<1> DEFINE L == b.recordLength
           S == b.nbrSegments
           W == b.nbrWaveforms
           R == b.nbrRoundRobins
           records == S * W
           fitting == FittingRecords(b)
           d == FirstFitting(Factors(S \otimes W), fitting, b.recordsPerBuffer)
<1>1. L \in Nat \ {0} /\ S \in Nat /\ W \in Nat /\ R \in Nat \ {0} /\ records \in Nat
  BY SizesAssumption DEF Board, Unsigned
<1>2. 1 \in 1..R BY <1>1
(* A round robin that does not fit has records. *)
<1>3. records > 0 /\ L * S * W * 2 > PrefBufferSize
  <2>1. 1 \in Divisors(R) BY <1>1 DEF Divisors
  <2>2. ~(L \otimes S \otimes W \otimes 1 \otimes 2 <= PrefBufferSize)
    <3>1. \A x \in Divisors(R) : x # 0 BY <1>1 DEF Divisors
    <3>2. Divisors(R) \cap FittingRoundRobins(b) = {}
      BY <1>1, <3>1, FirstIsLargest DEF RoundRobinsFound
    <3>3. 1 \notin FittingRoundRobins(b) BY <2>1, <3>2
    <3>4. QED BY <1>2, <3>3 DEF FittingRoundRobins, numChannels
  <2>3. L \otimes S \otimes W \otimes 1 \otimes 2 = L * S * W * 1 * 2 BY <1>2, Products
  <2>4. L * S * W * 1 * 2 = L * records * 2 BY <1>1
  <2>5. records = 0 => L * records * 2 = 0 BY <1>1
  <2>6. records # 0 BY <2>2, <2>3, <2>4, <2>5, SizesAssumption
  <2>7. L * S * W * 1 * 2 = L * S * W * 2 /\ L * S * W * 2 \in Nat BY <1>1
  <2>8. L * S * W * 2 > PrefBufferSize BY <2>2, <2>3, <2>7, SizesAssumption
  <2>9. QED BY <1>1, <2>6, <2>8
<1>4. S \otimes W = records /\ S \otimes W \otimes R = records * R /\ records * R \in Unsigned
  BY <1>1, Products
<1>5. \A e \in 1..records : L \otimes e \otimes 2 = L * e * 2
  BY <1>1, RecordProducts
<1>6. fitting = {e \in 1..records : L \otimes e \otimes 2 <= PrefBufferSize}
  BY <1>4 DEF FittingRecords, numChannels
<1>7. L * 2 <= PrefBufferSize
  <2>1. L * 1 * 2 \in Unsigned /\ L * 1 * 2 = L * 2
    BY <1>1, <1>3, RecordProducts
  <2>2. L * 2 < Word /\ L * 2 \in Nat BY <1>1, <2>1, SizesAssumption DEF Unsigned
  <2>3. L \otimes 2 = L * 2 BY <1>1, <2>2, Times
  <2>4. L * 2 <= MaxBufferSize BY <2>3 DEF numChannels
  <2>5. L * 2 <= PrefBufferSize \/ L * 2 > MaxBufferSize BY DEF Regular, numChannels
  <2>6. QED BY <2>2, <2>4, <2>5, SizesAssumption
<1>8. 1 \in fitting
  <2>1. 1 \in 1..records /\ 1 \in Divisors(records) BY <1>1, <1>3 DEF Divisors
  <2>2. L \otimes 1 \otimes 2 = L * 1 * 2 BY <1>5, <2>1
  <2>3. L * 1 * 2 = L * 2 BY <1>1
  <2>4. QED BY <1>6, <1>7, <2>1, <2>2, <2>3
<1> HIDE DEF fitting, d
<1>9. Divisors(records) \subseteq 1..records BY DEF Divisors
<1>10. 1 \in Divisors(records) BY <1>1, <1>3 DEF Divisors
<1>11. /\ d \in Divisors(records) /\ d \in fitting
       /\ \A e \in Divisors(records) : e > d => e \notin fitting
  BY <1>1, <1>4, <1>8, <1>10, FirstIsLargest DEF d
<1>12. d \in Divisors(records) /\ d \in 1..records /\ d \in Nat \ {0}
  BY <1>1, <1>6, <1>9, <1>11
<1>13. PICK q \in Nat : records = d * q /\ q > 0
  BY <1>1, <1>12, Quotient
<1>14. L * d * 2 <= PrefBufferSize BY <1>5, <1>6, <1>11, <1>12
<1>15. ASSUME NEW e \in Divisors(records), e > d PROVE L * e * 2 > PrefBufferSize
  <2>1. e \in 1..records /\ e \in Nat BY <1>1, <1>9
  <2>2. e \notin fitting BY <1>11, <1>15
  <2>3. ~(L * e * 2 <= PrefBufferSize) BY <1>5, <1>6, <2>1, <2>2
  <2>4. L * e * 2 \in Nat BY <1>1, <2>1
  <2>5. QED BY <2>3, <2>4, SizesAssumption
<1>16. (records * R) \div d = q * R /\ (q * R) \div R = q
  <2>1. records * R = d * (q * R) BY <1>1, <1>12, <1>13
  <2>2. q * R \in Nat /\ q * R = R * q BY <1>1
  <2>3. QED BY <1>1, <1>12, <2>1, <2>2, Exact
<1>17. d # 0 /\ R # 0 BY <1>1, <1>12
<1>18. L \otimes d \otimes 2 = L * d * 2 BY <1>5, <1>12
<1> DEFINE Filled == [b EXCEPT
        !.roundRobinsPerBuffer = 0, !.recordsPerBuffer = d,
        !.bufferLen = L * d * 2, !.recordsPerAcquisition = records * R,
        !.nbrBuffers = q * R, !.partialBuffer = TRUE, !.buffersPerRoundRobin = q]
<1>19. /\ DividedRoundRobin(b).board = Filled
       /\ DividedRoundRobin(b).result \in {"ok", "refused"}
       /\ DividedRoundRobin(b).result = "ok" => L * S * W <= MaxBufferSize
  <2> DEFINE all == S \otimes W \otimes R
             raw == [b EXCEPT
               !.roundRobinsPerBuffer = 0, !.recordsPerBuffer = d,
               !.bufferLen = L \otimes d \otimes numChannels,
               !.recordsPerAcquisition = all,
               !.nbrBuffers = all \div d, !.partialBuffer = TRUE,
               !.buffersPerRoundRobin = (all \div d) \div R]
             refused == raw.buffersPerRoundRobin \otimes d \otimes L > MaxBufferSize
  <2>1. DividedRoundRobin(b) =
          [board |-> raw, result |-> IF refused THEN "refused" ELSE "ok"]
    BY <1>17 DEF DividedRoundRobin, fitting, d
  <2>2. /\ DividedRoundRobin(b).board = raw
        /\ DividedRoundRobin(b).result \in {"ok", "refused"}
        /\ DividedRoundRobin(b).result = "ok" => ~refused
    <3> HIDE DEF raw, refused
    <3>1. QED BY <2>1
  <2>3. all = records * R /\ all \div d = q * R /\ (all \div d) \div R = q
    BY <1>4, <1>16
  <2>4. L \otimes d \otimes numChannels = L * d * 2 BY <1>18 DEF numChannels
  <2>5. raw = Filled
    <3> HIDE DEF all
    <3>1. QED BY <2>3, <2>4
  <2>6. refused <=> L * S * W > MaxBufferSize
    <3>1. raw.buffersPerRoundRobin = q
      <4>1. Filled.buffersPerRoundRobin = q
        <5>1. "buffersPerRoundRobin" \in DOMAIN b BY DEF Board
        <5>2. QED BY <5>1
      <4>2. QED BY <2>5, <4>1
    <3> HIDE DEF raw
    <3>2. L * S * W \in Unsigned /\ records \in Unsigned BY <1>2, Products
    <3>3. q * d = records /\ records * L = L * S * W BY <1>1, <1>12, <1>13
    <3>4. q \otimes d = records
      BY <1>12, <1>13, <3>2, <3>3, Times, SizesAssumption DEF Unsigned
    <3>5. records \otimes L = L * S * W
      <4> DEFINE m == L * S * W
      <4>1. records * L = m /\ m < Word BY <3>2, <3>3, SizesAssumption DEF Unsigned
      <4> HIDE DEF m
      <4>2. records \otimes L = m BY <1>1, <4>1, Times
      <4>3. QED BY <4>2 DEF m
    <3>6. QED BY <3>1, <3>4, <3>5
  <2>7. L * S * W \in Nat BY <1>1
  <2> HIDE DEF raw, refused
  <2>8. QED BY <2>2, <2>5, <2>6, <2>7, SizesAssumption
<1>20. d > 0 /\ R > 0 BY <1>1, <1>12
<1>21. /\ d \in Unsigned /\ L * d * 2 \in Unsigned /\ records * R \in Unsigned
       /\ q * R \in Unsigned /\ q \in Unsigned /\ 0 \in Unsigned
  <2>1. L * d * 2 \in Unsigned BY <1>1, <1>12, RecordProducts
  <2>2. records \in Unsigned BY <1>2, Products
  <2>3. d \in Unsigned
    <3>1. \A x \in Unsigned : \A y \in 1..x : y \in Unsigned
      BY SizesAssumption DEF Unsigned
    <3>2. QED BY <1>12, <2>2, <3>1
  <2>4. q * R <= records * R
    <3>1. q * R <= (q * R) * d BY <1>1, <1>12, Grows
    <3>2. (q * R) * d = (d * q) * R BY <1>1, <1>12
    <3>3. QED BY <1>13, <3>1, <3>2
  <2>5. q <= q * R BY <1>1, Grows
  <2>6. q * R \in Nat BY <1>1
  <2> DEFINE m == records * R
             k == q * R
  <2>7. m \in Unsigned /\ k \in Nat /\ k <= m /\ q <= k BY <1>4, <2>4, <2>5, <2>6
  <2> HIDE DEF m, k
  <2>8. k \in Unsigned /\ q \in Unsigned /\ 0 \in Unsigned
    BY <2>7, SizesAssumption DEF Unsigned
  <2>9. QED BY <1>4, <2>1, <2>3, <2>8 DEF k
<1> DEFINE n == Filled
           len == L * d * 2
           all == records * R
           buffers == q * R
<1>22. /\ n \in Board /\ SameRequest(b, n) /\ n.partialBuffer
       /\ n.recordsPerBuffer = d /\ n.buffersPerRoundRobin = q /\ n.bufferLen = len
       /\ n.recordsPerAcquisition = all /\ n.nbrBuffers = buffers
  <2>1. len \in Unsigned /\ all \in Unsigned /\ buffers \in Unsigned BY <1>21
  <2>2. n = [b EXCEPT
        !.roundRobinsPerBuffer = 0, !.recordsPerBuffer = d,
        !.bufferLen = len, !.recordsPerAcquisition = all,
        !.nbrBuffers = buffers, !.partialBuffer = TRUE, !.buffersPerRoundRobin = q]
    OBVIOUS
  <2> HIDE DEF len, all, buffers, n
  <2>3. QED BY <1>21, <2>1, <2>2 DEF Board, SameRequest
<1> HIDE DEF n
<1>23. DividedSize(n)
  <2>1. n.recordLength = L /\ n.nbrSegments = S /\ n.nbrWaveforms = W /\ n.nbrRoundRobins = R
    BY <1>22 DEF SameRequest
  <2>2. n.bufferLen = len /\ n.bufferLen <= PrefBufferSize BY <1>14, <1>22
  <2> HIDE DEF L, S, W, R
  <2>3. QED
    BY <1>12, <1>13, <1>15, <1>20, <1>22, <2>1, <2>2 DEF DividedSize
<1> HIDE DEF Filled
<1>24. DividedRoundRobin(b).result = "ok" => Assembled(n)
  <2>1. n.recordLength = L /\ n.nbrSegments = S /\ n.nbrWaveforms = W
    BY <1>22 DEF SameRequest
  <2>2. L * S * W * 2 > PrefBufferSize BY <1>3
  <2>3. DividedRoundRobin(b).result = "ok" => L * S * W <= MaxBufferSize BY <1>19
  <2> HIDE DEF L, S, W
  <2>4. QED BY <2>1, <2>2, <2>3 DEF Assembled
<1>25. DividedRoundRobin(b).board = n BY <1>19 DEF n
<1>26. DividedRoundRobin(b).result \in {"ok", "refused"} BY <1>19
<1>27. QED BY <1>22, <1>23, <1>24, <1>25, <1>26
-----------------------------------------------------------------------------
(* What setAll leaves behind. *)

(* After a call that succeeded: the board's sizes, and what the            *)
(* application was told.                                                   *)
Told ==
  LET L == board.recordLength
      S == board.nbrSegments
      W == board.nbrWaveforms
  IN /\ acqParams.samplesPerAcquisition =
          IF board.averager THEN L * S
          ELSE IF board.partialBuffer THEN L * S * W
          ELSE L * S * W * board.roundRobinsPerBuffer
     /\ acqParams.numberAcquisitions =
          IF board.partialBuffer THEN board.nbrRoundRobins ELSE board.nbrBuffers
     /\ acqParams.samplesPerAcquisition = board.samplesPerAcquisition

Params == [samplesPerAcquisition : Unsigned, numberAcquisitions : Unsigned]

GeometryInv ==
  /\ board \in Board /\ acqParams \in Params
  /\ board.partialBuffer => board.buffersPerRoundRobin > 0
  /\ result \in {"none", "ok", "refused", "divisionByZero"}
  /\ result = "ok" =>
       /\ \E c \in Requests : SameRequest(c, board)
       /\ IF board.partialBuffer THEN DividedSize(board) /\ Assembled(board) /\ Told
          ELSE WholeSize(board) /\ Told

LEMMA InitGeometry == Init => GeometryInv
<1>1. 0 \in Unsigned BY SizesAssumption DEF Unsigned
<1>2. QED BY <1>1 DEF Init, GeometryInv, Board, Params

(* getBufferSize, for a regular configuration. *)
LEMMA Sized ==
  ASSUME NEW b \in Board, Regular(b), b.recordLength > 0,
         b.partialBuffer => b.buffersPerRoundRobin > 0
  PROVE  LET n == GetBufferSize(b).board
         IN /\ n \in Board /\ SameRequest(b, n)
            /\ n.partialBuffer => n.buffersPerRoundRobin > 0
            /\ GetBufferSize(b).result \in {"ok", "refused", "divisionByZero"}
            /\ GetBufferSize(b).result = "ok" =>
                 IF n.partialBuffer THEN DividedSize(n) /\ Assembled(n) ELSE WholeSize(n)
<1>1. CASE b.recordLength \otimes numChannels > MaxBufferSize
  BY <1>1 DEF GetBufferSize, SameRequest
<1>2. CASE /\ ~(b.recordLength \otimes numChannels > MaxBufferSize)
           /\ RoundRobinsFound(b) >= 1
  <2> DEFINE n == WholeRoundRobins(b, RoundRobinsFound(b))
  <2>1. GetBufferSize(b) = [board |-> n, result |-> "ok"]
    BY <1>2 DEF GetBufferSize, RoundRobinsFound
  <2>2. n \in Board /\ SameRequest(b, n) /\ WholeSize(n) BY <1>2, WholeSized
  <2>3. ~n.partialBuffer BY <2>2 DEF WholeSize
  <2> HIDE DEF n
  <2>4. QED BY <2>1, <2>2, <2>3
<1>3. CASE /\ ~(b.recordLength \otimes numChannels > MaxBufferSize)
           /\ ~(RoundRobinsFound(b) >= 1)
  <2> DEFINE sized == DividedRoundRobin(b)
  <2>1. GetBufferSize(b) = sized BY <1>3 DEF GetBufferSize, RoundRobinsFound
  <2>4. RoundRobinsFound(b) = 0
    <3> DEFINE rr == RoundRobinsFound(b)
    <3>1. b.nbrRoundRobins \in Nat BY SizesAssumption DEF Board, Unsigned
    <3>2. rr = 0 \/ rr \in Divisors(b.nbrRoundRobins)
      BY <3>1, FirstIsLargest DEF RoundRobinsFound
    <3>3. rr \in Divisors(b.nbrRoundRobins) => rr \in Nat /\ rr >= 1
      BY <3>1 DEF Divisors
    <3> HIDE DEF rr
    <3>4. ~(rr >= 1) BY <1>3 DEF rr
    <3>5. QED BY <3>2, <3>3, <3>4 DEF rr
  <2>2. CASE b.nbrRoundRobins = 0
    <3>1. sized = [board |-> b, result |-> "divisionByZero"]
      BY <2>2 DEF DividedRoundRobin
    <3>2. GetBufferSize(b).board = b /\ GetBufferSize(b).result = "divisionByZero"
      <4> HIDE DEF sized
      <4>1. QED BY <2>1, <3>1
    <3>3. QED BY <3>2 DEF SameRequest
  <2>3. CASE b.nbrRoundRobins # 0
    <3>1. b.nbrRoundRobins > 0 BY <2>3, SizesAssumption DEF Board, Unsigned
    <3>2. b.recordLength \otimes numChannels <= MaxBufferSize
      <4>1. b.recordLength \in Nat BY SizesAssumption DEF Board, Unsigned
      <4>2. b.recordLength \otimes numChannels \in Nat BY <4>1, Times DEF numChannels
      <4>3. QED BY <1>3, <4>2, SizesAssumption
    <3>3. /\ sized.board \in Board /\ SameRequest(b, sized.board) /\ DividedSize(sized.board)
          /\ sized.result \in {"ok", "refused"}
          /\ sized.result = "ok" => Assembled(sized.board)
      BY <2>4, <3>1, <3>2, DividedSized
    <3>4. sized.board.partialBuffer /\ sized.board.buffersPerRoundRobin > 0
      BY <3>3 DEF DividedSize
    <3> DEFINE n == sized.board
    <3>5. sized.result = "ok" =>
             IF n.partialBuffer THEN DividedSize(n) /\ Assembled(n) ELSE WholeSize(n)
      BY <3>3, <3>4
    <3>6. GetBufferSize(b).board = n /\ GetBufferSize(b).result = sized.result
          /\ sized.result \in {"ok", "refused"}
      BY <2>1, <3>3
    <3>7. n \in Board /\ SameRequest(b, n) /\ n.buffersPerRoundRobin > 0 BY <3>3, <3>4
    <3> HIDE DEF n, sized
    <3>8. QED BY <3>5, <3>6, <3>7
  <2>5. QED BY <2>2, <2>3
<1>4. QED BY <1>1, <1>2, <1>3

(* What ConfigureBoard tells the application of it. *)
LEMMA ToldRight ==
  ASSUME NEW n \in Board, Regular(n), n.recordLength > 0,
         IF n.partialBuffer THEN DividedSize(n) ELSE WholeSize(n)
  PROVE  LET L == n.recordLength
             S == n.nbrSegments
             W == n.nbrWaveforms
             p == AcquisitionParams(n)
         IN /\ p \in Params
            /\ p.samplesPerAcquisition =
                 IF n.averager THEN L * S
                 ELSE IF n.partialBuffer THEN L * S * W
                 ELSE L * S * W * n.roundRobinsPerBuffer
            /\ p.numberAcquisitions =
                 IF n.partialBuffer THEN n.nbrRoundRobins ELSE n.nbrBuffers
<1> DEFINE L == n.recordLength
           S == n.nbrSegments
           W == n.nbrWaveforms
           R == n.nbrRoundRobins
           r == IF n.partialBuffer THEN 1 ELSE n.roundRobinsPerBuffer
           p == AcquisitionParams(n)
<1>1. L \in Nat /\ S \in Nat /\ W \in Nat /\ R \in Unsigned /\ R \in Nat
  BY SizesAssumption DEF Board, Unsigned
<1>2. r \in 1..R
  <2>1. CASE n.partialBuffer BY <1>1, <2>1 DEF DividedSize
  <2>2. CASE ~n.partialBuffer
    <3>1. n.roundRobinsPerBuffer \in Divisors(R) BY <2>2 DEF WholeSize
    <3>2. QED BY <2>2, <3>1 DEF Divisors
  <2>3. QED BY <2>1, <2>2
<1>3. /\ L \otimes S = L * S /\ L * S \in Unsigned
      /\ L \otimes S \otimes W \otimes r = L * S * W * r /\ L * S * W * r \in Unsigned
  BY <1>2, Products
<1>4. p.samplesPerAcquisition = IF n.averager THEN L * S ELSE L * S * W * r
  BY <1>3 DEF AcquisitionParams
<1>5. n.partialBuffer => L * S * W * r = L * S * W BY <1>1
<1>6. p.numberAcquisitions = IF n.partialBuffer THEN R ELSE n.nbrBuffers
  <2>1. CASE n.partialBuffer
    <3>1. PICK q \in Nat : q > 0 /\ n.nbrBuffers = q * R /\ n.buffersPerRoundRobin = q
      BY <2>1 DEF DividedSize
    <3>2. (q * R) \div q = R BY <1>1, <3>1, Exact
    <3>3. n.nbrBuffers \div n.buffersPerRoundRobin = R BY <3>1, <3>2
    <3>4. QED BY <2>1, <3>3 DEF AcquisitionParams
  <2>2. CASE ~n.partialBuffer BY <2>2 DEF AcquisitionParams
  <2>3. QED BY <2>1, <2>2
<1>7. n.nbrBuffers \in Unsigned BY DEF Board
<1>8. p = [samplesPerAcquisition |-> p.samplesPerAcquisition,
           numberAcquisitions |-> p.numberAcquisitions]
  BY DEF AcquisitionParams
<1> HIDE DEF p
<1>9. p.samplesPerAcquisition \in Unsigned /\ p.numberAcquisitions \in Unsigned
  BY <1>1, <1>3, <1>4, <1>6, <1>7
<1>10. p \in Params BY <1>8, <1>9 DEF Params
<1>11. QED BY <1>4, <1>5, <1>6, <1>10 DEF p

LEMMA ConfigureKeeps ==
  ASSUME RegularRequests, GeometryInv, NEW c \in Requests, Configure(c)
  PROVE  GeometryInv'
<1> DEFINE b == [board EXCEPT !.averager = c.averager,
                              !.recordLength = c.recordLength,
                              !.nbrSegments = c.nbrSegments,
                              !.nbrWaveforms = c.nbrWaveforms,
                              !.nbrRoundRobins = c.nbrRoundRobins]
           sized == GetBufferSize(b)
           n == sized.board
           p == AcquisitionParams(n)
<1>1. c \in Request /\ Regular(c) BY RequestsAssumption DEF RegularRequests
<1>2. /\ b \in Board /\ b.recordLength = c.recordLength /\ b.nbrSegments = c.nbrSegments
      /\ b.nbrWaveforms = c.nbrWaveforms /\ b.nbrRoundRobins = c.nbrRoundRobins
      /\ b.partialBuffer = board.partialBuffer
      /\ b.buffersPerRoundRobin = board.buffersPerRoundRobin
  BY <1>1 DEF GeometryInv, Board, Request
<1>3. /\ c.recordLength >= MinRecord
      /\ IF sized.result = "ok" /\ ~NoNumber(n)
         THEN /\ acqParams' = p
              /\ board' = [n EXCEPT !.samplesPerAcquisition = p.samplesPerAcquisition]
              /\ result' = "ok"
         ELSE /\ board' = n /\ UNCHANGED acqParams
              /\ result' = IF sized.result = "ok" THEN "divisionByZero" ELSE sized.result
  BY DEF Configure
<1> HIDE DEF b
<1>4. b.recordLength > 0
  BY <1>1, <1>2, <1>3, SizesAssumption DEF Request, Unsigned
<1>5. Regular(b) BY <1>1, <1>2 DEF Regular
<1>6. b.partialBuffer => b.buffersPerRoundRobin > 0 BY <1>2 DEF GeometryInv
<1>7. /\ n \in Board /\ SameRequest(b, n)
      /\ n.partialBuffer => n.buffersPerRoundRobin > 0
      /\ sized.result \in {"ok", "refused", "divisionByZero"}
      /\ sized.result = "ok" =>
           IF n.partialBuffer THEN DividedSize(n) /\ Assembled(n) ELSE WholeSize(n)
  BY <1>2, <1>4, <1>5, <1>6, Sized
<1> HIDE DEF n, sized
<1>11. ~NoNumber(n) BY <1>7 DEF NoNumber
<1>8. CASE sized.result # "ok"
  BY <1>3, <1>7, <1>8 DEF GeometryInv
<1>9. CASE sized.result = "ok"
  <2>1. Regular(n) /\ n.recordLength > 0
    BY <1>4, <1>5, <1>7 DEF Regular, SameRequest
  <2>2. /\ p \in Params
        /\ p.samplesPerAcquisition =
             IF n.averager THEN n.recordLength * n.nbrSegments
             ELSE IF n.partialBuffer THEN n.recordLength * n.nbrSegments * n.nbrWaveforms
             ELSE n.recordLength * n.nbrSegments * n.nbrWaveforms * n.roundRobinsPerBuffer
        /\ p.numberAcquisitions =
             IF n.partialBuffer THEN n.nbrRoundRobins ELSE n.nbrBuffers
    BY <1>7, <1>9, <2>1, ToldRight
  <2> DEFINE m == [n EXCEPT !.samplesPerAcquisition = p.samplesPerAcquisition]
  <2>3. board' = m /\ acqParams' = p /\ result' = "ok" BY <1>3, <1>9, <1>11
  <2> HIDE DEF p
  <2>4. p.samplesPerAcquisition \in Unsigned BY <2>2 DEF Params
  <2>5. /\ m \in Board /\ m.samplesPerAcquisition = p.samplesPerAcquisition
        /\ m.averager = n.averager /\ m.recordLength = n.recordLength
        /\ m.nbrSegments = n.nbrSegments /\ m.nbrWaveforms = n.nbrWaveforms
        /\ m.nbrRoundRobins = n.nbrRoundRobins /\ m.partialBuffer = n.partialBuffer
        /\ m.bufferLen = n.bufferLen /\ m.nbrBuffers = n.nbrBuffers
        /\ m.roundRobinsPerBuffer = n.roundRobinsPerBuffer
        /\ m.buffersPerRoundRobin = n.buffersPerRoundRobin
        /\ m.recordsPerBuffer = n.recordsPerBuffer
        /\ m.recordsPerAcquisition = n.recordsPerAcquisition
    BY <1>7, <2>4 DEF Board
  <2> HIDE DEF m
  <2>6. n.partialBuffer => DividedSize(m) /\ Assembled(m)
    <3>1. n.partialBuffer => DividedSize(n) /\ Assembled(n) BY <1>7, <1>9
    <3>2. DividedSize(n) => DividedSize(m) BY <2>5 DEF DividedSize
    <3>3. Assembled(n) => Assembled(m) BY <2>5 DEF Assembled
    <3>4. QED BY <3>1, <3>2, <3>3
  <2>7. ~n.partialBuffer => WholeSize(m)
    <3>1. ~n.partialBuffer => WholeSize(n) BY <1>7, <1>9
    <3>2. WholeSize(n) => WholeSize(m) BY <2>5, Zenon DEF WholeSize
    <3>3. QED BY <3>1, <3>2
  <2>8. Told' BY <2>2, <2>3, <2>5 DEF Told
  <2>9. board' \in Board /\ acqParams' \in Params
        /\ (board'.partialBuffer => board'.buffersPerRoundRobin > 0)
    BY <1>7, <2>2, <2>3, <2>5
  <2>10. IF board'.partialBuffer THEN DividedSize(board') /\ Assembled(board') /\ Told'
         ELSE WholeSize(board') /\ Told'
    BY <2>3, <2>5, <2>6, <2>7, <2>8
  <2>11. \E x \in Requests : SameRequest(x, board')
    <3>1. b.averager = c.averager BY DEF b, GeometryInv, Board
    <3>2. SameRequest(c, m) BY <1>2, <1>7, <2>5, <3>1 DEF SameRequest
    <3>3. QED BY <2>3, <3>2
  <2>12. QED BY <2>3, <2>9, <2>10, <2>11 DEF GeometryInv
<1>10. QED BY <1>8, <1>9

LEMMA GeometryStep ==
  ASSUME RegularRequests PROVE GeometryInv /\ [Next]_vars => GeometryInv'
<1> SUFFICES ASSUME GeometryInv, [Next]_vars PROVE GeometryInv'
  OBVIOUS
<1>1. ASSUME NEW c \in Requests, RefuseSetup(c) PROVE GeometryInv'
  <2>1. c.averager \in BOOLEAN BY RequestsAssumption DEF Request
  <2>2. QED BY <1>1, <2>1 DEF RefuseSetup, GeometryInv, Board
<1>2. ASSUME NEW c \in Requests, RefuseRecordLength(c) PROVE GeometryInv'
  <2>1. c.averager \in BOOLEAN /\ c.recordLength \in Unsigned
    BY RequestsAssumption DEF Request
  <2>2. QED BY <1>2, <2>1 DEF RefuseRecordLength, GeometryInv, Board
<1>3. ASSUME NEW c \in Requests, Configure(c) PROVE GeometryInv'
  BY <1>3, ConfigureKeeps
<1>4. CASE UNCHANGED vars
  <2>1. board' = board /\ acqParams' = acqParams /\ result' = result BY <1>4 DEF vars
  <2>2. Told' <=> Told BY <2>1 DEF Told
  <2>3. QED BY <2>1, <2>2 DEF GeometryInv
<1>5. QED BY <1>1, <1>2, <1>3, <1>4 DEF Next

LEMMA GeometryHolds == ASSUME RegularRequests PROVE Spec => []GeometryInv
<1>1. Init => GeometryInv BY InitGeometry
<1>2. GeometryInv /\ [Next]_vars => GeometryInv' BY GeometryStep
<1>3. QED BY <1>1, <1>2, PTL DEF Spec

LEMMA Numbers ==
  ASSUME GeometryInv
  PROVE  /\ {board.recordLength, board.nbrSegments, board.nbrWaveforms, board.nbrRoundRobins,
             board.nbrBuffers, board.roundRobinsPerBuffer, board.buffersPerRoundRobin,
             board.recordsPerBuffer} \subseteq Nat
BY SizesAssumption DEF GeometryInv, Board, Unsigned
-----------------------------------------------------------------------------
(* The theorems. *)

(* Every field of the board object and what the application is told is a   *)
(* uint32_t, whichever calls are refused and where; and when a round robin *)
(* takes several buffers, processPartialBuffer has a number to divide by   *)
(* (libAlazar.cpp:733).                                                    *)
THEOREM GeometryTyped == ASSUME RegularRequests PROVE Spec => []TypeOK
<1>1. GeometryInv => TypeOK
  <2> SUFFICES ASSUME GeometryInv PROVE TypeOK
    OBVIOUS
  <2>1. \A f \in DOMAIN board \ {"averager", "partialBuffer"} : board[f] \in Unsigned
    BY DEF GeometryInv, Board
  <2>2. acqParams.samplesPerAcquisition \in Nat /\ acqParams.numberAcquisitions \in Nat
    BY SizesAssumption DEF GeometryInv, Params, Unsigned
  <2>3. QED BY <2>1, <2>2 DEF TypeOK, GeometryInv, Board
<1>2. QED BY <1>1, GeometryHolds, PTL

(* A buffer holds exactly its records within the recommended size, and the *)
(* board stops after exactly nbrBuffers of them (libAlazar.cpp:564-671),   *)
(* for every configuration whose products fit a uint32_t and whose records *)
(* fit a buffer.                                                           *)
THEOREM BuffersExact == ASSUME RegularRequests PROVE Spec => []BuffersHoldRecords
<1>1. GeometryInv => BuffersHoldRecords
  <2> SUFFICES ASSUME GeometryInv, result = "ok" PROVE BuffersHoldRecords
    BY DEF BuffersHoldRecords
  <2> DEFINE L == board.recordLength
             S == board.nbrSegments
             W == board.nbrWaveforms
             R == board.nbrRoundRobins
  <2>1. L \in Nat /\ S \in Nat /\ W \in Nat /\ R \in Nat BY Numbers
  <2>2. CASE board.partialBuffer
    <3>1. DividedSize(board) BY <2>2 DEF GeometryInv
    <3>2. PICK d \in Divisors(S * W) : \E q \in Nat :
             /\ S * W = d * q /\ d \in Nat /\ board.recordsPerBuffer = d
             /\ board.bufferLen = L * d * 2 /\ board.bufferLen <= PrefBufferSize
             /\ board.nbrBuffers = q * R /\ board.recordsPerAcquisition = S * W * R
      BY <3>1 DEF DividedSize
    <3>3. PICK q \in Nat : S * W = d * q /\ board.nbrBuffers = q * R BY <3>2
    <3>4. S * W * R = d * (q * R) BY <2>1, <3>2, <3>3
    <3>5. QED BY <3>2, <3>3, <3>4 DEF BuffersHoldRecords, numChannels
  <2>3. CASE ~board.partialBuffer
    <3>1. WholeSize(board) BY <2>3 DEF GeometryInv
    <3>2. PICK rr \in Divisors(R) : \E q \in Nat :
             /\ rr \in Nat /\ board.nbrBuffers = q
             /\ board.bufferLen = L * S * W * rr * 2 /\ board.bufferLen <= PrefBufferSize
             /\ board.recordsPerBuffer = S * W * rr
             /\ board.recordsPerAcquisition = S * W * rr * q
      BY <3>1 DEF WholeSize
    <3>3. L * S * W * rr * 2 = L * (S * W * rr) * 2 BY <2>1, <3>2
    <3>4. QED BY <3>2, <3>3 DEF BuffersHoldRecords, numChannels
  <2>4. QED BY <2>2, <2>3
<1>2. QED BY <1>1, GeometryHolds, PTL

(* When whole round robins fit a buffer, all of them are divided equally   *)
(* (libAlazar.cpp:577-621).                                                *)
THEOREM RoundRobinsDivided ==
  ASSUME RegularRequests PROVE Spec => []RoundRobinsDividedEqually
<1>1. GeometryInv => RoundRobinsDividedEqually
  <2> SUFFICES ASSUME GeometryInv, result = "ok", ~board.partialBuffer
               PROVE  RoundRobinsDividedEqually
    BY DEF RoundRobinsDividedEqually
  <2> DEFINE L == board.recordLength
             S == board.nbrSegments
             W == board.nbrWaveforms
             R == board.nbrRoundRobins
  <2>1. L \in Nat /\ S \in Nat /\ W \in Nat /\ R \in Nat BY Numbers
  <2>2. PICK rr \in Divisors(R) :
           /\ rr \in Nat /\ R = rr * board.nbrBuffers /\ board.roundRobinsPerBuffer = rr
           /\ board.bufferLen = L * S * W * rr * 2
    BY DEF GeometryInv, WholeSize
  <2>3. L * S * W * rr * 2 = L * (S * W) * rr * 2 BY <2>1, <2>2
  <2>4. QED BY <2>2, <2>3 DEF RoundRobinsDividedEqually, recordsPerRoundRobin, numChannels
<1>2. QED BY <1>1, GeometryHolds, PTL

(* When not, the records of each are: no buffer holds records of two round *)
(* robins, and each round robin takes the same number of buffers           *)
(* (libAlazar.cpp:622-668).                                                *)
THEOREM RoundRobinDivided ==
  ASSUME RegularRequests PROVE Spec => []RoundRobinEquallyDivided
<1>1. GeometryInv => RoundRobinEquallyDivided
  <2> SUFFICES ASSUME GeometryInv, result = "ok", board.partialBuffer
               PROVE  RoundRobinEquallyDivided
    BY DEF RoundRobinEquallyDivided
  <2>1. PICK d \in Divisors(board.nbrSegments * board.nbrWaveforms) : \E q \in Nat :
           /\ board.nbrSegments * board.nbrWaveforms = d * q
           /\ board.recordsPerBuffer = d /\ board.buffersPerRoundRobin = q
           /\ board.nbrBuffers = q * board.nbrRoundRobins
    BY DEF GeometryInv, DividedSize
  <2>2. QED BY <2>1 DEF RoundRobinEquallyDivided, recordsPerRoundRobin
<1>2. QED BY <1>1, GeometryHolds, PTL

(* No coarser equal division fits the recommended size: the loops over the *)
(* factors (libAlazar.cpp:580-591, 628-638) stop at the right one.         *)
THEOREM BuffersLargest == ASSUME RegularRequests PROVE Spec => []LargestBuffers
<1>1. GeometryInv => LargestBuffers
  <2> SUFFICES ASSUME GeometryInv, result = "ok" PROVE LargestBuffers
    BY DEF LargestBuffers
  <2> DEFINE L == board.recordLength
             S == board.nbrSegments
             W == board.nbrWaveforms
             R == board.nbrRoundRobins
  <2>1. L \in Nat /\ S \in Nat /\ W \in Nat /\ R \in Nat BY Numbers
  <2>2. CASE board.partialBuffer
    <3>1. \A e \in Divisors(S * W) :
             e > board.recordsPerBuffer => L * e * 2 > PrefBufferSize
      BY <2>2 DEF GeometryInv, DividedSize
    <3>2. QED BY <2>2, <3>1 DEF LargestBuffers, recordsPerRoundRobin, numChannels
  <2>3. CASE ~board.partialBuffer
    <3>1. \A d \in Divisors(R) :
             d > board.roundRobinsPerBuffer => L * S * W * d * 2 > PrefBufferSize
      BY <2>3 DEF GeometryInv, WholeSize
    <3>2. \A d \in Divisors(R) : L * S * W * d * 2 = L * (d * (S * W)) * 2
      <4>1. \A d \in Divisors(R) : d \in Nat BY <2>1 DEF Divisors
      <4>2. \A d \in Nat : L * S * W * d * 2 = L * (d * (S * W)) * 2 BY <2>1
      <4>3. QED BY <4>1, <4>2
    <3>3. QED BY <2>3, <3>1, <3>2 DEF LargestBuffers, recordsPerRoundRobin, numChannels
  <2>4. QED BY <2>2, <2>3
<1>2. QED BY <1>1, GeometryHolds, PTL

(* The results the application is told to wait for, each in the arrays it  *)
(* is told to allocate, are the samples of the acquisition: no fewer, and  *)
(* no result that never comes (libAlazar.cpp:288-300).                     *)
THEOREM SamplesTold == ASSUME RegularRequests PROVE Spec => []SamplesConserved
<1>1. GeometryInv => SamplesConserved
  <2> SUFFICES ASSUME GeometryInv, result = "ok" PROVE SamplesConserved
    BY DEF SamplesConserved
  <2> DEFINE L == board.recordLength
             S == board.nbrSegments
             W == board.nbrWaveforms
             R == board.nbrRoundRobins
  <2>1. L \in Nat /\ S \in Nat /\ W \in Nat /\ R \in Nat BY Numbers
  <2>2. Told BY DEF GeometryInv
  <2>3. CASE board.averager
    BY <2>2, <2>3 DEF Told, SamplesConserved
  <2>4. CASE ~board.averager /\ board.partialBuffer
    <3>1. /\ acqParams.samplesPerAcquisition = L * S * W
          /\ acqParams.numberAcquisitions = R
      BY <2>2, <2>4 DEF Told
    <3>2. L * S * W * R = L * (S * W) * R BY <2>1
    <3>3. QED BY <2>2, <2>4, <3>1, <3>2 DEF Told, SamplesConserved, recordsPerRoundRobin
  <2>5. CASE ~board.averager /\ ~board.partialBuffer
    <3>1. PICK rr \in Divisors(R) :
             rr \in Nat /\ R = rr * board.nbrBuffers /\ board.roundRobinsPerBuffer = rr
      BY <2>5 DEF GeometryInv, WholeSize
    <3>2. /\ acqParams.samplesPerAcquisition = L * S * W * rr
          /\ acqParams.numberAcquisitions = board.nbrBuffers
      BY <2>2, <2>5, <3>1 DEF Told
    <3>3. L * S * W * rr * board.nbrBuffers = L * (S * W) * (rr * board.nbrBuffers)
      BY <2>1, <3>1, Numbers
    <3>4. QED
      BY <2>2, <2>5, <3>1, <3>2, <3>3 DEF Told, SamplesConserved, recordsPerRoundRobin
  <2>6. QED BY <2>3, <2>4, <2>5
<1>2. QED BY <1>1, GeometryHolds, PTL

(* Averaging a round robin of several waveforms that takes several buffers *)
(* is what the work buffers are too small for (WorkBuffer).                *)
AverageFits(c) ==
  c.averager =>
    LET samples == c.recordLength * c.nbrSegments * c.nbrWaveforms
    IN \/ c.nbrWaveforms <= 1
       \/ samples * numChannels <= PrefBufferSize \* one buffer takes it
       \/ samples > MaxBufferSize                \* it is refused
AveragesFit == \A c \in Requests : AverageFits(c)

(* With no such request the work buffers have room for the buffers of a    *)
(* round robin (libAlazar.h:78-79): the only other way to fill them is to  *)
(* average one waveform, which is as long as its average.                  *)
THEOREM WorkBuffersFit ==
  ASSUME RegularRequests, AveragesFit PROVE Spec => []WorkBufferFits
<1>1. GeometryInv => WorkBufferFits
  <2> SUFFICES ASSUME GeometryInv, result = "ok", board.partialBuffer, board.averager
               PROVE  board.buffersPerRoundRobin * board.recordsPerBuffer * board.recordLength
                        <= board.samplesPerAcquisition
    BY DEF WorkBufferFits
  <2> DEFINE L == board.recordLength
             S == board.nbrSegments
             W == board.nbrWaveforms
  <2>1. L \in Nat /\ S \in Nat /\ W \in Nat BY Numbers
  <2>2. DividedSize(board) /\ Assembled(board) /\ Told BY DEF GeometryInv
  <2>3. PICK c \in Requests : SameRequest(c, board) BY DEF GeometryInv
  <2>4. W <= 1
    <3>1. AverageFits(c) BY DEF AveragesFit
    <3>2. L * S * W * 2 > PrefBufferSize /\ L * S * W <= MaxBufferSize
      BY <2>2 DEF Assembled
    <3>3. c.averager /\ c.recordLength = L /\ c.nbrSegments = S /\ c.nbrWaveforms = W
      BY <2>3 DEF SameRequest
    <3> DEFINE m == L * S * W
    <3>4. W <= 1 \/ m * 2 <= PrefBufferSize \/ m > MaxBufferSize
      BY <3>1, <3>3 DEF AverageFits, numChannels
    <3>5. m \in Nat /\ m * 2 > PrefBufferSize /\ m <= MaxBufferSize BY <2>1, <3>2
    <3> HIDE DEF m
    <3>6. QED BY <3>4, <3>5, SizesAssumption
  <2>5. PICK d \in Divisors(S * W) : \E q \in Nat :
           /\ S * W = d * q /\ d \in Nat
           /\ board.recordsPerBuffer = d /\ board.buffersPerRoundRobin = q
    BY <2>2 DEF DividedSize
  <2>6. PICK q \in Nat : S * W = d * q /\ board.buffersPerRoundRobin = q BY <2>5
  <2>7. q * d * L = L * (S * W) BY <2>1, <2>5, <2>6
  <2>8. S * W <= S * 1 /\ S * W \in Nat BY <2>1, <2>4, Monotone
  <2>9. L * (S * W) <= L * (S * 1) BY <2>1, <2>8, Monotone
  <2>10. board.samplesPerAcquisition = L * S BY <2>2 DEF Told
  <2>11. S * 1 = S BY <2>1
  <2>12. QED BY <2>5, <2>6, <2>7, <2>9, <2>10, <2>11
<1>2. QED BY <1>1, GeometryHolds, PTL
=============================================================================
