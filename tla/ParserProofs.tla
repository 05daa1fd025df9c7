---------------------------- MODULE ParserProofs ----------------------------
(***************************************************************************)
(* What holds of OptionParser for every table of descriptors and every     *)
(* command line.                                                           *)
(***************************************************************************)
EXTENDS OptionParser, SequenceTheorems, WellFoundedInduction, TLAPS

Values == STRING \cup {Null, "text", "negative"}
Options == [index : Indexes, arg : Values]
Descriptors == {Usage[i] : i \in DOMAIN Usage}

(* args holds every argument once. *)
Permutes(o) ==
  /\ o \in [DOMAIN argv -> DOMAIN argv]
  /\ \A p \in DOMAIN argv : \E i \in DOMAIN argv : o[i] = p

(* Where a parse can be; a group of short options keeps its argument.      *)
CursorInv ==
  /\ Permutes(order)
  /\ at \in 1..(Len(argv) + 1) /\ nonops \in 0..(at - 1)
  /\ rest \in Seq(STRING)
  /\ rest # <<>> => at <= Len(argv) /\ Argument.kind = "short"
                    /\ Len(rest) < Len(Argument.chars)

StoreInv ==
  /\ buffer_max \in Nat \ {0}
  /\ buffer \in Seq(Options)
  /\ options \in [Indexes -> {Unset} \cup ToSet(buffer)]
  /\ nonOptions \in Seq(DOMAIN argv)

ParserInv ==
  /\ argv \in Seq(Arguments) /\ gnu \in BOOLEAN /\ bufmax \in Int
  /\ pass \in {"count", "store", "done", "error", "terminated"}
  /\ options_max = Max(Indexes) + 2
  /\ CursorInv /\ StoreInv
-----------------------------------------------------------------------------
(* Descriptors and arguments. *)

(* A set of numbers has a least one. *)
LEMMA Least == ASSUME NEW T \in SUBSET Nat, T # {} PROVE \E m \in T : \A y \in T : m <= y
<1>1. \A x, y \in Nat : <<x, y>> \in OpToRel(<, Nat) <=> x < y
  BY Zenon DEF OpToRel
<1>2. PICK m \in T : \A y \in T : ~(<<y, m>> \in OpToRel(<, Nat))
  BY NatLessThanWellFounded, WFMin, Zenon
<1>3. \A y \in T : ~(y < m) BY <1>1, <1>2, Zenon
<1>4. QED BY <1>3

LEMMA MinIsLeast ==
  ASSUME NEW T \in SUBSET Nat, T # {}
  PROVE  Min(T) \in T /\ \A y \in T : Min(T) <= y
<1>1. PICK m \in T : \A y \in T : m <= y BY Least
<1>2. \E m1 \in T : \A y \in T : m1 <= y BY <1>1
<1>3. QED BY <1>2, Zenon DEF Min

LEMMA DescriptorType ==
  ASSUME NEW d \in Descriptors
  PROVE  d.index \in Indexes /\ d.index \in Nat /\ d.check \in Checks
<1>1. PICK i \in DOMAIN Usage : d = Usage[i] BY DEF Descriptors
<1>2. Usage[i] \in [index : Nat, short : SUBSET STRING, long : STRING, check : Checks]
  <2> DEFINE R == [index : Nat, short : SUBSET STRING, long : STRING, check : Checks]
  <2>1. Usage \in Seq(R) BY UsageAssumption
  <2> HIDE DEF R
  <2>2. Usage[i] \in R BY <2>1
  <2>3. QED BY <2>2 DEF R
<1>3. Usage[i].index \in Nat /\ Usage[i].check \in Checks BY <1>2, Zenon
<1>4. Usage[i].index \in Indexes BY Zenon DEF Indexes
<1>5. QED BY <1>1, <1>3, <1>4

LEMMA FirstOfOne ==
  ASSUME NEW T \in SUBSET DOMAIN Usage
  PROVE  FirstOf(T) = {} \/ \E d \in Descriptors : FirstOf(T) = {d}
<1>1. DOMAIN Usage \in SUBSET Nat BY UsageAssumption
<1>2. T # {} => Min(T) \in T BY <1>1, MinIsLeast
<1>3. QED BY <1>2 DEF FirstOf, Descriptors

(* The parser finds one descriptor or none. *)
LEMMA Found ==
  /\ \A name : LongDescriptor(name) = {} \/ \E d \in Descriptors : LongDescriptor(name) = {d}
  /\ \A char : ShortDescriptor(char) = {} \/ \E d \in Descriptors : ShortDescriptor(char) = {d}
BY FirstOfOne DEF LongDescriptor, ShortDescriptor, OrDummy, Dummy

LEMMA ArgumentType ==
  ASSUME NEW a \in Arguments
  PROVE  /\ a.kind \in {"word", "terminator", "long", "short"}
         /\ a.kind \in {"word", "long"} => a.value \in STRING
         /\ a.kind = "short" => a.chars \in Seq(STRING) /\ a.chars # <<>>
BY DEF Arguments

(* An accepted argument of its own is not missing. *)
LEMMA CheckOfNothing ==
  ASSUME NEW d \in Descriptors, NEW value, NEW attached \in BOOLEAN
  PROVE  /\ Check(d, value, attached) \in {"NONE", "OK", "IGNORE", "ILLEGAL", "throws"}
         /\ Check(d, value, attached) = "OK" /\ ~attached => value # Null
<1>1. d.check \in Checks BY DescriptorType
<1>2. QED BY <1>1, UsageAssumption DEF Check, Checks, Null

LEMMA OptionType ==
  ASSUME NEW d \in Descriptors, NEW value \in Values, NEW verdict
  PROVE  OptionOf(d, verdict, value) \in Options
<1>1. Null \in Values BY DEF Values
<1>2. QED BY <1>1, DescriptorType DEF OptionOf, Options

LEMMA ValueType ==
  /\ \A a \in Arguments : DetachedValue(a) \in Values
  /\ \A chars \in Seq(STRING) : chars # <<>> => AttachedValue(chars) \in Values
<1>1. ASSUME NEW a \in Arguments PROVE DetachedValue(a) \in Values
  <2>1. CASE a.kind = "word"
    <3>1. DetachedValue(a) = a.value BY <2>1, Zenon DEF DetachedValue
    <3>2. QED BY <2>1, <3>1, ArgumentType DEF Values
  <2>2. CASE a.kind # "word"
    <3>1. DetachedValue(a) \in {"negative", "text"} BY <2>2, Zenon DEF DetachedValue
    <3>2. QED BY <3>1 DEF Values
  <2>3. QED BY <2>1, <2>2
<1>2. ASSUME NEW chars \in Seq(STRING), chars # <<>> PROVE AttachedValue(chars) \in Values
  <2>1. Head(chars) \in STRING BY <1>2
  <2>2. AttachedValue(chars) \in {Head(chars), "text"} BY DEF AttachedValue
  <2>3. QED BY <2>1, <2>2 DEF Values
<1>3. QED BY <1>1, <1>2

(* There is a largest index, so Stats makes room for all. *)
LEMMA LargestIndex == Max(Indexes) \in Indexes /\ \A y \in Indexes : Max(Indexes) >= y
<1> DEFINE n == Len(Usage)
           I(k) == {Usage[i].index : i \in 1..k}
           Bad == {k \in 1..n : ~\E x \in I(k) : \A y \in I(k) : x >= y}
<1>1. n \in Nat /\ n >= 1 /\ DOMAIN Usage = 1..n /\ \A i \in 1..n : Usage[i].index \in Nat
  <2>1. n \in Nat /\ DOMAIN Usage = 1..n /\ n # 0
    BY UsageAssumption, EmptySeq, LenProperties
  <2>2. \A i \in 1..n : Usage[i].index \in Nat BY <2>1, DescriptorType DEF Descriptors
  <2>3. QED BY <2>1, <2>2
<1> HIDE DEF n
<1>2. I(n) = Indexes BY <1>1 DEF Indexes
<1>3. Bad = {}
  <2>1. SUFFICES ASSUME Bad # {} PROVE FALSE OBVIOUS
  <2>2. Bad \in SUBSET Nat BY <1>1
  <2> HIDE DEF Bad
  <2>3. PICK k \in Bad : \A y \in Bad : k <= y BY <2>1, <2>2, Least
  <2> USE DEF Bad
  <2>4. k # 1
    <3>1. 1 \notin Bad
      <4>1. I(1) = {Usage[1].index} OBVIOUS
      <4>2. Usage[1].index >= Usage[1].index BY <1>1
      <4> HIDE DEF I
      <4>3. QED BY <4>1, <4>2
    <3>2. QED BY <2>3, <3>1
  <2>5. k - 1 \in 1..n /\ k - 1 \notin Bad
    <3>1. k \in 1..n BY <2>3
    <3>2. k - 1 \in 1..n /\ k - 1 < k BY <1>1, <2>4, <3>1
    <3>3. k \in Nat /\ k - 1 \in Nat BY <3>2, <3>1
    <3>4. ~(k <= k - 1) BY <3>3
    <3> HIDE DEF Bad
    <3>5. QED BY <2>3, <3>2, <3>4
  <2> HIDE DEF I
  <2>6. PICK x \in I(k - 1) : \A y \in I(k - 1) : x >= y BY <2>5
  <2>7. I(k) = I(k - 1) \cup {Usage[k].index} /\ I(k - 1) \in SUBSET Nat
    BY <1>1, <2>3, <2>5 DEF I
  <2>8. Usage[k].index \in Nat BY <1>1, <2>3
  <2>9. \E z \in I(k) : \A y \in I(k) : z >= y
    <3>1. CASE x >= Usage[k].index BY <2>6, <2>7, <3>1
    <3>2. CASE ~(x >= Usage[k].index)
      <4>1. \A y \in I(k - 1) : Usage[k].index >= y BY <2>6, <2>7, <2>8, <3>2
      <4>2. Usage[k].index >= Usage[k].index BY <2>8
      <4>3. QED BY <2>7, <4>1, <4>2
    <3>3. QED BY <3>1, <3>2
  <2>10. QED BY <2>3, <2>9
<1>4. n \in 1..n /\ n \notin Bad
  <2> HIDE DEF Bad
  <2>1. QED BY <1>1, <1>3
<1> HIDE DEF I
<1>5. \E x \in Indexes : \A y \in Indexes : x >= y BY <1>2, <1>4
<1>6. QED BY <1>5, Zenon DEF Max
-----------------------------------------------------------------------------
(* Moving the cursor. *)

LEMMA ArgvIs ==
  ASSUME argv \in Seq(Arguments)
  PROVE  Len(argv) \in Nat /\ DOMAIN argv = 1..Len(argv)
OBVIOUS

LEMMA ShiftPermutes ==
  ASSUME argv \in Seq(Arguments), NEW o, Permutes(o),
         NEW i \in DOMAIN argv, NEW count \in 0..(i - 1)
  PROVE  Permutes(Shift(o, i, count))
<1> DEFINE n == Len(argv)
           s == Shift(o, i, count)
<1>0. n \in Nat /\ DOMAIN argv = 1..n /\ DOMAIN o = 1..n BY ArgvIs DEF Permutes
<1> HIDE DEF n
<1>1. /\ DOMAIN s = 1..n
      /\ s[i - count] = o[i]
      /\ \A j \in (i - count + 1)..i : s[j] = o[j - 1]
      /\ \A j \in 1..n : j \notin (i - count)..i => s[j] = o[j]
  BY <1>0 DEF Shift
<1>2. s = [j \in 1..n |-> s[j]] BY <1>0 DEF Shift
<1> HIDE DEF s
<1>3. \A j \in 1..n : s[j] \in 1..n
  <2>1. \A j \in 1..n : o[j] \in 1..n BY <1>0 DEF Permutes
  <2>2. SUFFICES ASSUME NEW j \in 1..n PROVE s[j] \in 1..n OBVIOUS
  <2>3. CASE j = i - count BY <1>0, <1>1, <2>1, <2>3
  <2>4. CASE j \in (i - count + 1)..i
    <3>1. j - 1 \in 1..n BY <1>0, <2>4
    <3>2. QED BY <1>1, <2>1, <2>4, <3>1
  <2>5. CASE j \notin (i - count)..i BY <1>1, <2>1, <2>5
  <2>6. QED BY <1>0, <2>3, <2>4, <2>5
<1>4. ASSUME NEW p \in 1..n PROVE \E j \in 1..n : s[j] = p
  <2>1. PICK k \in 1..n : o[k] = p BY <1>0 DEF Permutes
  <2>2. CASE k = i
    <3>1. i - count \in 1..n BY <1>0
    <3>2. QED BY <1>1, <2>1, <2>2, <3>1
  <2>3. CASE k \in (i - count)..(i - 1)
    <3>1. k + 1 \in 1..n /\ k + 1 \in (i - count + 1)..i /\ (k + 1) - 1 = k BY <1>0, <2>3
    <3>2. s[k + 1] = o[k] BY <1>1, <3>1
    <3>3. QED BY <2>1, <3>1, <3>2
  <2>4. CASE k \notin (i - count)..i BY <1>1, <2>1, <2>4
  <2>5. QED BY <1>0, <2>2, <2>3, <2>4
<1>5. s \in [1..n -> 1..n] BY <1>2, <1>3, Zenon
<1>6. QED BY <1>0, <1>4, <1>5 DEF Permutes, s

(* The argument at hand, and what follows it as a value. *)
LEMMA AtArgument ==
  ASSUME ParserInv, at <= Len(argv)
  PROVE  /\ at \in 1..Len(argv) /\ order[at] \in DOMAIN argv
         /\ Argument \in Arguments /\ Len(order) = Len(argv)
         /\ Following \in Values /\ (Following # Null => at + 1 <= Len(argv))
<1>1. Len(argv) \in Nat /\ DOMAIN argv = 1..Len(argv) BY ArgvIs DEF ParserInv
<1>2. \A p \in 1..Len(argv) : argv[p] \in Arguments BY <1>1 DEF ParserInv
<1>3. order \in [1..Len(argv) -> 1..Len(argv)] BY <1>1 DEF ParserInv, CursorInv, Permutes
<1>4. Len(order) = Len(argv) BY <1>1, <1>3
<1>5. at \in 1..Len(argv) BY <1>1 DEF ParserInv, CursorInv
<1>6. order[at] \in 1..Len(argv) BY <1>3, <1>5
<1>7. Following \in Values
  <2>1. CASE at < Len(argv)
    <3>1. at + 1 \in 1..Len(argv) BY <1>1, <1>5, <2>1
    <3>2. argv[order[at + 1]] \in Arguments BY <1>2, <1>3, <3>1
    <3>3. QED BY <1>4, <2>1, <3>2, ValueType DEF Following
  <2>2. CASE ~(at < Len(argv)) BY <1>4, <2>2 DEF Following, Values
  <2>3. QED BY <2>1, <2>2
<1>8. Following # Null => at + 1 <= Len(argv)
  <2>1. Following # Null => at < Len(order) BY DEF Following
  <2>2. QED BY <1>1, <1>4, <1>5, <2>1
<1>9. QED BY <1>1, <1>2, <1>4, <1>5, <1>6, <1>7, <1>8 DEF Argument

LEMMA AdvanceCursor ==
  ASSUME ParserInv, at <= Len(argv), argv' = argv, nonops' = nonops,
         NEW group \in Seq(STRING), NEW took \in {0, 1}, at + took <= Len(argv),
         group # <<>> => Argument.kind = "short" /\ Len(group) < Len(Argument.chars),
         Advance(group, took)
  PROVE  CursorInv'
<1>1. /\ Permutes(order) /\ at \in 1..Len(argv) /\ nonops \in 0..(at - 1)
      /\ Len(argv) \in Nat /\ DOMAIN argv = 1..Len(argv) /\ argv \in Seq(Arguments)
  BY AtArgument, ArgvIs DEF ParserInv, CursorInv
<1>2. CASE group # <<>>
  <2>1. rest' = group /\ order' = order /\ at' = at BY <1>2 DEF Advance
  <2>2. Permutes(order)' BY <1>1, <2>1 DEF Permutes
  <2>3. Argument' = Argument BY <2>1 DEF Argument
  <2>4. at' \in 1..(Len(argv') + 1) /\ nonops' \in 0..(at' - 1) BY <1>1, <2>1
  <2>5. rest' \in Seq(STRING) BY <2>1
  <2>6. rest' # <<>> => /\ at' <= Len(argv') /\ Argument'.kind = "short"
                        /\ Len(rest') < Len(Argument'.chars)
    BY <1>1, <1>2, <2>1, <2>3
  <2>7. QED BY <2>2, <2>4, <2>5, <2>6 DEF CursorInv
<1>3. CASE group = <<>>
  <2>1. /\ rest' = <<>> /\ at' = at + 1 + took
        /\ order' = IF took = 0 THEN Shift(order, at, nonops)
                    ELSE Shift(Shift(order, at, nonops), at + 1, nonops)
    BY <1>3 DEF Advance
  <2>2. Permutes(Shift(order, at, nonops)) BY <1>1, ShiftPermutes
  <2>3. took = 1 => Permutes(Shift(Shift(order, at, nonops), at + 1, nonops))
    <3>1. took = 1 => at + 1 \in 1..Len(argv) /\ nonops \in 0..((at + 1) - 1) BY <1>1
    <3>2. QED BY <1>1, <2>2, <3>1, ShiftPermutes
  <2>4. Permutes(order') BY <2>1, <2>2, <2>3
  <2>5. Permutes(order)' BY <2>4 DEF Permutes
  <2>6. at' \in 1..(Len(argv') + 1) /\ nonops' \in 0..(at' - 1) BY <1>1, <2>1
  <2>7. QED BY <2>1, <2>5, <2>6 DEF CursorInv
<1>4. QED BY <1>2, <1>3
-----------------------------------------------------------------------------
(* Types. *)

(* What is stored comes from the descriptors.                              *)
LEMMA PerformTypes ==
  ASSUME StoreInv, NEW option \in Options, Perform(option), UNCHANGED nonOptions,
         argv' = argv
  PROVE  StoreInv' /\ options_max' = options_max
<1>1. CASE pass = "count" BY <1>1 DEF Perform, CountOption, StoreInv, storeVars
<1>2. CASE pass # "count" /\ (bufmax >= 0 /\ Len(buffer) >= bufmax)
  BY <1>2 DEF Perform, StoreOption, StoreInv, storeVars, statsVars
<1>3. CASE pass # "count" /\ ~(bufmax >= 0 /\ Len(buffer) >= bufmax)
  <2>1. /\ buffer' = Append(buffer, option) /\ buffer_max' = buffer_max
        /\ options_max' = options_max
        /\ options' = options \/ options' = [options EXCEPT ![option.index] = option]
    BY <1>3 DEF Perform, StoreOption, statsVars
  <2>2. buffer \in Seq(Options) /\ options \in [Indexes -> {Unset} \cup ToSet(buffer)]
    BY DEF StoreInv
  <2>3. buffer' \in Seq(Options) BY <2>1, <2>2
  <2>4. ToSet(buffer) \subseteq ToSet(buffer') /\ option \in ToSet(buffer')
    <3>1. /\ DOMAIN buffer = 1..Len(buffer) /\ DOMAIN buffer' = 1..(Len(buffer) + 1)
          /\ Len(buffer) \in Nat
          /\ \A i \in 1..Len(buffer) : buffer'[i] = buffer[i]
          /\ buffer'[Len(buffer) + 1] = option
      BY <2>1, <2>2
    <3>2. Len(buffer) + 1 \in 1..(Len(buffer) + 1)
          /\ \A i \in 1..Len(buffer) : i \in 1..(Len(buffer) + 1)
      BY <3>1
    <3>3. QED BY <3>1, <3>2 DEF ToSet
  <2>5. options' \in [Indexes -> {Unset} \cup ToSet(buffer')]
    <3>1. option.index \in Indexes BY DEF Options
    <3>2. QED BY <2>1, <2>2, <2>4, <3>1
  <2>6. QED BY <2>1, <2>3, <2>5 DEF StoreInv
<1>4. QED BY <1>1, <1>2, <1>3

(* One option: LongOption and ShortOption.                                 *)
LEMMA HandleTypes ==
  ASSUME ParserInv, Reading, at <= Len(argv), UNCHANGED inputVars,
         NEW found, found = {} \/ \E d \in Descriptors : found = {d},
         NEW value \in Values, NEW attached \in BOOLEAN, NEW group \in Seq(STRING),
         ~attached => value = Following,
         group # <<>> => Argument.kind = "short" /\ Len(group) < Len(Argument.chars),
         Handle(found, value, attached, group)
  PROVE  ParserInv'
<1>1. /\ gnu' = gnu /\ bufmax' = bufmax /\ argv' = argv
      /\ argv \in Seq(Arguments) /\ gnu \in BOOLEAN /\ bufmax \in Int
      /\ pass \in {"count", "store"} /\ options_max = Max(Indexes) + 2
      /\ CursorInv /\ StoreInv
  BY DEF ParserInv, inputVars, Reading
<1>2. at \in 1..Len(argv) /\ (Following # Null => at + 1 <= Len(argv)) /\ Len(argv) \in Nat
  BY AtArgument, ArgvIs, <1>1
<1>3. SUFFICES pass' \in {"count", "store", "done", "error", "terminated"}
               /\ options_max' = options_max /\ CursorInv' /\ StoreInv'
  BY <1>1 DEF ParserInv
<1>4. ASSUME UNCHANGED <<statsVars, storeVars, nonOptions>>
      PROVE  options_max' = options_max /\ StoreInv'
  BY <1>1, <1>4 DEF statsVars, storeVars, StoreInv
<1>5. CASE found = {} /\ Advance(group, 0)
           /\ UNCHANGED <<pass, nonops, statsVars, storeVars, nonOptions>>
  <2>1. CursorInv' BY <1>1, <1>2, <1>5, AdvanceCursor
  <2>2. QED BY <1>1, <1>4, <1>5, <2>1
<1>6. ASSUME NEW d \in found, d \in Descriptors, Check(d, value, attached) = "throws",
             pass' = "terminated", UNCHANGED <<cursorVars, statsVars, storeVars, nonOptions>>
      PROVE  pass' = "terminated" /\ options_max' = options_max /\ CursorInv' /\ StoreInv'
  BY <1>1, <1>4, <1>6 DEF cursorVars, CursorInv, Permutes, Argument
<1>7. ASSUME NEW d \in found, d \in Descriptors, Check(d, value, attached) = "ILLEGAL",
             IF pass = "count" THEN StartStore
             ELSE pass' = "error" /\ UNCHANGED <<at, nonops, rest>>,
             UNCHANGED <<order, statsVars, storeVars, nonOptions>>
      PROVE  pass' \in {"store", "error"} /\ options_max' = options_max
             /\ CursorInv' /\ StoreInv'
  <2>1. CASE pass = "count"
    <3>1. pass' = "store" /\ at' = 1 /\ nonops' = 0 /\ rest' = <<>> /\ order' = order
      BY <1>7, <2>1 DEF StartStore
    <3>2. Permutes(order)' BY <1>1, <3>1 DEF CursorInv, Permutes
    <3>3. at' \in 1..(Len(argv') + 1) /\ nonops' \in 0..(at' - 1) BY <1>1, <1>2, <3>1
    <3>4. rest' \in Seq(STRING) BY <3>1
    <3>5. CursorInv' BY <3>1, <3>2, <3>3, <3>4 DEF CursorInv
    <3>6. QED BY <1>4, <1>7, <3>1, <3>5
  <2>2. CASE pass # "count"
    <3>1. UNCHANGED <<argv, order, at, nonops, rest>> BY <1>1, <1>7, <2>2
    <3>2. CursorInv' BY <1>1, <3>1 DEF CursorInv, Permutes, Argument
    <3>3. QED BY <1>4, <1>7, <2>2, <3>2
  <2>3. QED BY <2>1, <2>2
<1>8. ASSUME NEW d \in found, d \in Descriptors,
             NEW verdict, verdict = Check(d, value, attached),
             verdict \in {"NONE", "IGNORE", "OK"},
             Perform(OptionOf(d, verdict, value)),
             IF verdict = "OK" THEN Advance(<<>>, IF attached THEN 0 ELSE 1)
             ELSE Advance(group, 0),
             UNCHANGED <<pass, nonops, nonOptions>>
      PROVE  pass' = pass /\ options_max' = options_max /\ CursorInv' /\ StoreInv'
  <2>1. options_max' = options_max /\ StoreInv'
    BY <1>1, <1>8, OptionType, PerformTypes
  <2>2. CASE verdict = "OK"
    <3>1. ~attached => at + 1 <= Len(argv) BY <1>2, <1>8, <2>2, CheckOfNothing
    <3>2. <<>> \in Seq(STRING) OBVIOUS
    <3>3. PICK took \in {0, 1} : Advance(<<>>, took) /\ at + took <= Len(argv)
      BY <1>2, <1>8, <2>2, <3>1
    <3>4. CursorInv' BY <1>1, <1>2, <1>8, <3>2, <3>3, AdvanceCursor
    <3>5. QED BY <1>8, <2>1, <3>4
  <2>3. CASE verdict # "OK"
    <3>1. CursorInv' BY <1>1, <1>2, <1>8, <2>3, AdvanceCursor
    <3>2. QED BY <1>8, <2>1, <3>1
  <2>4. QED BY <2>2, <2>3
<1>9. \A d \in found : d \in Descriptors OBVIOUS
<1>10. QED BY <1>1, <1>5, <1>6, <1>7, <1>8, <1>9 DEF Handle

LEMMA LongTypes == ASSUME ParserInv, LongOption PROVE ParserInv'
<1>1. Reading /\ at <= Len(order) /\ Argument.kind = "long" /\ UNCHANGED inputVars
  BY DEF LongOption
<1>2. at <= Len(argv) BY <1>1, ArgvIs DEF ParserInv, CursorInv, Permutes
<1> DEFINE attached == Argument.value # Null
           value == IF attached THEN Argument.value ELSE Following
<1>3. Argument \in Arguments /\ Following \in Values BY <1>2, AtArgument
<1>4. value \in Values BY <1>1, <1>3, ArgumentType DEF Values
<1>5. Handle(LongDescriptor(Argument.name), value, attached, <<>>) BY DEF LongOption
<1>6. <<>> \in Seq(STRING) /\ attached \in BOOLEAN /\ (~attached => value = Following) OBVIOUS
<1> HIDE DEF attached, value
<1>7. QED BY <1>1, <1>2, <1>4, <1>5, <1>6, Found, HandleTypes

LEMMA TailOf ==
  ASSUME NEW S, NEW s \in Seq(S), s # <<>>
  PROVE  /\ Tail(s) \in Seq(S) /\ Len(Tail(s)) = Len(s) - 1 /\ Len(Tail(s)) < Len(s)
         /\ Len(s) > 1 => Tail(s) # <<>>
<1>1. Tail(s) \in Seq(S) /\ Len(Tail(s)) = Len(s) - 1 BY HeadTailProperties
<1>2. Len(s) \in Nat OBVIOUS
<1>3. Tail(s) = <<>> => Len(Tail(s)) = 0 BY <1>1, EmptySeq
<1>4. QED BY <1>1, <1>2, <1>3

LEMMA ShortTypes == ASSUME ParserInv, ShortOption PROVE ParserInv'
<1>1. Reading /\ at <= Len(order) /\ Argument.kind = "short" /\ UNCHANGED inputVars
  BY DEF ShortOption
<1>2. at <= Len(argv) BY <1>1, ArgvIs DEF ParserInv, CursorInv, Permutes
<1> DEFINE chars == IF rest # <<>> THEN rest ELSE Argument.chars
           attached == Len(chars) > 1
           value == IF attached THEN AttachedValue(Tail(chars)) ELSE Following
<1>3. Argument \in Arguments /\ Following \in Values BY <1>2, AtArgument
<1>4. /\ chars \in Seq(STRING) /\ chars # <<>>
      /\ Argument.chars \in Seq(STRING) /\ Len(chars) <= Len(Argument.chars)
  BY <1>1, <1>3, ArgumentType DEF ParserInv, CursorInv
<1>5. Handle(ShortDescriptor(Head(chars)), value, attached, Tail(chars)) BY DEF ShortOption
<1> HIDE DEF chars
<1>6. /\ Tail(chars) \in Seq(STRING) /\ Len(Tail(chars)) < Len(Argument.chars)
      /\ attached => Tail(chars) # <<>>
  <2>1. /\ Tail(chars) \in Seq(STRING) /\ Len(Tail(chars)) < Len(chars)
        /\ Len(chars) > 1 => Tail(chars) # <<>>
    BY <1>4, TailOf
  <2>2. Len(chars) \in Nat /\ Len(Argument.chars) \in Nat /\ Len(Tail(chars)) \in Nat
    BY <1>4, <2>1
  <2>3. QED BY <1>4, <2>1, <2>2
<1>7. value \in Values BY <1>3, <1>6, ValueType
<1>8. attached \in BOOLEAN /\ (~attached => value = Following) OBVIOUS
<1> HIDE DEF attached, value
<1>9. QED BY <1>1, <1>2, <1>5, <1>6, <1>7, <1>8, Found, HandleTypes

LEMMA WordTypes == ASSUME ParserInv, Word PROVE ParserInv'
<1>1. /\ at <= Len(argv) /\ Argument.kind = "word" /\ nonops' = nonops + 1 /\ at' = at + 1
      /\ Len(argv) \in Nat
      /\ UNCHANGED <<inputVars, pass, order, rest, statsVars, storeVars, nonOptions>>
  BY ArgvIs DEF Word, ParserInv, CursorInv, Permutes
<1>2. rest' = <<>> BY <1>1 DEF ParserInv, CursorInv
<1>3. CursorInv' BY <1>1, <1>2 DEF ParserInv, CursorInv, Permutes, inputVars
<1>4. QED BY <1>1, <1>3 DEF ParserInv, StoreInv, inputVars, statsVars, storeVars

(* The arguments left over when the list ends.                             *)
LEMMA FinishedTypes ==
  ASSUME ParserInv, rest = <<>>, Permutes(order'),
         NEW position \in 1..(Len(argv) + 1), nonops < position,
         Finished(order', position), UNCHANGED <<inputVars, statsVars, storeVars>>
  PROVE  ParserInv'
<1>1. /\ gnu' = gnu /\ bufmax' = bufmax /\ argv' = argv
      /\ argv \in Seq(Arguments) /\ Len(argv) \in Nat /\ DOMAIN argv = 1..Len(argv)
      /\ at \in 1..(Len(argv) + 1) /\ nonops \in 0..(at - 1)
      /\ buffer_max' = buffer_max /\ options_max' = options_max
      /\ buffer' = buffer /\ options' = options
  BY ArgvIs DEF ParserInv, CursorInv, inputVars, statsVars, storeVars
<1>2. Permutes(order)' BY <1>1 DEF Permutes
<1>3. CASE pass = "count"
  <2>1. pass' = "store" /\ at' = 1 /\ nonops' = 0 /\ rest' = <<>> /\ nonOptions' = nonOptions
    BY <1>3 DEF Finished, StartStore
  <2>2. at' \in 1..(Len(argv') + 1) /\ nonops' \in 0..(at' - 1) BY <1>1, <2>1
  <2>3. rest' \in Seq(STRING) BY <2>1
  <2>4. CursorInv' BY <1>2, <2>1, <2>2, <2>3 DEF CursorInv
  <2>5. QED BY <1>1, <2>1, <2>4 DEF ParserInv, StoreInv
<1>4. CASE pass # "count"
  <2> DEFINE left == SubSeq(order', position - nonops, Len(order'))
  <2>1. /\ pass' = "done" /\ at' = at /\ nonops' = nonops /\ rest' = rest
        /\ nonOptions' = IF left # <<>> THEN left ELSE nonOptions
    BY <1>4 DEF Finished
  <2>2. order' \in Seq(DOMAIN argv) /\ Len(order') = Len(argv)
    <3>1. order' \in [1..Len(argv) -> DOMAIN argv] BY <1>1 DEF Permutes
    <3>2. QED BY <1>1, <3>1
  <2>3. position - nonops \in 1..(Len(order') + 1) BY <1>1, <2>2
  <2>4. left \in Seq(DOMAIN argv)
    <3>1. \A i \in (position - nonops)..Len(order') : order'[i] \in DOMAIN argv
      BY <1>1, <2>2, <2>3
    <3>2. position - nonops \in Int /\ Len(order') \in Int BY <1>1, <2>2
    <3>3. QED BY <3>1, <3>2, SubSeqProperties
  <2> HIDE DEF left
  <2>5. nonOptions' \in Seq(DOMAIN argv') BY <1>1, <2>1, <2>4 DEF ParserInv, StoreInv
  <2>6. CursorInv' BY <1>1, <1>2, <2>1 DEF CursorInv, ParserInv
  <2>7. QED BY <1>1, <2>1, <2>5, <2>6 DEF ParserInv, StoreInv
<1>5. QED BY <1>3, <1>4

LEMMA TerminatorTypes == ASSUME ParserInv, Terminator PROVE ParserInv'
<1>1. /\ at <= Len(argv) /\ rest = <<>> /\ order' = Shift(order, at, nonops)
      /\ Finished(order', at + 1) /\ UNCHANGED <<inputVars, statsVars, storeVars>>
  BY ArgvIs DEF Terminator, ParserInv, CursorInv, Permutes
<1>2. Len(argv) \in Nat /\ at \in 1..Len(argv) /\ nonops \in 0..(at - 1)
  BY <1>1, ArgvIs DEF ParserInv, CursorInv
<1>3. Permutes(order') BY <1>1, <1>2, ArgvIs, ShiftPermutes DEF ParserInv, CursorInv
<1>4. at + 1 \in 1..(Len(argv) + 1) /\ nonops < at + 1 BY <1>2
<1>5. QED BY <1>1, <1>3, <1>4, FinishedTypes

LEMMA EndTypes == ASSUME ParserInv, EndOfOptions PROVE ParserInv'
<1>1. /\ order' = order /\ Finished(order', at) /\ UNCHANGED <<inputVars, statsVars, storeVars>>
      /\ Permutes(order) /\ at \in 1..(Len(argv) + 1) /\ nonops \in 0..(at - 1)
  BY DEF EndOfOptions, ParserInv, CursorInv
<1>2. rest = <<>> BY <1>1, ArgvIs DEF EndOfOptions, ParserInv, CursorInv, Permutes
<1>3. nonops < at /\ Permutes(order') BY <1>1, ArgvIs DEF ParserInv
<1>4. QED BY <1>1, <1>2, <1>3, FinishedTypes

LEMMA InitTypes == Init => ParserInv
<1> SUFFICES ASSUME Init PROVE ParserInv OBVIOUS
<1>1. /\ argv \in Seq(Arguments) /\ gnu \in BOOLEAN /\ bufmax \in Int
      /\ Len(argv) \in Nat /\ DOMAIN argv = 1..Len(argv)
  BY ParseAssumption, ArgvIs DEF Init
<1>2. Permutes(order) BY DEF Init, Permutes
<1>3. CursorInv
  <2>1. at = 1 /\ nonops = 0 /\ rest = <<>> BY DEF Init
  <2>2. at \in 1..(Len(argv) + 1) /\ nonops \in 0..(at - 1) BY <1>1, <2>1
  <2>3. rest \in Seq(STRING) BY <2>1
  <2>4. QED BY <1>2, <2>1, <2>2, <2>3 DEF CursorInv
<1>4. StoreInv BY DEF Init, StoreInv
<1>5. QED BY <1>1, <1>3, <1>4 DEF Init, ParserInv

LEMMA NextTypes == ParserInv /\ [Next]_vars => ParserInv'
<1>1. ASSUME ParserInv, UNCHANGED vars PROVE ParserInv'
  BY <1>1 DEF ParserInv, CursorInv, StoreInv, Permutes, Argument,
     vars, inputVars, cursorVars, statsVars, storeVars
<1>2. QED
  BY <1>1, LongTypes, ShortTypes, WordTypes, TerminatorTypes, EndTypes DEF Next

(* args stays a permutation of the arguments, the cursor in or just behind *)
(* it, and the stored options belong to the descriptors.                   *)
THEOREM ParserTyped == ParserSpec => []ParserTypeOK
<1>1. ParserInv => ParserTypeOK
  <2> SUFFICES ASSUME ParserInv PROVE ParserTypeOK OBVIOUS
  <2>1. Len(argv) \in Nat /\ DOMAIN argv = 1..Len(argv) BY ArgvIs DEF ParserInv
  <2>2. Len(order) = Len(argv) /\ ToSet(order) = DOMAIN argv
    BY <2>1 DEF ParserInv, CursorInv, Permutes, ToSet
  <2>3. options_max \in Nat \ {0, 1}
    <3>1. Max(Indexes) \in Nat BY LargestIndex, DescriptorType DEF Indexes, Descriptors
    <3>2. QED BY <3>1 DEF ParserInv
  <2>4. \A k \in DOMAIN buffer : buffer[k].index \in Indexes
    <3>1. \A o \in Options : o.index \in Indexes BY DEF Options
    <3>2. buffer \in Seq(Options) BY DEF ParserInv, StoreInv
    <3>3. QED BY <3>1, <3>2
  <2>5. ToSet(nonOptions) \subseteq DOMAIN argv BY DEF ParserInv, StoreInv, ToSet
  <2>6. rest = <<>> \/ /\ at <= Len(order) /\ Argument.kind = "short"
                       /\ Len(rest) < Len(Argument.chars)
    BY <2>2 DEF ParserInv, CursorInv
  <2>7. /\ pass \in {"count", "store", "done", "error", "terminated"}
        /\ at \in 1..(Len(argv) + 1) /\ nonops \in 0..(at - 1)
        /\ buffer_max \in Nat \ {0} /\ options \in [Indexes -> {Unset} \cup ToSet(buffer)]
    BY DEF ParserInv, CursorInv, StoreInv
  <2>8. QED BY <2>2, <2>3, <2>4, <2>5, <2>6, <2>7, Zenon DEF ParserTypeOK
<1>2. QED BY <1>1, InitTypes, NextTypes, PTL DEF ParserSpec
-----------------------------------------------------------------------------
(* What a command line means: the recursive functions of CommandLine do    *)
(* what their definitions say.                                             *)

(* A function given by its later values exists, and there is only one.     *)
LooksAhead(m, R, step) ==
  /\ step \in [(1..m) \X [1..m -> R] -> R]
  /\ \A k \in 1..m : \A f, g \in [1..m -> R] :
       (\A l \in (k + 1)..m : f[l] = g[l]) => step[<<k, f>>] = step[<<k, g>>]

Follows(m, f, step) == \A k \in 1..m : f[k] = step[<<k, f>>]

LEMMA Recursion ==
  ASSUME NEW m \in Nat, NEW R, R # {}, NEW step, LooksAhead(m, R, step)
  PROVE  \E f \in [1..m -> R] : Follows(m, f, step)
<1> USE DEF LooksAhead, Follows
<1> DEFINE From(k) == \E f \in [1..m -> R] : \A l \in k..m : f[l] = step[<<l, f>>]
           Bad == {k \in 0..m : ~From(m + 1 - k)}
<1>1. From(m + 1)
  <2>1. PICK r \in R : TRUE OBVIOUS
  <2>2. [l \in 1..m |-> r] \in [1..m -> R] OBVIOUS
  <2>3. \A l \in (m + 1)..m : FALSE OBVIOUS
  <2>4. QED BY <2>2, <2>3
<1>2. ASSUME NEW k \in 1..m, From(k + 1) PROVE From(k)
  <2>1. PICK f \in [1..m -> R] : \A l \in (k + 1)..m : f[l] = step[<<l, f>>] BY <1>2
  <2> DEFINE g == [f EXCEPT ![k] = step[<<k, f>>]]
  <2>2. g \in [1..m -> R] /\ g[k] = step[<<k, f>>]
        /\ \A l \in 1..m : l # k => g[l] = f[l]
    OBVIOUS
  <2> HIDE DEF g
  <2>3. ASSUME NEW l \in k..m PROVE g[l] = step[<<l, g>>]
    <3>1. l \in 1..m /\ \A h \in (l + 1)..m : h \in 1..m /\ h # k OBVIOUS
    <3>2. \A h \in (l + 1)..m : g[h] = f[h] BY <2>2, <3>1
    <3>3. step[<<l, g>>] = step[<<l, f>>] BY <2>2, <3>1, <3>2
    <3>4. g[l] = step[<<l, f>>]
      <4>1. CASE l = k BY <2>2, <4>1
      <4>2. CASE l # k
        <5>1. l \in (k + 1)..m BY <4>2
        <5>2. QED BY <2>1, <2>2, <3>1, <4>2, <5>1
      <4>3. QED BY <4>1, <4>2
    <3>5. QED BY <3>3, <3>4
  <2>4. QED BY <2>2, <2>3
<1> HIDE DEF From
<1>3. Bad = {}
  <2>1. SUFFICES ASSUME Bad # {} PROVE FALSE OBVIOUS
  <2>2. Bad \in SUBSET Nat OBVIOUS
  <2> HIDE DEF Bad
  <2>3. PICK k \in Bad : \A y \in Bad : k <= y BY <2>1, <2>2, Least
  <2>4. k \in 0..m /\ ~From(m + 1 - k) BY <2>3 DEF Bad
  <2>5. k # 0 BY <1>1, <2>4
  <2>6. k - 1 \in 0..m /\ ~(k <= k - 1) /\ m + 1 - (k - 1) = (m + 1 - k) + 1
        /\ m + 1 - k \in 1..m
    BY <2>4, <2>5
  <2>7. k - 1 \notin Bad BY <2>3, <2>6
  <2>8. From((m + 1 - k) + 1) BY <2>6, <2>7 DEF Bad
  <2>9. QED BY <1>2, <2>4, <2>6, <2>8
<1>4. m \in 0..m /\ m + 1 - m = 1 OBVIOUS
<1>5. From(1) BY <1>3, <1>4
<1>6. QED BY <1>5 DEF From

Verdicts == {"NONE", "OK", "IGNORE", "ILLEGAL", "throws"}
Fatal == {"ILLEGAL", "throws"}
OneResult == [options : Seq(Options), took : {0, 1}, verdict : Verdicts]
Result == [options : Seq(Options), words : Seq(Nat), verdict : {"ok"} \cup Fatal]

LEMMA OneOfNone ==
  \A value, attached :
    OneOption({}, value, attached) = [options |-> <<>>, took |-> 0, verdict |-> "NONE"]
BY Zenon DEF OneOption

LEMMA OneOptionIs ==
  ASSUME NEW d, NEW value, NEW attached \in BOOLEAN
  PROVE  OneOption({d}, value, attached) =
              [options |-> IF Check(d, value, attached) \in Fatal THEN <<>>
                           ELSE <<OptionOf(d, Check(d, value, attached), value)>>,
               took    |-> IF Check(d, value, attached) = "OK" /\ ~attached THEN 1 ELSE 0,
               verdict |-> Check(d, value, attached)]
<1>1. (CHOOSE c \in {d} : TRUE) = d OBVIOUS
<1>2. {d} # {} OBVIOUS
<1>3. QED BY <1>1, <1>2, Zenon DEF OneOption, Fatal

LEMMA VerdictIs ==
  ASSUME NEW d, NEW value, NEW attached \in BOOLEAN
  PROVE  OneOption({d}, value, attached).verdict = Check(d, value, attached)
<1> DEFINE c == Check(d, value, attached)
           o == IF c \in Fatal THEN <<>> ELSE <<OptionOf(d, c, value)>>
           t == IF c = "OK" /\ ~attached THEN 1 ELSE 0
<1>1. OneOption({d}, value, attached) = [options |-> o, took |-> t, verdict |-> c]
  BY OneOptionIs
<1> HIDE DEF c, o, t
<1>2. QED BY <1>1 DEF c

(* One option; nothing is taken from behind the command line.              *)
LEMMA OneOptionType ==
  ASSUME NEW found, found = {} \/ \E d \in Descriptors : found = {d},
         NEW value \in Values, NEW attached \in BOOLEAN
  PROVE  /\ OneOption(found, value, attached) \in OneResult
         /\ OneOption(found, value, attached).took = 1 => ~attached /\ value # Null
         /\ OneOption(found, value, attached).verdict \in Fatal =>
              OneOption(found, value, attached).options = <<>>
<1>1. CASE found = {}
  <2>1. OneOption(found, value, attached) = [options |-> <<>>, took |-> 0, verdict |-> "NONE"]
    BY <1>1, OneOfNone
  <2>2. <<>> \in Seq(Options) OBVIOUS
  <2>3. QED BY <2>1, <2>2 DEF OneResult, Verdicts, Fatal
<1>2. ASSUME NEW d \in Descriptors, found = {d}
      PROVE  /\ OneOption(found, value, attached) \in OneResult
             /\ OneOption(found, value, attached).took = 1 => ~attached /\ value # Null
             /\ OneOption(found, value, attached).verdict \in Fatal =>
                  OneOption(found, value, attached).options = <<>>
  <2> DEFINE verdict == Check(d, value, attached)
  <2>1. verdict \in Verdicts /\ (verdict = "OK" /\ ~attached => value # Null)
    BY CheckOfNothing DEF Verdicts
  <2>2. OptionOf(d, verdict, value) \in Options BY OptionType
  <2> DEFINE o == IF verdict \in Fatal THEN <<>> ELSE <<OptionOf(d, verdict, value)>>
             t == IF verdict = "OK" /\ ~attached THEN 1 ELSE 0
  <2>3. o \in Seq(Options) BY <2>2
  <2>4. OneOption(found, value, attached) = [options |-> o, took |-> t, verdict |-> verdict]
    BY <1>2, OneOptionIs
  <2>5. t \in {0, 1} /\ (t = 1 => ~attached /\ value # Null) BY <2>1
  <2>6. verdict \in Fatal => o = <<>> OBVIOUS
  <2> HIDE DEF o, t, verdict
  <2>7. QED BY <2>1, <2>3, <2>4, <2>5, <2>6 DEF OneResult
<1>3. QED BY <1>1, <1>2

(* An option in its place.  Only the last place looks at what follows, and *)
(* then uses it or does not depend on it.                                  *)
OptionArguments == {a \in Arguments : a.kind \in {"long", "short"}}

LEMMA WidthType == \A a \in OptionArguments : Width(a) \in Nat \ {0}
<1> SUFFICES ASSUME NEW a \in OptionArguments PROVE Width(a) \in Nat \ {0} OBVIOUS
<1>1. CASE a.kind = "long" BY <1>1 DEF Width
<1>2. CASE a.kind # "long"
  <2>1. a.chars \in Seq(STRING) /\ a.chars # <<>>
    BY <1>2, ArgumentType DEF OptionArguments
  <2>2. Len(a.chars) \in Nat /\ Len(a.chars) # 0 BY <2>1, EmptySeq
  <2>3. QED BY <1>2, <2>2 DEF Width
<1>3. QED BY <1>1, <1>2

LEMMA SuffixType ==
  ASSUME NEW s \in Seq(STRING), NEW j \in 1..Len(s), j < Len(s)
  PROVE  SubSeq(s, j + 1, Len(s)) \in Seq(STRING) /\ SubSeq(s, j + 1, Len(s)) # <<>>
<1>1. \A i \in (j + 1)..Len(s) : s[i] \in STRING OBVIOUS
<1>2. /\ SubSeq(s, j + 1, Len(s)) \in Seq(STRING)
      /\ Len(SubSeq(s, j + 1, Len(s))) = Len(s) - (j + 1) + 1
  BY <1>1, SubSeqProperties
<1>3. Len(SubSeq(s, j + 1, Len(s))) # 0 BY <1>2
<1>4. QED BY <1>2, <1>3, EmptySeq

LEMMA OptionInType ==
  ASSUME NEW a \in OptionArguments, NEW j \in 1..Width(a), NEW f \in Values
  PROVE  /\ OptionIn(a, j, f) \in OneResult
         /\ OptionIn(a, j, f).took = 1 => j = Width(a) /\ f # Null
         /\ OptionIn(a, j, f).verdict \in Fatal => OptionIn(a, j, f).options = <<>>
         /\ \A g \in Values :
              OptionIn(a, j, f).verdict \notin Fatal /\ OptionIn(a, j, f).took = 0
                => OptionIn(a, j, g) = OptionIn(a, j, f)
<1>1. PICK found \in SUBSET Descriptors, v \in BOOLEAN, fixed \in Values :
        /\ found = {} \/ \E d \in Descriptors : found = {d}
        /\ j < Width(a) => v
        /\ \A g \in Values : OptionIn(a, j, g) = OneOption(found, IF v THEN fixed ELSE g, v)
  <2>1. CASE a.kind = "long"
    <3> DEFINE v == a.value # Null
               found == LongDescriptor(a.name)
               fixed == a.value
    <3>1. Width(a) = 1 /\ ~(j < Width(a)) BY <2>1 DEF Width
    <3>2. fixed \in Values BY <2>1, ArgumentType DEF OptionArguments, Values
    <3>3. found = {} \/ \E d \in Descriptors : found = {d} BY Found
    <3>4. \A g \in Values : OptionIn(a, j, g) = OneOption(found, IF v THEN fixed ELSE g, v)
      BY <2>1 DEF OptionIn
    <3>5. v \in BOOLEAN OBVIOUS
    <3>6. found \in SUBSET Descriptors BY <3>3
    <3> HIDE DEF v, found, fixed
    <3>7. QED BY <3>1, <3>2, <3>3, <3>4, <3>5, <3>6
  <2>2. CASE a.kind = "short"
    <3> DEFINE n == Len(a.chars)
               v == j < n
               found == ShortDescriptor(a.chars[j])
               fixed == IF v THEN AttachedValue(SubSeq(a.chars, j + 1, n)) ELSE Null
    <3>0. a.kind # "long" BY <2>2
    <3>1. Width(a) = n /\ a.chars \in Seq(STRING)
      BY <2>2, <3>0, ArgumentType DEF Width, OptionArguments
    <3>2. fixed \in Values
      <4>1. CASE v BY <3>1, <4>1, SuffixType, ValueType
      <4>2. CASE ~v BY <4>2 DEF Values
      <4>3. QED BY <4>1, <4>2
    <3>3. found = {} \/ \E d \in Descriptors : found = {d} BY Found
    <3>4. \A g \in Values : OptionIn(a, j, g) = OneOption(found, IF v THEN fixed ELSE g, v)
      BY <3>0 DEF OptionIn
    <3>5. v \in BOOLEAN /\ (j < Width(a) => v) BY <3>1
    <3>6. found \in SUBSET Descriptors BY <3>3
    <3> HIDE DEF v, found, fixed
    <3>7. QED BY <3>2, <3>3, <3>4, <3>5, <3>6
  <2>3. QED BY <2>1, <2>2 DEF OptionArguments
<1>2. \A g \in Values : (IF v THEN fixed ELSE g) \in Values OBVIOUS
<1>3. OptionIn(a, j, f) \in OneResult BY <1>1, <1>2, OneOptionType
<1>4. OptionIn(a, j, f).took = 1 => ~v /\ f # Null BY <1>1, <1>2, OneOptionType
<1>5. OptionIn(a, j, f).took = 1 => j = Width(a) /\ f # Null
  BY <1>1, <1>4, WidthType
<1>6. ASSUME NEW g \in Values,
             OptionIn(a, j, f).verdict \notin Fatal, OptionIn(a, j, f).took = 0
      PROVE  OptionIn(a, j, g) = OptionIn(a, j, f)
  <2>1. CASE v BY <1>1, <2>1
  <2>2. CASE found = {} BY <1>1, <2>2, OneOfNone
  <2>3. ASSUME ~v, NEW d \in Descriptors, found = {d}
        PROVE  OptionIn(a, j, g) = OptionIn(a, j, f)
    <3>1. /\ OptionIn(a, j, f) = OneOption({d}, f, FALSE)
          /\ OptionIn(a, j, g) = OneOption({d}, g, FALSE)
      BY <1>1, <2>3
    <3> DEFINE r(c, o) == [options |-> IF c \in Fatal THEN <<>> ELSE <<o>>,
                           took |-> IF c = "OK" /\ ~FALSE THEN 1 ELSE 0, verdict |-> c]
    <3>7. \A x : OneOption({d}, x, FALSE)
                   = r(Check(d, x, FALSE), OptionOf(d, Check(d, x, FALSE), x))
      BY OneOptionIs
    <3> DEFINE c == Check(d, f, FALSE)
               one == OptionIn(a, j, f)
    <3>8. one = r(c, OptionOf(d, c, f)) BY <3>1, <3>7
    <3>9. one.verdict \notin Fatal /\ one.took = 0 BY <1>6
    <3>2. c \notin Fatal /\ c # "OK"
      <4> DEFINE o == OptionOf(d, c, f)
      <4>1. one = r(c, o) BY <3>8
      <4> HIDE DEF o, c, one
      <4>2. one.verdict = c /\ (c = "OK" => one.took = 1) BY <4>1
      <4>3. QED BY <3>9, <4>2
    <3> HIDE DEF r
    <3>3. d.check \in {"None", "Optional"}
      <4>1. d.check \in Checks BY DescriptorType
      <4>2. QED BY <3>2, <4>1 DEF Check, Checks, Fatal
    <3>4. Check(d, g, FALSE) = Check(d, f, FALSE) BY <3>3 DEF Check
    <3>5. OptionOf(d, Check(d, g, FALSE), g) = OptionOf(d, Check(d, f, FALSE), f)
      BY <3>2, <3>4 DEF OptionOf
    <3>6. QED BY <3>1, <3>4, <3>5, <3>7
  <2>4. QED BY <1>1, <2>1, <2>2, <2>3
<1>7. OptionIn(a, j, f).verdict \in Fatal => OptionIn(a, j, f).options = <<>>
  BY <1>1, <1>2, OneOptionType
<1>8. QED BY <1>3, <1>5, <1>6, <1>7

(* The two kinds of steps of ReadOption. *)
LEMMA ReadOptionIs ==
  ASSUME NEW a \in OptionArguments, NEW j \in 1..Width(a), NEW f \in Values,
         NEW later \in [1..Width(a) -> OneResult]
  PROVE  LET one == OptionIn(a, j, f)
         IN IF j = Width(a) \/ one.verdict \in {"OK"} \cup Fatal
            THEN ReadOption(a, f, j, later) = one
            ELSE /\ j + 1 \in 1..Width(a)
                 /\ ReadOption(a, f, j, later) =
                      [options |-> one.options \o later[j + 1].options,
                       took |-> later[j + 1].took, verdict |-> later[j + 1].verdict]
<1> DEFINE one == OptionIn(a, j, f)
           last_ == j = Width(a) \/ one.verdict \in {"OK"} \cup Fatal
<1>1. CASE last_ BY <1>1 DEF ReadOption, Fatal
<1>2. CASE ~last_
  <2>1. j + 1 \in 1..Width(a) BY <1>2, WidthType
  <2>2. later[j + 1] \in OneResult BY <2>1
  <2>3. ReadOption(a, f, j, later) = [later[j + 1] EXCEPT !.options = one.options \o @]
    BY <1>2 DEF ReadOption, Fatal
  <2> DEFINE r == later[j + 1]
             o == one.options
  <2>4. \A x \in OneResult : [x EXCEPT !.options = o \o @] =
          [options |-> o \o x.options, took |-> x.took, verdict |-> x.verdict]
    <3>1. \A x \in OneResult : \A y : [x EXCEPT !.options = y] =
            [options |-> y, took |-> x.took, verdict |-> x.verdict]
      BY DEF OneResult
    <3>2. QED BY <3>1
  <2>5. QED BY <1>2, <2>1, <2>2, <2>3, <2>4
<1>3. QED BY <1>1, <1>2

LEMMA ReadOptionType ==
  ASSUME NEW a \in OptionArguments, NEW j \in 1..Width(a), NEW f \in Values,
         NEW later \in [1..Width(a) -> {r \in OneResult : r.took = 1 => f # Null}]
  PROVE  ReadOption(a, f, j, later) \in {r \in OneResult : r.took = 1 => f # Null}
<1> DEFINE one == OptionIn(a, j, f)
           R == {r \in OneResult : r.took = 1 => f # Null}
<1>1. one \in OneResult /\ (one.took = 1 => f # Null) BY OptionInType
<1>2. later \in [1..Width(a) -> OneResult] OBVIOUS
<1>3. CASE j = Width(a) \/ one.verdict \in {"OK"} \cup Fatal
  <2>1. ReadOption(a, f, j, later) = one BY <1>2, <1>3, ReadOptionIs
  <2>2. QED BY <1>1, <2>1
<1>4. CASE ~(j = Width(a) \/ one.verdict \in {"OK"} \cup Fatal)
  <2> DEFINE r == later[j + 1]
  <2>1. j + 1 \in 1..Width(a)
        /\ ReadOption(a, f, j, later) = [options |-> one.options \o r.options,
                                         took |-> r.took, verdict |-> r.verdict]
    BY <1>2, <1>4, ReadOptionIs
  <2>2. r \in OneResult /\ (r.took = 1 => f # Null) BY <2>1
  <2> DEFINE o == one.options \o r.options
  <2>3. o \in Seq(Options) BY <1>1, <2>2 DEF OneResult
  <2> HIDE DEF one, r, o
  <2>4. r.took \in {0, 1} /\ r.verdict \in Verdicts BY <2>2 DEF OneResult
  <2>5. [options |-> o, took |-> r.took, verdict |-> r.verdict] \in OneResult
    BY <2>3, <2>4 DEF OneResult
  <2>6. ReadOption(a, f, j, later) = [options |-> o, took |-> r.took, verdict |-> r.verdict]
    BY <2>1 DEF o
  <2>7. QED BY <2>2, <2>5, <2>6
<1>5. QED BY <1>3, <1>4

LEMMA ReadOptionLater ==
  ASSUME NEW a, NEW j, NEW f, NEW g, NEW h, j # Width(a) => g[j + 1] = h[j + 1]
  PROVE  ReadOption(a, f, j, g) = ReadOption(a, f, j, h)
BY DEF ReadOption

AgreeAhead(m, f, g) ==
  /\ f = [i \in 1..m |-> f[i]] /\ g = [i \in 1..m |-> g[i]]
  /\ \A k \in 1..m : (\A l \in (k + 1)..m : f[l] = g[l]) => f[k] = g[k]

LEMMA SameFunctions == ASSUME NEW m \in Nat, NEW f, NEW g, AgreeAhead(m, f, g) PROVE f = g
<1> USE DEF AgreeAhead
<1> DEFINE Bad == {k \in 0..m : k < m /\ f[m - k] # g[m - k]}
<1>1. Bad = {}
  <2>1. SUFFICES ASSUME Bad # {} PROVE FALSE OBVIOUS
  <2>2. Bad \in SUBSET Nat OBVIOUS
  <2> HIDE DEF Bad
  <2>3. PICK k \in Bad : \A y \in Bad : k <= y BY <2>1, <2>2, Least
  <2>4. k \in 0..m /\ k < m /\ f[m - k] # g[m - k] BY <2>3 DEF Bad
  <2>5. m - k \in 1..m BY <2>4
  <2>6. ASSUME NEW l \in ((m - k) + 1)..m PROVE f[l] = g[l]
    <3>0. k \in Nat /\ l \in Nat /\ l >= 1 /\ l <= m /\ l + k > m BY <2>4
    <3>1. m - l \in 0..m /\ m - l < m /\ ~(k <= m - l) /\ m - (m - l) = l BY <3>0
    <3>2. m - l \notin Bad BY <2>3, <3>1
    <3>3. QED BY <3>1, <3>2 DEF Bad
  <2>7. QED BY <2>4, <2>5, <2>6
<1>2. \A i \in 1..m : f[i] = g[i]
  <2> SUFFICES ASSUME NEW i \in 1..m PROVE f[i] = g[i] OBVIOUS
  <2>1. m - i \in 0..m /\ m - i < m /\ m - (m - i) = i OBVIOUS
  <2>2. m - i \notin Bad BY <1>1
  <2>3. QED BY <2>1, <2>2
<1>3. QED BY <1>2

(* What an argument gives is what its definition says. *)
LEMMA ArgumentOptionsAre ==
  ASSUME NEW a \in OptionArguments, NEW f \in Values
  PROVE  /\ ArgumentOptions(a, f)
              \in [1..Width(a) -> {r \in OneResult : r.took = 1 => f # Null}]
         /\ \A j \in 1..Width(a) :
              ArgumentOptions(a, f)[j] = ReadOption(a, f, j, ArgumentOptions(a, f))
<1> DEFINE m == Width(a)
           R == {r \in OneResult : r.took = 1 => f # Null}
           step == [p \in (1..m) \X [1..m -> R] |-> ReadOption(a, f, p[1], p[2])]
           from == CHOOSE g : g = [j \in 1..m |-> ReadOption(a, f, j, g)]
<1>0. m \in Nat BY WidthType
<1>1. ASSUME NEW j \in 1..m, NEW g \in [1..m -> R] PROVE ReadOption(a, f, j, g) \in R
  BY ReadOptionType
<1>2. step \in [(1..m) \X [1..m -> R] -> R] BY <1>1
<1>3. \A j \in 1..m, g \in [1..m -> R] : step[<<j, g>>] = ReadOption(a, f, j, g) OBVIOUS
<1>4. R # {}
  <2>1. <<>> \in Seq(Options) OBVIOUS
  <2>2. [options |-> <<>>, took |-> 0, verdict |-> "NONE"] \in OneResult
    BY <2>1 DEF OneResult, Verdicts
  <2>3. QED BY <2>2
<1>5. ASSUME NEW j \in 1..m, NEW g \in [1..m -> R], NEW h \in [1..m -> R],
             \A l \in (j + 1)..m : g[l] = h[l]
      PROVE  step[<<j, g>>] = step[<<j, h>>]
  <2>1. j # m => j + 1 \in (j + 1)..m BY <1>0
  <2>2. ReadOption(a, f, j, g) = ReadOption(a, f, j, h) BY <1>5, <2>1, ReadOptionLater
  <2>3. QED BY <1>3, <2>2
<1> HIDE DEF step, m, R
<1>6. PICK g \in [1..m -> R] : Follows(m, g, step)
  <2>1. LooksAhead(m, R, step) BY <1>2, <1>5 DEF LooksAhead
  <2>2. QED BY <1>0, <1>4, <2>1, Recursion
<1>7. \A j \in 1..m : g[j] = ReadOption(a, f, j, g) BY <1>3, <1>6 DEF Follows
<1>8. g = [j \in 1..m |-> ReadOption(a, f, j, g)] BY <1>6, <1>7
<1>9. from = [j \in 1..m |-> ReadOption(a, f, j, from)] BY <1>8, Zenon
<1>10. ArgumentOptions(a, f) = from BY Zenon DEF ArgumentOptions, m
<1> HIDE DEF from
<1>11. /\ DOMAIN from = 1..m /\ \A j \in 1..m : from[j] = ReadOption(a, f, j, from)
       /\ from = [j \in 1..m |-> from[j]]
  BY <1>9
<1>12. from = g
  <2>1. ASSUME NEW k \in 1..m, \A l \in (k + 1)..m : from[l] = g[l] PROVE from[k] = g[k]
    <3>1. k # m => k + 1 \in (k + 1)..m BY <1>0
    <3>2. ReadOption(a, f, k, from) = ReadOption(a, f, k, g)
      BY <2>1, <3>1, ReadOptionLater DEF m
    <3>3. QED BY <1>7, <1>11, <3>2
  <2>2. g = [j \in 1..m |-> g[j]] BY <1>6
  <2>3. AgreeAhead(m, from, g) BY <1>11, <2>1, <2>2 DEF AgreeAhead
  <2>4. QED BY <1>0, <2>3, SameFunctions
<1>13. QED BY <1>6, <1>7, <1>10, <1>12 DEF m, R

(* From one place of an argument to the next. *)
LEMMA PlaceGives ==
  ASSUME NEW a \in OptionArguments, NEW f \in Values, NEW j \in 1..Width(a)
  PROVE  LET one == OptionIn(a, j, f)
             given == ArgumentOptions(a, f)
         IN /\ given[j] \in OneResult /\ (given[j].took = 1 => f # Null)
            /\ j = Width(a) \/ one.verdict \in {"OK"} \cup Fatal => given[j] = one
            /\ ~(j = Width(a) \/ one.verdict \in {"OK"} \cup Fatal) =>
                 /\ j + 1 \in 1..Width(a)
                 /\ given[j].options = one.options \o given[j + 1].options
                 /\ given[j].took = given[j + 1].took /\ given[j].verdict = given[j + 1].verdict
<1> DEFINE given == ArgumentOptions(a, f)
           one == OptionIn(a, j, f)
<1>1. given \in [1..Width(a) -> OneResult] /\ given[j] = ReadOption(a, f, j, given)
      /\ (given[j].took = 1 => f # Null)
  BY ArgumentOptionsAre
<1> HIDE DEF given
<1>2. given[j] \in OneResult BY <1>1
<1>3. CASE j = Width(a) \/ one.verdict \in {"OK"} \cup Fatal
  <2>1. given[j] = one BY <1>1, <1>3, ReadOptionIs
  <2>2. QED BY <1>1, <1>2, <1>3, <2>1 DEF given
<1>4. CASE ~(j = Width(a) \/ one.verdict \in {"OK"} \cup Fatal)
  <2>1. j + 1 \in 1..Width(a)
        /\ given[j] = [options |-> one.options \o given[j + 1].options,
                       took |-> given[j + 1].took, verdict |-> given[j + 1].verdict]
    BY <1>1, <1>4, ReadOptionIs
  <2>2. /\ given[j].options = one.options \o given[j + 1].options
        /\ given[j].took = given[j + 1].took /\ given[j].verdict = given[j + 1].verdict
    <3> DEFINE o == one.options \o given[j + 1].options
    <3>1. given[j] = [options |-> o, took |-> given[j + 1].took,
                      verdict |-> given[j + 1].verdict]
      BY <2>1
    <3> HIDE DEF o
    <3>2. given[j].options = o /\ given[j].took = given[j + 1].took
          /\ given[j].verdict = given[j + 1].verdict
      BY <3>1
    <3>3. QED BY <3>2 DEF o
  <2>3. QED BY <1>1, <1>2, <1>4, <2>1, <2>2 DEF given
<1>5. QED BY <1>3, <1>4

(* The arguments of a command line. *)
LEMMA FollowingType ==
  ASSUME NEW args \in Seq(Arguments), NEW i \in 1..Len(args)
  PROVE  FollowingAt(args, i) \in Values /\ (FollowingAt(args, i) # Null => i < Len(args))
<1>1. CASE i < Len(args)
  <2>1. args[i + 1] \in Arguments BY <1>1
  <2>2. QED BY <1>1, <2>1, ValueType DEF FollowingAt
<1>2. CASE ~(i < Len(args)) BY <1>2 DEF FollowingAt, Values
<1>3. QED BY <1>1, <1>2

LEMMA WordsType ==
  ASSUME NEW args \in Seq(Arguments), NEW i \in 1..(Len(args) + 1)
  PROVE  WordsFrom(args, i) \in Result
<1>1. [k \in 1..(Len(args) + 1 - i) |-> i + k - 1] \in Seq(Nat)
  <2>1. Len(args) + 1 - i \in Nat OBVIOUS
  <2>2. \A k \in 1..(Len(args) + 1 - i) : i + k - 1 \in Nat OBVIOUS
  <2>3. QED BY <2>1, <2>2
<1>2. <<>> \in Seq(Options) OBVIOUS
<1>3. QED BY <1>1, <1>2 DEF WordsFrom, Result

(* What an option argument of the command line gives. *)
Here(args, i) == ArgumentOptions(args[i], FollowingAt(args, i))[1]

LEMMA HereType ==
  ASSUME NEW args \in Seq(Arguments), NEW i \in 1..Len(args), args[i] \in OptionArguments
  PROVE  /\ Here(args, i) \in OneResult /\ Here(args, i).took \in {0, 1}
         /\ i + 1 + Here(args, i).took \in (i + 1)..(Len(args) + 1)
<1>1. FollowingAt(args, i) \in Values /\ (FollowingAt(args, i) # Null => i < Len(args))
  BY FollowingType
<1>2. 1 \in 1..Width(args[i]) BY WidthType
<1>3. Here(args, i) \in OneResult /\ (Here(args, i).took = 1 => i < Len(args))
  BY <1>1, <1>2, PlaceGives DEF Here
<1>4. Here(args, i).took \in {0, 1} BY <1>3 DEF OneResult
<1>5. Len(args) \in Nat OBVIOUS
<1>6. QED BY <1>3, <1>4, <1>5

LEMMA ExceptOptions ==
  \A x \in Result : \A y :
    [x EXCEPT !.options = y] = [options |-> y, words |-> x.words, verdict |-> x.verdict]
BY DEF Result

LEMMA ExceptWords ==
  \A x \in Result : \A y :
    [x EXCEPT !.words = y] = [options |-> x.options, words |-> y, verdict |-> x.verdict]
BY DEF Result

(* The kinds of steps of ReadArgument, and what they look at. *)
LEMMA ReadArgumentIs ==
  ASSUME NEW g \in BOOLEAN, NEW args \in Seq(Arguments), NEW i \in 1..(Len(args) + 1),
         NEW later \in [1..(Len(args) + 1) -> Result]
  PROVE  LET read == ReadArgument(g, args, i, later)
             k == i + 1 + Here(args, i).took
         IN /\ i = Len(args) + 1 => read = WordsFrom(args, i)
            /\ i <= Len(args) =>
                 /\ args[i].kind = "terminator" => read = WordsFrom(args, i + 1)
                 /\ args[i].kind = "word" =>
                      read = IF g THEN [options |-> later[i + 1].options,
                                        words   |-> <<i>> \o later[i + 1].words,
                                        verdict |-> later[i + 1].verdict]
                             ELSE WordsFrom(args, i)
                 /\ args[i] \in OptionArguments =>
                      read = IF Here(args, i).verdict \in Fatal
                             THEN [options |-> Here(args, i).options, words |-> <<>>,
                                   verdict |-> Here(args, i).verdict]
                             ELSE [options |-> Here(args, i).options \o later[k].options,
                                   words   |-> later[k].words, verdict |-> later[k].verdict]
<1> DEFINE read == ReadArgument(g, args, i, later)
           k == i + 1 + Here(args, i).took
<1>1. i = Len(args) + 1 => read = WordsFrom(args, i) BY DEF ReadArgument
<1>2. ASSUME i <= Len(args), args[i].kind = "terminator" PROVE read = WordsFrom(args, i + 1)
  BY <1>2 DEF ReadArgument
<1>3. ASSUME i <= Len(args), args[i].kind = "word"
      PROVE  read = IF g THEN [options |-> later[i + 1].options,
                               words   |-> <<i>> \o later[i + 1].words,
                               verdict |-> later[i + 1].verdict]
                    ELSE WordsFrom(args, i)
  <2>1. read = IF g THEN [later[i + 1] EXCEPT !.words = <<i>> \o @] ELSE WordsFrom(args, i)
    BY <1>3 DEF ReadArgument
  <2>2. later[i + 1] \in Result BY <1>3
  <2>3. [later[i + 1] EXCEPT !.words = <<i>> \o @] =
          [options |-> later[i + 1].options, words |-> <<i>> \o later[i + 1].words,
           verdict |-> later[i + 1].verdict]
    BY <2>2, ExceptWords
  <2>4. QED BY <2>1, <2>3
<1>4. ASSUME i <= Len(args), args[i] \in OptionArguments
      PROVE  read = IF Here(args, i).verdict \in Fatal
                    THEN [options |-> Here(args, i).options, words |-> <<>>,
                          verdict |-> Here(args, i).verdict]
                    ELSE [options |-> Here(args, i).options \o later[k].options,
                          words   |-> later[k].words, verdict |-> later[k].verdict]
  <2> DEFINE here == Here(args, i)
  <2>1. i # Len(args) + 1 /\ args[i].kind \notin {"terminator", "word"}
    BY <1>4 DEF OptionArguments
  <2>2. read = IF here.verdict \in Fatal
               THEN [options |-> here.options, words |-> <<>>, verdict |-> here.verdict]
               ELSE [later[k] EXCEPT !.options = here.options \o @]
    BY <2>1 DEF ReadArgument, Here, Fatal
  <2>3. later[k] \in Result BY <1>4, HereType
  <2>4. [later[k] EXCEPT !.options = here.options \o @] =
          [options |-> here.options \o later[k].options, words |-> later[k].words,
           verdict |-> later[k].verdict]
    BY <2>3, ExceptOptions
  <2>5. QED BY <2>2, <2>4
<1>5. QED BY <1>1, <1>2, <1>3, <1>4

LEMMA ArgumentKinds ==
  ASSUME NEW args \in Seq(Arguments), NEW i \in 1..Len(args)
  PROVE  args[i].kind \in {"terminator", "word"} \/ args[i] \in OptionArguments
<1>1. args[i] \in Arguments OBVIOUS
<1>2. QED BY <1>1, ArgumentType DEF OptionArguments

LEMMA ReadArgumentLater ==
  ASSUME NEW g \in BOOLEAN, NEW args \in Seq(Arguments), NEW i \in 1..(Len(args) + 1),
         NEW f, NEW h, \A l \in (i + 1)..(Len(args) + 1) : f[l] = h[l]
  PROVE  ReadArgument(g, args, i, f) = ReadArgument(g, args, i, h)
<1>1. CASE i = Len(args) + 1 BY <1>1 DEF ReadArgument
<1>2. CASE i # Len(args) + 1 /\ args[i].kind \in {"terminator", "word"}
  <2>1. i + 1 \in (i + 1)..(Len(args) + 1) BY <1>2
  <2>2. f[i + 1] = h[i + 1] BY <2>1
  <2>3. QED BY <1>2, <2>2 DEF ReadArgument
<1>3. CASE i # Len(args) + 1 /\ args[i].kind \notin {"terminator", "word"}
  <2> DEFINE k == i + 1 + Here(args, i).took
  <2>1. i \in 1..Len(args) BY <1>3
  <2>2. k \in (i + 1)..(Len(args) + 1) BY <1>3, <2>1, ArgumentKinds, HereType
  <2>3. f[k] = h[k] BY <2>2
  <2>4. QED BY <1>3, <2>3 DEF ReadArgument, Here
<1>4. QED BY <1>1, <1>2, <1>3

LEMMA ReadArgumentType ==
  ASSUME NEW g \in BOOLEAN, NEW args \in Seq(Arguments), NEW i \in 1..(Len(args) + 1),
         NEW later \in [1..(Len(args) + 1) -> Result]
  PROVE  ReadArgument(g, args, i, later) \in Result
<1> DEFINE read == ReadArgument(g, args, i, later)
<1>0. Len(args) \in Nat OBVIOUS
<1>1. CASE i = Len(args) + 1
  <2>1. read = WordsFrom(args, i) BY <1>1 DEF ReadArgument
  <2>2. QED BY <2>1, WordsType
<1>2. CASE i <= Len(args) /\ args[i].kind = "terminator"
  <2>1. i + 1 \in 1..(Len(args) + 1) BY <1>2
  <2>2. read = WordsFrom(args, i + 1) BY <1>2 DEF ReadArgument
  <2>3. QED BY <2>1, <2>2, WordsType
<1>3. CASE i <= Len(args) /\ args[i].kind = "word"
  <2>1. CASE ~g
    <3>1. read = WordsFrom(args, i) BY <1>3, <2>1 DEF ReadArgument
    <3>2. QED BY <3>1, WordsType
  <2>2. CASE g
    <3> DEFINE r == later[i + 1]
               w == <<i>> \o r.words
    <3>1. r \in Result BY <1>3
    <3>2. read = [options |-> r.options, words |-> w, verdict |-> r.verdict]
      <4>1. read = [r EXCEPT !.words = <<i>> \o @] BY <1>3, <2>2 DEF ReadArgument
      <4>2. QED BY <3>1, <4>1, ExceptWords
    <3>3. r.options \in Seq(Options) /\ r.words \in Seq(Nat) /\ r.verdict \in {"ok"} \cup Fatal
      BY <3>1 DEF Result
    <3>4. w \in Seq(Nat)
      <4>1. <<i>> \in Seq(Nat) OBVIOUS
      <4>2. QED BY <3>3, <4>1, ConcatProperties
    <3> HIDE DEF r, w
    <3>5. QED BY <3>2, <3>3, <3>4 DEF Result
  <2>3. QED BY <2>1, <2>2
<1>4. CASE i <= Len(args) /\ args[i] \in OptionArguments
  <2> DEFINE here == Here(args, i)
             r == later[i + 1 + here.took]
             o == here.options \o r.options
  <2>1. here \in OneResult /\ r \in Result BY <1>4, HereType
  <2>2. /\ here.options \in Seq(Options) /\ r.options \in Seq(Options) /\ r.words \in Seq(Nat)
        /\ r.verdict \in {"ok"} \cup Fatal
    BY <2>1 DEF OneResult, Result
  <2>3. o \in Seq(Options) /\ <<>> \in Seq(Nat) BY <2>2, ConcatProperties
  <2>4. read = IF here.verdict \in Fatal
               THEN [options |-> here.options, words |-> <<>>, verdict |-> here.verdict]
               ELSE [options |-> o, words |-> r.words, verdict |-> r.verdict]
    BY <1>4, ReadArgumentIs
  <2> HIDE DEF here, r, o
  <2>5. QED BY <2>2, <2>3, <2>4 DEF Result
<1>5. QED BY <1>0, <1>1, <1>2, <1>3, <1>4, ArgumentKinds

(* What a command line means is what its definition says. *)
LEMMA MeaningsAre ==
  ASSUME NEW g \in BOOLEAN, NEW args \in Seq(Arguments)
  PROVE  /\ Meanings(g, args) \in [1..(Len(args) + 1) -> Result]
         /\ \A i \in 1..(Len(args) + 1) :
              Meanings(g, args)[i] = ReadArgument(g, args, i, Meanings(g, args))
<1> DEFINE m == Len(args) + 1
           step == [p \in (1..m) \X [1..m -> Result] |-> ReadArgument(g, args, p[1], p[2])]
           from == CHOOSE f : f = [i \in 1..m |-> ReadArgument(g, args, i, f)]
<1>0. m \in Nat OBVIOUS
<1>1. ASSUME NEW i \in 1..m, NEW f \in [1..m -> Result]
      PROVE  ReadArgument(g, args, i, f) \in Result
  BY ReadArgumentType
<1>2. step \in [(1..m) \X [1..m -> Result] -> Result] BY <1>1
<1>3. \A i \in 1..m, f \in [1..m -> Result] : step[<<i, f>>] = ReadArgument(g, args, i, f)
  OBVIOUS
<1>4. Result # {}
  <2>1. WordsFrom(args, 1) \in Result BY WordsType
  <2>2. QED BY <2>1
<1>5. ASSUME NEW i \in 1..m, NEW f \in [1..m -> Result], NEW h \in [1..m -> Result],
             \A l \in (i + 1)..m : f[l] = h[l]
      PROVE  step[<<i, f>>] = step[<<i, h>>]
  <2>1. ReadArgument(g, args, i, f) = ReadArgument(g, args, i, h) BY <1>5, ReadArgumentLater
  <2>2. QED BY <1>3, <2>1
<1> HIDE DEF step
<1>6. PICK f \in [1..m -> Result] : Follows(m, f, step)
  <2>1. LooksAhead(m, Result, step) BY <1>2, <1>5 DEF LooksAhead
  <2> HIDE DEF m
  <2>2. QED BY <1>0, <1>4, <2>1, Recursion
<1>7. \A i \in 1..m : f[i] = ReadArgument(g, args, i, f) BY <1>3, <1>6 DEF Follows
<1>8. f = [i \in 1..m |-> ReadArgument(g, args, i, f)] BY <1>6, <1>7
<1>9. from = [i \in 1..m |-> ReadArgument(g, args, i, from)] BY <1>8, Zenon
<1>10. Meanings(g, args) = from BY Zenon DEF Meanings
<1> HIDE DEF from
<1>11. /\ \A i \in 1..m : from[i] = ReadArgument(g, args, i, from)
       /\ from = [i \in 1..m |-> from[i]]
  BY <1>9
<1>12. from = f
  <2>1. ASSUME NEW k \in 1..m, \A l \in (k + 1)..m : from[l] = f[l] PROVE from[k] = f[k]
    <3>1. ReadArgument(g, args, k, from) = ReadArgument(g, args, k, f)
      BY <2>1, ReadArgumentLater
    <3>2. QED BY <1>7, <1>11, <3>1
  <2>2. f = [i \in 1..m |-> f[i]] BY <1>6
  <2>3. AgreeAhead(m, from, f) BY <1>11, <2>1, <2>2 DEF AgreeAhead
  <2> HIDE DEF m
  <2>4. QED BY <1>0, <2>3, SameFunctions
<1>13. QED BY <1>6, <1>7, <1>10, <1>12

-----------------------------------------------------------------------------
(* The steps of the parser, in the terms of what the command line means. *)

(* The place in its argument of the option to read next. *)
Place == IF rest = <<>> THEN 1 ELSE Width(Argument) + 1 - Len(rest)

(* The rest of a group is the end of its argument. *)
RestInv ==
  rest # <<>> => \A k \in 1..Len(rest) : rest[k] = Argument.chars[Place - 1 + k]

(* What Handle does with an option, and where it moves to. *)
Handles(one) ==
  \/ /\ one.verdict = "throws" /\ pass' = "terminated"
     /\ UNCHANGED <<cursorVars, statsVars, storeVars, nonOptions>>
  \/ /\ one.verdict = "ILLEGAL"
     /\ IF pass = "count" THEN StartStore ELSE pass' = "error" /\ UNCHANGED <<at, nonops, rest>>
     /\ UNCHANGED <<order, statsVars, storeVars, nonOptions>>
  \/ /\ one.verdict \notin Fatal /\ UNCHANGED <<pass, nonops, nonOptions>>
     /\ \/ one.options = <<>> /\ UNCHANGED <<statsVars, storeVars>>
        \/ \E o \in Options : one.options = <<o>> /\ Perform(o)
     /\ IF one.verdict = "OK" \/ Place = Width(Argument) THEN Advance(<<>>, one.took)
        ELSE order' = order /\ at' = at /\ rest' # <<>> /\ Place' = Place + 1 /\ RestInv'

LEMMA PlaceType ==
  ASSUME ParserInv, at <= Len(argv), Argument \in OptionArguments
  PROVE  /\ Place \in 1..Width(Argument)
         /\ rest # <<>> => Argument.kind = "short" /\ Place > 1
<1>1. Width(Argument) \in Nat \ {0} BY WidthType
<1>2. CASE rest = <<>> BY <1>1, <1>2 DEF Place
<1>3. CASE rest # <<>>
  <2>1. /\ rest \in Seq(STRING) /\ Argument.kind = "short" /\ Len(rest) < Len(Argument.chars)
    BY <1>3 DEF ParserInv, CursorInv
  <2>2. Width(Argument) = Len(Argument.chars) BY <2>1 DEF Width
  <2>3. Len(rest) \in Nat /\ Len(rest) # 0 BY <1>3, <2>1, EmptySeq
  <2>4. QED BY <1>1, <1>3, <2>1, <2>2, <2>3 DEF Place
<1>4. QED BY <1>2, <1>3

(* From Handle to Handles. *)
LEMMA HandleHandles ==
  ASSUME ParserInv, at <= Len(argv), Argument \in OptionArguments,
         NEW found, found = {} \/ \E d \in Descriptors : found = {d},
         NEW value \in Values, NEW attached \in BOOLEAN, NEW group,
         Handle(found, value, attached, group),
         NEW one, one = OneOption(found, value, attached),
         group = <<>> <=> Place = Width(Argument),
         group # <<>> /\ order' = order /\ at' = at /\ rest' = group
           => Place' = Place + 1 /\ RestInv'
  PROVE  Handles(one)
<1>1. ASSUME NEW took, Advance(group, took), group # <<>>
      PROVE  order' = order /\ at' = at /\ rest' # <<>> /\ Place' = Place + 1 /\ RestInv'
  BY <1>1 DEF Advance
<1>2. CASE /\ found = {} /\ Advance(group, 0)
           /\ UNCHANGED <<pass, nonops, statsVars, storeVars, nonOptions>>
  <2>1. one = [options |-> <<>>, took |-> 0, verdict |-> "NONE"] BY <1>2, OneOfNone
  <2>2. one.verdict = "NONE" /\ one.options = <<>> /\ one.took = 0 BY <2>1
  <2>3. IF Place = Width(Argument) THEN Advance(<<>>, one.took)
        ELSE order' = order /\ at' = at /\ rest' # <<>> /\ Place' = Place + 1 /\ RestInv'
    BY <1>1, <1>2, <2>2
  <2>4. QED BY <1>2, <2>2, <2>3 DEF Handles, Fatal
<1>3. ASSUME NEW d \in Descriptors, found = {d},
             NEW verdict, verdict = Check(d, value, attached), verdict = "throws",
             pass' = "terminated", UNCHANGED <<cursorVars, statsVars, storeVars, nonOptions>>
      PROVE  Handles(one)
  <2>1. one.verdict = "throws" BY <1>3, VerdictIs
  <2>2. QED BY <1>3, <2>1 DEF Handles
<1>4. ASSUME NEW d \in Descriptors, found = {d},
             NEW verdict, verdict = Check(d, value, attached), verdict = "ILLEGAL",
             IF pass = "count" THEN StartStore
             ELSE pass' = "error" /\ UNCHANGED <<at, nonops, rest>>,
             UNCHANGED <<order, statsVars, storeVars, nonOptions>>
      PROVE  Handles(one)
  <2>1. one.verdict = "ILLEGAL" BY <1>4, VerdictIs
  <2>2. QED BY <1>4, <2>1 DEF Handles
<1>5. ASSUME NEW d \in Descriptors, found = {d},
             NEW verdict, verdict = Check(d, value, attached),
             verdict \in {"NONE", "IGNORE", "OK"},
             Perform(OptionOf(d, verdict, value)),
             IF verdict = "OK" THEN Advance(<<>>, IF attached THEN 0 ELSE 1)
             ELSE Advance(group, 0),
             UNCHANGED <<pass, nonops, nonOptions>>
      PROVE  Handles(one)
  <2> DEFINE o == OptionOf(d, verdict, value)
  <2>1. verdict \notin Fatal BY <1>5 DEF Fatal
  <2>2. one = [options |-> IF verdict \in Fatal THEN <<>> ELSE <<o>>,
               took |-> IF verdict = "OK" /\ ~attached THEN 1 ELSE 0, verdict |-> verdict]
    BY <1>5, OneOptionIs
  <2>3. o \in Options BY OptionType
  <2> HIDE DEF o
  <2>4. /\ one.verdict = verdict /\ one.options = <<o>>
        /\ one.took = IF verdict = "OK" /\ ~attached THEN 1 ELSE 0
    BY <2>1, <2>2
  <2>5. CASE verdict = "OK"
    <3>1. Advance(<<>>, one.took) BY <1>5, <2>4, <2>5
    <3>2. Perform(o) BY <1>5 DEF o
    <3>3. QED BY <1>5, <2>1, <2>3, <2>4, <2>5, <3>1, <3>2 DEF Handles
  <2>6. CASE verdict # "OK"
    <3>1. IF Place = Width(Argument) THEN Advance(<<>>, one.took)
          ELSE order' = order /\ at' = at /\ rest' # <<>> /\ Place' = Place + 1 /\ RestInv'
      BY <1>1, <1>5, <2>4, <2>6
    <3>2. Perform(o) BY <1>5 DEF o
    <3>3. QED BY <1>5, <2>1, <2>3, <2>4, <2>6, <3>1, <3>2 DEF Handles
  <2>7. QED BY <2>5, <2>6
<1>6. QED BY <1>2, <1>3, <1>4, <1>5 DEF Handle


LEMMA LongHandles ==
  ASSUME ParserInv, LongOption
  PROVE  /\ at <= Len(argv) /\ Argument \in OptionArguments /\ UNCHANGED inputVars
         /\ Reading /\ Handles(OptionIn(Argument, Place, Following))
<1>1. /\ Reading /\ at <= Len(argv) /\ Argument.kind = "long" /\ UNCHANGED inputVars
  BY ArgvIs DEF LongOption, ParserInv, CursorInv, Permutes
<1>2. Argument \in Arguments /\ Following \in Values BY <1>1, AtArgument
<1>3. Argument \in OptionArguments BY <1>1, <1>2 DEF OptionArguments
<1>4. Place = 1 /\ Width(Argument) = 1
  <2>1. rest = <<>> BY <1>1 DEF ParserInv, CursorInv
  <2>2. QED BY <1>1, <2>1 DEF Place, Width
<1> DEFINE attached == Argument.value # Null
           value == IF attached THEN Argument.value ELSE Following
           found == LongDescriptor(Argument.name)
           one == OneOption(found, value, attached)
<1>5. OptionIn(Argument, Place, Following) = one BY <1>1, Zenon DEF OptionIn
<1>6. Handle(found, value, attached, <<>>) BY DEF LongOption
<1>7. value \in Values BY <1>1, <1>2, ArgumentType DEF Values
<1>8. attached \in BOOLEAN /\ (found = {} \/ \E d \in Descriptors : found = {d}) BY Found
<1> HIDE DEF attached, value, found
<1>9. Handles(one) BY <1>1, <1>3, <1>4, <1>6, <1>7, <1>8, HandleHandles
<1>10. QED BY <1>1, <1>3, <1>5, <1>9

LEMMA ShortHandles ==
  ASSUME ParserInv, RestInv, ShortOption
  PROVE  /\ at <= Len(argv) /\ Argument \in OptionArguments /\ UNCHANGED inputVars
         /\ Reading /\ Handles(OptionIn(Argument, Place, Following))
<1>1. /\ Reading /\ at <= Len(argv) /\ Argument.kind = "short" /\ UNCHANGED inputVars
      /\ argv' = argv
  BY ArgvIs DEF ShortOption, ParserInv, CursorInv, Permutes, inputVars
<1>2. Argument \in Arguments /\ Following \in Values BY <1>1, AtArgument
<1>3. Argument \in OptionArguments BY <1>1, <1>2 DEF OptionArguments
<1> DEFINE n == Width(Argument)
           chars == IF rest # <<>> THEN rest ELSE Argument.chars
           attached == Len(chars) > 1
           value == IF attached THEN AttachedValue(Tail(chars)) ELSE Following
           found == ShortDescriptor(Head(chars))
           one == OneOption(found, value, attached)
<1>4. /\ n = Len(Argument.chars) /\ n \in Nat \ {0} /\ Argument.chars \in Seq(STRING)
      /\ Place \in 1..n
  BY <1>1, <1>2, <1>3, ArgumentType, PlaceType, WidthType DEF Width
<1>5. /\ chars \in Seq(STRING) /\ chars # <<>> /\ Len(chars) = n + 1 - Place
      /\ \A k \in 1..Len(chars) : chars[k] = Argument.chars[Place - 1 + k]
  <2>1. CASE rest = <<>>
    <3>1. chars = Argument.chars /\ Place = 1 BY <2>1 DEF Place
    <3>2. Argument.chars # <<>> BY <1>1, <1>2, ArgumentType
    <3> HIDE DEF chars
    <3>3. \A k \in 1..Len(chars) : Place - 1 + k = k BY <1>4, <3>1
    <3>4. QED BY <1>4, <3>1, <3>2, <3>3
  <2>2. CASE rest # <<>>
    <3>1. chars = rest /\ Place = n + 1 - Len(rest) BY <2>2 DEF Place
    <3>2. rest \in Seq(STRING) BY DEF ParserInv, CursorInv
    <3>3. QED BY <1>4, <2>2, <3>1, <3>2 DEF RestInv
  <2>3. QED BY <2>1, <2>2
<1>6. Handle(found, value, attached, Tail(chars)) BY DEF ShortOption
<1> HIDE DEF chars
<1>7. /\ Tail(chars) \in Seq(STRING) /\ Len(Tail(chars)) = n - Place
      /\ \A k \in 1..Len(Tail(chars)) : Tail(chars)[k] = Argument.chars[Place + k]
  <2>1. /\ Tail(chars) \in Seq(STRING) /\ Len(Tail(chars)) = Len(chars) - 1
        /\ \A k \in 1..Len(Tail(chars)) : Tail(chars)[k] = chars[k + 1]
    BY <1>5, HeadTailProperties
  <2>2. Len(Tail(chars)) = n - Place BY <1>4, <1>5, <2>1
  <2>3. ASSUME NEW k \in 1..Len(Tail(chars)) PROVE Tail(chars)[k] = Argument.chars[Place + k]
    <3>1. k + 1 \in 1..Len(chars) /\ Place - 1 + (k + 1) = Place + k BY <1>4, <1>5, <2>2
    <3>2. QED BY <1>5, <2>1, <3>1
  <2>4. QED BY <2>1, <2>2, <2>3
<1>8. Head(chars) = Argument.chars[Place]
  <2>1. 1 \in 1..Len(chars) /\ Place - 1 + 1 = Place BY <1>4, <1>5
  <2>2. Head(chars) = chars[1] BY <1>5
  <2>3. QED BY <1>5, <2>1, <2>2
<1>9. attached <=> Place < n BY <1>4, <1>5
<1>10. Tail(chars) = <<>> <=> Place = n
  <2>1. Tail(chars) = <<>> <=> Len(Tail(chars)) = 0 BY <1>7, EmptySeq
  <2>2. Len(Tail(chars)) = 0 <=> Place = n
    <3>1. Place \in Int /\ n \in Int /\ Len(Tail(chars)) = n - Place BY <1>4, <1>7
    <3>2. \A l, p, q \in Int : l = q - p => (l = 0 <=> p = q) OBVIOUS
    <3>3. Len(Tail(chars)) \in Int BY <1>7
    <3>4. QED BY <3>1, <3>2, <3>3
  <2>3. QED BY <2>1, <2>2
<1>11. Place < n => AttachedValue(Tail(chars))
                      = AttachedValue(SubSeq(Argument.chars, Place + 1, n))
  <2>1. SUFFICES ASSUME Place < n
                 PROVE  Head(Tail(chars)) = Head(SubSeq(Argument.chars, Place + 1, n))
    BY DEF AttachedValue
  <2>2. Head(Tail(chars)) = Argument.chars[Place + 1]
    <3>1. 1 \in 1..Len(Tail(chars)) BY <1>4, <1>7, <2>1
    <3>2. Head(Tail(chars)) = Tail(chars)[1] BY <1>7, <3>1
    <3>3. QED BY <1>7, <3>1, <3>2
  <2>3. Head(SubSeq(Argument.chars, Place + 1, n)) = Argument.chars[Place + 1]
    <3> DEFINE s == SubSeq(Argument.chars, Place + 1, n)
    <3>1. \A i \in (Place + 1)..n : Argument.chars[i] \in STRING BY <1>4
    <3>2. /\ s \in Seq(STRING) /\ Len(s) = n - (Place + 1) + 1
          /\ \A i \in 1..(n - (Place + 1) + 1) : s[i] = Argument.chars[Place + 1 + i - 1]
      BY <1>4, <2>1, <3>1, SubSeqProperties
    <3>3. 1 \in 1..(n - (Place + 1) + 1) /\ Place + 1 + 1 - 1 = Place + 1 BY <1>4, <2>1
    <3> HIDE DEF s
    <3>4. s[1] = Argument.chars[Place + 1] BY <3>2, <3>3
    <3>5. Head(s) = s[1] BY <3>2
    <3>6. QED BY <3>4, <3>5 DEF s
  <2>4. QED BY <2>2, <2>3
<1>12. OptionIn(Argument, Place, Following) = one
  <2>1. OptionIn(Argument, Place, Following) =
          OneOption(ShortDescriptor(Argument.chars[Place]),
                    IF Place < n THEN AttachedValue(SubSeq(Argument.chars, Place + 1, n))
                    ELSE Following, Place < n)
    BY <1>1, <1>4 DEF OptionIn
  <2>2. QED BY <1>8, <1>9, <1>11, <2>1
<1>13. value \in Values
  <2>1. attached => Tail(chars) # <<>> BY <1>4, <1>9, <1>10
  <2>2. CASE attached BY <1>7, <2>1, <2>2, ValueType
  <2>3. CASE ~attached BY <1>2, <2>3
  <2>4. QED BY <2>2, <2>3
<1>14. attached \in BOOLEAN /\ (found = {} \/ \E d \in Descriptors : found = {d}) BY Found
<1>15. ASSUME Tail(chars) # <<>>, order' = order, at' = at, rest' = Tail(chars)
       PROVE  Place' = Place + 1 /\ RestInv'
  <2>1. Argument' = Argument BY <1>1, <1>15 DEF Argument
  <2>2. Width(Argument') = n BY <2>1
  <2>3. Place' = n + 1 - Len(Tail(chars))
    <3>1. Place' = Width(Argument') + 1 - Len(rest') BY <1>15 DEF Place
    <3>2. QED BY <1>15, <2>2, <3>1
  <2>4. Place' = Place + 1 BY <1>4, <1>7, <2>3
  <2>5. \A k \in 1..Len(rest') : rest'[k] = Argument'.chars[Place' - 1 + k]
    <3>1. \A k \in 1..Len(rest') : (Place + 1) - 1 + k = Place + k BY <1>4, <1>7, <1>15
    <3>2. QED BY <1>7, <1>15, <2>1, <2>4, <3>1
  <2>6. QED BY <2>4, <2>5 DEF RestInv
<1> HIDE DEF attached, value, found
<1>16. Handles(one)
  <2>1. Tail(chars) # <<>> /\ order' = order /\ at' = at /\ rest' = Tail(chars)
          => Place' = Place + 1 /\ RestInv'
    BY <1>15
  <2>2. QED BY <1>1, <1>3, <1>6, <1>10, <1>13, <1>14, <2>1, HandleHandles
<1>17. QED BY <1>1, <1>3, <1>12, <1>16

-----------------------------------------------------------------------------
(* What is left of the meaning from an argument on, and from a place in it. *)

After(i) == Meanings(gnu, argv)[i]
Given(i) == ArgumentOptions(argv[i], FollowingAt(argv, i))
IsOption(i) == i \in 1..Len(argv) /\ argv[i] \in OptionArguments

ToCome(i, j) ==
  LET g == Given(i)[j]
      k == i + 1 + g.took
  IN IF ~IsOption(i) THEN After(i)
     ELSE IF g.verdict \in Fatal
     THEN [options |-> g.options, words |-> <<>>, verdict |-> g.verdict]
     ELSE [options |-> g.options \o After(k).options, words |-> After(k).words,
           verdict |-> After(k).verdict]

LEMMA AfterType ==
  ASSUME ParserInv, NEW i \in 1..(Len(argv) + 1)
  PROVE  /\ After(i) \in Result /\ After(i).options \in Seq(Options)
         /\ After(i).words \in Seq(Nat) /\ After(i).verdict \in {"ok"} \cup Fatal
<1>1. gnu \in BOOLEAN /\ argv \in Seq(Arguments) BY DEF ParserInv
<1>2. After(i) \in Result BY <1>1, MeaningsAre DEF After
<1>3. QED BY <1>2 DEF Result

(* Where no option is. *)
LEMMA AfterOther ==
  ASSUME ParserInv
  PROVE  /\ After(Len(argv) + 1) = WordsFrom(argv, Len(argv) + 1)
         /\ \A i \in 1..Len(argv) :
              /\ argv[i].kind = "terminator" => After(i) = WordsFrom(argv, i + 1)
              /\ argv[i].kind = "word" /\ ~gnu => After(i) = WordsFrom(argv, i)
              /\ argv[i].kind = "word" /\ gnu =>
                   /\ After(i).options = After(i + 1).options
                   /\ After(i).words = <<i>> \o After(i + 1).words
                   /\ After(i).verdict = After(i + 1).verdict
<1> DEFINE n == Len(argv)
           later == Meanings(gnu, argv)
<1>1. gnu \in BOOLEAN /\ argv \in Seq(Arguments) /\ n \in Nat BY ArgvIs DEF ParserInv
<1>2. later \in [1..(n + 1) -> Result]
      /\ \A i \in 1..(n + 1) : later[i] = ReadArgument(gnu, argv, i, later)
  BY <1>1, MeaningsAre
<1> HIDE DEF later
<1>3. After(n + 1) = WordsFrom(argv, n + 1)
  <2>1. n + 1 \in 1..(n + 1) BY <1>1
  <2>2. ReadArgument(gnu, argv, n + 1, later) = WordsFrom(argv, n + 1) BY DEF ReadArgument
  <2>3. QED BY <1>2, <2>1, <2>2 DEF After, later
<1>4. ASSUME NEW i \in 1..n
      PROVE  /\ argv[i].kind = "terminator" => After(i) = WordsFrom(argv, i + 1)
             /\ argv[i].kind = "word" /\ ~gnu => After(i) = WordsFrom(argv, i)
             /\ argv[i].kind = "word" /\ gnu =>
                  /\ After(i).options = After(i + 1).options
                  /\ After(i).words = <<i>> \o After(i + 1).words
                  /\ After(i).verdict = After(i + 1).verdict
  <2>1. /\ i \in 1..(n + 1) /\ i # n + 1 /\ After(i) = ReadArgument(gnu, argv, i, later)
        /\ After(i + 1) = later[i + 1] /\ i + 1 \in 1..(n + 1)
    BY <1>1, <1>2 DEF After, later
  <2>2. argv[i].kind = "terminator" => After(i) = WordsFrom(argv, i + 1)
    BY <2>1 DEF ReadArgument
  <2>3. argv[i].kind = "word" /\ ~gnu => After(i) = WordsFrom(argv, i)
    BY <2>1 DEF ReadArgument
  <2>4. ASSUME argv[i].kind = "word", gnu
        PROVE  /\ After(i).options = After(i + 1).options
               /\ After(i).words = <<i>> \o After(i + 1).words
               /\ After(i).verdict = After(i + 1).verdict
    <3> DEFINE r == later[i + 1]
               w == <<i>> \o r.words
    <3>1. After(i) = [r EXCEPT !.words = <<i>> \o @] BY <2>1, <2>4 DEF ReadArgument
    <3>2. r \in Result BY <1>2, <2>1
    <3>3. After(i) = [options |-> r.options, words |-> w, verdict |-> r.verdict]
      BY <3>1, <3>2, ExceptWords
    <3> HIDE DEF r, w
    <3>4. After(i).options = r.options /\ After(i).words = w /\ After(i).verdict = r.verdict
      BY <3>3
    <3>5. QED BY <2>1, <3>4 DEF r, w
  <2>5. QED BY <2>2, <2>3, <2>4
<1>5. QED BY <1>3, <1>4

(* ... and where one is. *)
LEMMA AfterOption ==
  ASSUME ParserInv, NEW i, IsOption(i)
  PROVE  After(i) = ToCome(i, 1) /\ Here(argv, i) = Given(i)[1]
<1> DEFINE n == Len(argv)
           later == Meanings(gnu, argv)
           here == Here(argv, i)
           k == i + 1 + here.took
<1>1. gnu \in BOOLEAN /\ argv \in Seq(Arguments) /\ n \in Nat BY ArgvIs DEF ParserInv
<1>2. later \in [1..(n + 1) -> Result]
      /\ \A l \in 1..(n + 1) : later[l] = ReadArgument(gnu, argv, l, later)
  BY <1>1, MeaningsAre
<1>3. i \in 1..(n + 1) /\ i <= n /\ i # n + 1 /\ argv[i] \in OptionArguments
  BY <1>1 DEF IsOption
<1>4. here = Given(i)[1] BY DEF Here, Given
<1>5. k \in 1..(n + 1) BY <1>1, <1>3, HereType
<1> HIDE DEF here
<1>6. After(i) = IF here.verdict \in Fatal
                 THEN [options |-> here.options, words |-> <<>>, verdict |-> here.verdict]
                 ELSE [later[k] EXCEPT !.options = here.options \o @]
  <2>1. argv[i].kind \notin {"terminator", "word"} BY <1>3 DEF OptionArguments
  <2>2. After(i) = ReadArgument(gnu, argv, i, later) BY <1>2, <1>3 DEF After
  <2>3. QED BY <1>3, <2>1, <2>2 DEF ReadArgument, here, Here, Fatal
<1>7. [later[k] EXCEPT !.options = here.options \o @] =
        [options |-> here.options \o later[k].options, words |-> later[k].words,
         verdict |-> later[k].verdict]
  <2>1. later[k] \in Result BY <1>2, <1>5
  <2>2. QED BY <2>1, ExceptOptions
<1>8. After(i) = ToCome(i, 1) BY <1>4, <1>6, <1>7 DEF ToCome, After
<1>9. QED BY <1>4, <1>8 DEF here

LEMMA ConcatsAre ==
  ASSUME NEW S, NEW x \in Seq(S), NEW y \in Seq(S), NEW z \in Seq(S)
  PROVE  /\ x \o y \in Seq(S) /\ Len(x \o y) = Len(x) + Len(y)
         /\ (x \o y) \o z = x \o (y \o z)
<1>1. (x \o y) \o z = x \o (y \o z) BY ConcatAssociative
<1>2. QED BY <1>1, ConcatProperties

LEMMA Concats ==
  \A x, y, z \in Seq(Options) :
    /\ x \o y \in Seq(Options) /\ Len(x \o y) = Len(x) + Len(y)
    /\ (x \o y) \o z = x \o (y \o z)
<1> TAKE x, y, z \in Seq(Options)
<1>1. QED BY ConcatsAre

LEMMA ConcatsOfWords ==
  \A x, y, z \in Seq(Nat) :
    /\ x \o y \in Seq(Nat) /\ Len(x \o y) = Len(x) + Len(y)
    /\ (x \o y) \o z = x \o (y \o z)
<1> TAKE x, y, z \in Seq(Nat)
<1>1. PICK W : W = Nat OBVIOUS
<1>2. x \in Seq(W) /\ y \in Seq(W) /\ z \in Seq(W) BY <1>1, Zenon
<1>3. /\ x \o y \in Seq(W) /\ Len(x \o y) = Len(x) + Len(y)
      /\ (x \o y) \o z = x \o (y \o z)
  BY <1>2, ConcatsAre
<1>4. QED BY <1>1, <1>3, Zenon

LEMMA Joined ==
  ASSUME NEW S, NEW x \in Seq(S), NEW y \in Seq(S), NEW a, a = Len(x), NEW b, b = Len(y)
  PROVE  /\ x \o y \in Seq(S) /\ Len(x \o y) = a + b
         /\ \A i \in 1..(a + b) : (x \o y)[i] = IF i <= a THEN x[i] ELSE y[i - a]
<1> DEFINE z == x \o y
<1>1. /\ z \in Seq(S) /\ Len(z) = Len(x) + Len(y)
      /\ \A i \in 1..(Len(x) + Len(y)) : z[i] = IF i <= Len(x) THEN x[i] ELSE y[i - Len(x)]
  BY ConcatProperties
<1> HIDE DEF z
<1>2. /\ z \in Seq(S) /\ Len(z) = a + b
      /\ \A i \in 1..(a + b) : z[i] = IF i <= a THEN x[i] ELSE y[i - a]
  BY <1>1, Zenon
<1>3. QED BY <1>2, Zenon DEF z

LEMMA WordsJoined ==
  ASSUME NEW x \in Seq(Nat), NEW y \in Seq(Nat), NEW a, a = Len(x), NEW b, b = Len(y)
  PROVE  /\ x \o y \in Seq(Nat) /\ Len(x \o y) = a + b
         /\ \A i \in 1..(a + b) : (x \o y)[i] = IF i <= a THEN x[i] ELSE y[i - a]
<1>1. PICK W : W = Nat OBVIOUS
<1>2. x \in Seq(W) /\ y \in Seq(W) BY <1>1, Zenon
<1>3. /\ x \o y \in Seq(W) /\ Len(x \o y) = a + b
      /\ \A i \in 1..(a + b) : (x \o y)[i] = IF i <= a THEN x[i] ELSE y[i - a]
  BY <1>2, Joined
<1>4. QED BY <1>1, <1>3, Zenon

(* What reading one option leaves to come. *)
Ahead(i, j, one) ==
  /\ one \in OneResult
  /\ one.verdict \in Fatal =>
       Given(i)[j].verdict = one.verdict /\ ToCome(i, j).options = <<>>
  /\ one.verdict \notin Fatal /\ (one.verdict = "OK" \/ j = Width(argv[i])) =>
       /\ Given(i)[j].verdict \notin Fatal /\ Given(i)[j].took = one.took
       /\ i + 1 + one.took \in 1..(Len(argv) + 1)
       /\ ToCome(i, j).options = one.options \o After(i + 1 + one.took).options
  /\ one.verdict \notin Fatal /\ ~(one.verdict = "OK" \/ j = Width(argv[i])) =>
       /\ j + 1 \in 1..Width(argv[i])
       /\ Given(i)[j].took = Given(i)[j + 1].took
       /\ Given(i)[j].verdict = Given(i)[j + 1].verdict
       /\ ToCome(i, j).options = one.options \o ToCome(i, j + 1).options
       /\ ToCome(i, j + 1).options \in Seq(Options)

LEMMA ToComeIs ==
  ASSUME ParserInv, NEW i, IsOption(i), NEW j
  PROVE  /\ Given(i)[j].verdict \in Fatal => ToCome(i, j).options = Given(i)[j].options
         /\ Given(i)[j].verdict \notin Fatal =>
              ToCome(i, j).options =
                Given(i)[j].options \o After(i + 1 + Given(i)[j].took).options
<1> DEFINE s == Given(i)[j].options \o After(i + 1 + Given(i)[j].took).options
<1> HIDE DEF s
<1>1. Given(i)[j].verdict \notin Fatal =>
        ToCome(i, j) = [options |-> s, words |-> After(i + 1 + Given(i)[j].took).words,
                        verdict |-> After(i + 1 + Given(i)[j].took).verdict]
  BY DEF ToCome, s
<1>2. Given(i)[j].verdict \in Fatal =>
        ToCome(i, j) = [options |-> Given(i)[j].options, words |-> <<>>,
                        verdict |-> Given(i)[j].verdict]
  BY DEF ToCome
<1>3. /\ Given(i)[j].verdict \in Fatal => ToCome(i, j).options = Given(i)[j].options
      /\ Given(i)[j].verdict \notin Fatal => ToCome(i, j).options = s
  BY <1>1, <1>2
<1>4. QED BY <1>3 DEF s

LEMMA StepAhead ==
  ASSUME ParserInv, NEW i, IsOption(i), NEW j \in 1..Width(argv[i])
  PROVE  Ahead(i, j, OptionIn(argv[i], j, FollowingAt(argv, i)))
<1> DEFINE f == FollowingAt(argv, i)
           one == OptionIn(argv[i], j, f)
           g == Given(i)
           w == Width(argv[i])
<1>1. /\ argv \in Seq(Arguments) /\ i \in 1..Len(argv) /\ argv[i] \in OptionArguments
      /\ Len(argv) \in Nat
  BY ArgvIs DEF ParserInv, IsOption
<1>2. f \in Values /\ (f # Null => i < Len(argv)) BY <1>1, FollowingType
<1>3. /\ one \in OneResult /\ (one.took = 1 => j = w /\ f # Null)
      /\ one.verdict \in Fatal => one.options = <<>>
  BY <1>1, <1>2, OptionInType
<1>4. /\ g[j] \in OneResult /\ (g[j].took = 1 => f # Null)
      /\ j = w \/ one.verdict \in {"OK"} \cup Fatal => g[j] = one
      /\ ~(j = w \/ one.verdict \in {"OK"} \cup Fatal) =>
           /\ j + 1 \in 1..w
           /\ g[j].options = one.options \o g[j + 1].options
           /\ g[j].took = g[j + 1].took /\ g[j].verdict = g[j + 1].verdict
  BY <1>1, <1>2, PlaceGives DEF Given
<1> HIDE DEF f, one, g, w
<1>5. one.verdict \in Fatal => g[j].verdict = one.verdict /\ ToCome(i, j).options = <<>>
  BY <1>3, <1>4, ToComeIs DEF g
<1>6. ASSUME one.verdict \notin Fatal, one.verdict = "OK" \/ j = w
      PROVE  /\ g[j].verdict \notin Fatal /\ g[j].took = one.took
             /\ i + 1 + one.took \in 1..(Len(argv) + 1)
             /\ ToCome(i, j).options = one.options \o After(i + 1 + one.took).options
  <2>1. g[j] = one BY <1>4, <1>6
  <2>2. one.took \in {0, 1} BY <1>3 DEF OneResult
  <2>3. i + 1 + one.took \in 1..(Len(argv) + 1) BY <1>1, <1>2, <1>3, <2>2
  <2>4. QED BY <1>6, <2>1, <2>3, ToComeIs DEF g
<1>7. ASSUME one.verdict \notin Fatal, ~(one.verdict = "OK" \/ j = w)
      PROVE  /\ j + 1 \in 1..w
             /\ g[j].took = g[j + 1].took
             /\ g[j].verdict = g[j + 1].verdict
             /\ ToCome(i, j).options = one.options \o ToCome(i, j + 1).options
             /\ ToCome(i, j + 1).options \in Seq(Options)
  <2>1. /\ j + 1 \in 1..w /\ g[j].options = one.options \o g[j + 1].options
        /\ g[j].took = g[j + 1].took /\ g[j].verdict = g[j + 1].verdict
    BY <1>4, <1>7
  <2>2. g[j + 1] \in OneResult /\ (g[j + 1].took = 1 => f # Null)
    BY <1>1, <1>2, <2>1, PlaceGives DEF Given, g, w, f
  <2>3. one.options \in Seq(Options) /\ g[j + 1].options \in Seq(Options)
    BY <1>3, <2>2 DEF OneResult
  <2>4. CASE g[j].verdict \in Fatal
    <3>1. ToCome(i, j).options = g[j].options /\ ToCome(i, j + 1).options = g[j + 1].options
      BY <2>1, <2>4, ToComeIs DEF g
    <3>2. QED BY <2>1, <2>3, <3>1
  <2>5. CASE g[j].verdict \notin Fatal
    <3> DEFINE k == i + 1 + g[j].took
    <3>1. g[j].took \in {0, 1} BY <1>4 DEF OneResult
    <3>2. k \in 1..(Len(argv) + 1) BY <1>1, <1>2, <1>4, <3>1
    <3>3. After(k).options \in Seq(Options) BY <3>2, AfterType
    <3> HIDE DEF k
    <3>4. /\ ToCome(i, j).options = g[j].options \o After(k).options
          /\ ToCome(i, j + 1).options = g[j + 1].options \o After(k).options
      BY <2>1, <2>5, ToComeIs DEF g, k
    <3>5. (one.options \o g[j + 1].options) \o After(k).options =
             one.options \o (g[j + 1].options \o After(k).options)
      BY <2>3, <3>3, Concats
    <3>6. g[j + 1].options \o After(k).options \in Seq(Options)
      BY <2>3, <3>3, Concats
    <3>7. QED BY <2>1, <3>4, <3>5, <3>6
  <2>6. QED BY <2>1, <2>4, <2>5
<1>8. QED BY <1>3, <1>5, <1>6, <1>7 DEF Ahead, f, one, g, w

-----------------------------------------------------------------------------
(* The order of the arguments. *)

(* Where the words passed begin. *)
Passed == at - nonops

(* The argument read, and its value when it took one, go before these.     *)
Carried(took, i) ==
  IF i \in Passed..(Passed + took) THEN order[i + nonops]
  ELSE IF i \in (Passed + took + 1)..(at + took) THEN order[i - 1 - took]
  ELSE order[i]

LEMMA OrderIs ==
  ASSUME ParserInv
  PROVE  /\ Len(argv) \in Nat /\ DOMAIN argv = 1..Len(argv) /\ DOMAIN order = 1..Len(argv)
         /\ order \in [1..Len(argv) -> 1..Len(argv)]
         /\ at \in 1..(Len(argv) + 1) /\ nonops \in 0..(at - 1) /\ Passed \in 1..at
<1>1. argv \in Seq(Arguments) BY DEF ParserInv
<1>2. Len(argv) \in Nat /\ DOMAIN argv = 1..Len(argv) BY <1>1, ArgvIs
<1>3. PICK n \in Nat : n = Len(argv) BY <1>2
<1>4. order \in [DOMAIN argv -> DOMAIN argv] BY Zenon DEF ParserInv, CursorInv, Permutes
<1>5. at \in 1..(Len(argv) + 1) /\ nonops \in 0..(at - 1)
  BY Zenon DEF ParserInv, CursorInv
<1>6. Passed \in 1..at
  <2>1. at \in 1..(n + 1) /\ nonops \in 0..(at - 1) BY <1>3, <1>5, Zenon
  <2>2. QED BY <2>1 DEF Passed
<1>7. order \in [1..Len(argv) -> 1..Len(argv)] /\ DOMAIN order = 1..Len(argv)
  BY <1>2, <1>4, Zenon
<1>8. QED BY <1>2, <1>5, <1>6, <1>7, Zenon

LEMMA ShiftTwice ==
  ASSUME NEW m \in Nat, NEW o, DOMAIN o = 1..m, NEW p \in 1..m, p < m,
         NEW c \in 0..(p - 1)
  PROVE  \A j \in 1..m :
           Shift(Shift(o, p, c), p + 1, c)[j] =
             IF j \in (p - c)..(p - c + 1) THEN o[j + c]
             ELSE IF j \in (p - c + 2)..(p + 1) THEN o[j - 2] ELSE o[j]
<1>1. PICK i \in 1..m : i = p + 1 OBVIOUS
<1>2. PICK s : s = Shift(o, p, c) OBVIOUS
<1>3. /\ DOMAIN s = 1..m
      /\ \A j \in 1..m :
           s[j] = IF j = p - c THEN o[p]
                  ELSE IF j \in (p - c + 1)..p THEN o[j - 1] ELSE o[j]
  BY <1>2 DEF Shift
<1>4. \A j \in 1..m :
        Shift(s, i, c)[j] = IF j = i - c THEN s[i]
                            ELSE IF j \in (i - c + 1)..i THEN s[j - 1] ELSE s[j]
  BY <1>3 DEF Shift
<1>5. ASSUME NEW j \in 1..m
      PROVE  Shift(s, i, c)[j] =
               IF j \in (p - c)..(p - c + 1) THEN o[j + c]
               ELSE IF j \in (p - c + 2)..(p + 1) THEN o[j - 2] ELSE o[j]
  <2>1. CASE j = p - c
    <3>1. j \in (p - c)..(p - c + 1) /\ j + c = p /\ j # i - c /\ j \notin (i - c + 1)..i
      BY <1>1, <2>1
    <3>2. QED BY <1>3, <1>4, <2>1, <3>1
  <2>2. CASE j = i - c
    <3>1. /\ j \in (p - c)..(p - c + 1) /\ j + c = i
          /\ i # p - c /\ i \notin (p - c + 1)..p
      BY <1>1, <2>2
    <3>2. s[i] = o[i] BY <1>3, <3>1
    <3>3. QED BY <1>4, <2>2, <3>1, <3>2
  <2>3. CASE j \in (i - c + 1)..i
    <3>1. /\ j \notin (p - c)..(p - c + 1) /\ j \in (p - c + 2)..(p + 1)
          /\ j # i - c
      BY <1>1, <2>3
    <3>2. /\ j - 1 \in 1..m /\ j - 1 # p - c /\ j - 1 \in (p - c + 1)..p /\ j - 1 - 1 = j - 2
      BY <1>1, <2>3
    <3>3. s[j - 1] = o[j - 2] BY <1>3, <3>2
    <3>4. QED BY <1>4, <2>3, <3>1, <3>3
  <2>4. CASE j # p - c /\ j # i - c /\ j \notin (i - c + 1)..i
    <3>1. /\ j \notin (p - c)..(p - c + 1) /\ j \notin (p - c + 2)..(p + 1)
          /\ j \notin (p - c + 1)..p
      BY <1>1, <2>4
    <3>2. s[j] = o[j] BY <1>3, <2>4, <3>1
    <3>3. QED BY <1>4, <2>4, <3>1, <3>2
  <2>5. QED BY <2>1, <2>2, <2>3, <2>4
<1>6. QED BY <1>1, <1>2, <1>5

LEMMA Carries ==
  ASSUME ParserInv, at <= Len(argv), NEW i \in 1..Len(argv)
  PROVE  /\ Shift(order, at, nonops)[i] = Carried(0, i)
         /\ at < Len(argv) => Shift(Shift(order, at, nonops), at + 1, nonops)[i] = Carried(1, i)
<1> DEFINE n == Len(argv)
<1>1. /\ n \in Nat /\ DOMAIN order = 1..n /\ at \in 1..n
      /\ nonops \in 0..(at - 1) /\ Passed = at - nonops
  BY OrderIs DEF Passed
<1>2. Shift(order, at, nonops)[i] = Carried(0, i)
  <2>1. Shift(order, at, nonops)[i] =
          IF i = at - nonops THEN order[at]
          ELSE IF i \in (at - nonops + 1)..at THEN order[i - 1] ELSE order[i]
    BY <1>1 DEF Shift
  <2>2. CASE i = at - nonops
    <3>1. i \in Passed..(Passed + 0) /\ i + nonops = at BY <1>1, <2>2
    <3>2. QED BY <2>1, <2>2, <3>1 DEF Carried
  <2>3. CASE i # at - nonops
    <3>1. /\ i \notin Passed..(Passed + 0) /\ i - 1 - 0 = i - 1
          /\ i \in (at - nonops + 1)..at <=> i \in (Passed + 0 + 1)..(at + 0)
      BY <1>1, <2>3
    <3>2. QED BY <2>1, <2>3, <3>1 DEF Carried
  <2>4. QED BY <2>2, <2>3
<1>3. ASSUME at < n
      PROVE  Shift(Shift(order, at, nonops), at + 1, nonops)[i] = Carried(1, i)
  <2>1. Shift(Shift(order, at, nonops), at + 1, nonops)[i] =
          IF i \in (at - nonops)..(at - nonops + 1) THEN order[i + nonops]
          ELSE IF i \in (at - nonops + 2)..(at + 1) THEN order[i - 2] ELSE order[i]
    BY <1>1, <1>3, ShiftTwice
  <2>2. Passed + 1 + 1 = at - nonops + 2 /\ Passed + 1 = at - nonops + 1 /\ i - 1 - 1 = i - 2
    BY <1>1
  <2>3. QED BY <1>1, <2>1, <2>2 DEF Carried
<1>4. QED BY <1>2, <1>3

LEMMA Moves ==
  ASSUME ParserInv, at <= Len(argv), NEW took \in {0, 1}, at + took <= Len(argv),
         Advance(<<>>, took)
  PROVE  /\ rest' = <<>> /\ at' = at + 1 + took
         /\ \A i \in 1..Len(argv) : order'[i] = Carried(took, i)
<1>1. /\ rest' = <<>> /\ at' = at + 1 + took
      /\ order' = IF took = 0 THEN Shift(order, at, nonops)
                  ELSE Shift(Shift(order, at, nonops), at + 1, nonops)
  BY DEF Advance
<1>2. at \in Int /\ Len(argv) \in Int BY OrderIs
<1>3. took = 1 => at < Len(argv) BY <1>2
<1>4. QED BY <1>1, <1>3, Carries

(* The first pass has touched nothing it has not read, and has what it has *)
(* read, options in front of words, in order.                              *)
InOrder(o, places) == \A i, j \in places : i < j => o[i] < o[j]
WordsIn(o, places) == \A i \in places : argv[o[i]].kind = "word"

Sorted(o, next, passed) ==
  /\ \A j \in next..Len(argv) : o[j] = j
  /\ \A i \in 1..(next - 1) : o[i] < next
  /\ InOrder(o, 1..(next - passed - 1)) /\ InOrder(o, (next - passed)..(next - 1))
  /\ WordsIn(o, (next - passed)..(next - 1))
  /\ passed > 0 => gnu

LEMMA MoveKeepsOrder ==
  ASSUME ParserInv, Sorted(order, at, nonops), at <= Len(argv),
         NEW took \in {0, 1}, at + took <= Len(argv), NEW next, next = at + 1 + took,
         NEW moved, \A i \in 1..Len(argv) : moved[i] = Carried(took, i)
  PROVE  Sorted(moved, next, nonops)
<1> DEFINE n == Len(argv)
           e == Passed
<1>1. /\ n \in Nat /\ order \in [1..n -> 1..n] /\ at \in 1..n /\ at + took <= n
      /\ nonops \in 0..(at - 1) /\ e = at - nonops /\ took \in Int
  BY OrderIs DEF Passed
<1>2. /\ next - nonops = e + 1 + took /\ next - 1 = at + took
      /\ next - nonops - 1 = e + took
  BY <1>1
<1> HIDE DEF n, e
<1>3. /\ \A j \in at..n : order[j] = j
      /\ \A i \in 1..(at - 1) : order[i] < at
      /\ \A i, j \in 1..(e - 1) : i < j => order[i] < order[j]
      /\ \A i, j \in e..(at - 1) : i < j => order[i] < order[j]
      /\ \A i \in e..(at - 1) : argv[order[i]].kind = "word"
      /\ nonops > 0 => gnu
  BY <1>1 DEF Sorted, InOrder, WordsIn, n
<1>4. /\ \A i \in e..(e + took) : moved[i] = i + nonops
      /\ \A i \in (e + took + 1)..(at + took) : moved[i] = order[i - 1 - took]
      /\ \A i \in 1..n : i < e \/ i > at + took => moved[i] = order[i]
  <2>1. \A i \in 1..n :
          moved[i] = IF i \in e..(e + took) THEN order[i + nonops]
                      ELSE IF i \in (e + took + 1)..(at + took) THEN order[i - 1 - took]
                      ELSE order[i]
    BY DEF Carried, n, e
  <2>2. \A i \in e..(e + took) : i \in 1..n /\ i + nonops \in at..n BY <1>1
  <2>3. \A i \in (e + took + 1)..(at + took) : i \in 1..n /\ i \notin e..(e + took) BY <1>1
  <2>4. \A i \in 1..n : i < e \/ i > at + took =>
          i \notin e..(e + took) /\ i \notin (e + took + 1)..(at + took)
    BY <1>1
  <2>5. \A i \in e..(e + took) : moved[i] = i + nonops BY <1>3, <2>1, <2>2
  <2>6. \A i \in (e + took + 1)..(at + took) : moved[i] = order[i - 1 - took] BY <2>1, <2>3
  <2>7. \A i \in 1..n : i < e \/ i > at + took => moved[i] = order[i] BY <2>1, <2>4
  <2>8. QED BY <2>5, <2>6, <2>7
<1>5. ASSUME NEW j \in next..n PROVE moved[j] = j
  <2>1. j \in 1..n /\ j > at + took /\ j \in at..n BY <1>1
  <2>2. QED BY <1>3, <1>4, <2>1
<1>6. ASSUME NEW i \in 1..(at + took) PROVE moved[i] < next
  <2>1. CASE i < e
    <3>1. i \in 1..n /\ i \in 1..(at - 1) BY <1>1, <2>1
    <3>2. moved[i] = order[i] BY <1>4, <2>1, <3>1
    <3>3. order[i] < at /\ order[i] \in Int BY <1>1, <1>3, <3>1
    <3>4. QED BY <1>1, <3>2, <3>3
  <2>2. CASE i \in e..(e + took) BY <1>1, <1>4, <2>2
  <2>3. CASE i \in (e + took + 1)..(at + took)
    <3>1. i - 1 - took \in 1..(at - 1) BY <1>1, <2>3
    <3>2. moved[i] = order[i - 1 - took] BY <1>4, <2>3
    <3>3. order[i - 1 - took] < at /\ order[i - 1 - took] \in Int BY <1>1, <1>3, <3>1
    <3>4. QED BY <1>1, <3>2, <3>3
  <2>4. QED BY <1>1, <2>1, <2>2, <2>3
<1>7. ASSUME NEW i \in 1..(e + took), NEW j \in 1..(e + took), i < j
      PROVE  moved[i] < moved[j]
  <2>1. CASE j < e
    <3>1. /\ i \in 1..(e - 1) /\ j \in 1..(e - 1) /\ i \in 1..n /\ j \in 1..n
          /\ i < e /\ j < e
      BY <1>1, <1>7, <2>1
    <3>2. moved[i] = order[i] /\ moved[j] = order[j] BY <1>4, <3>1
    <3>3. QED BY <1>3, <1>7, <3>1, <3>2
  <2>2. CASE i < e /\ j >= e
    <3>1. i \in 1..n /\ i \in 1..(at - 1) /\ j \in e..(e + took) /\ j + nonops >= at
      BY <1>1, <2>2
    <3>2. moved[i] = order[i] BY <1>4, <2>2, <3>1
    <3>3. moved[j] = j + nonops BY <1>4, <3>1
    <3>4. order[i] < at /\ order[i] \in Int BY <1>1, <1>3, <3>1
    <3>5. QED BY <1>1, <3>1, <3>2, <3>3, <3>4
  <2>3. CASE i >= e
    <3>1. i \in e..(e + took) /\ j \in e..(e + took) BY <1>1, <1>7, <2>3
    <3>2. moved[i] = i + nonops /\ moved[j] = j + nonops BY <1>4, <3>1
    <3>3. QED BY <1>1, <1>7, <3>2
  <2>4. QED BY <1>1, <2>1, <2>2, <2>3
<1>8. ASSUME NEW i \in (e + 1 + took)..(at + took)
      PROVE  i - 1 - took \in e..(at - 1) /\ moved[i] = order[i - 1 - took]
  <2>1. i - 1 - took \in e..(at - 1) /\ i \in (e + took + 1)..(at + took) BY <1>1
  <2>2. QED BY <1>4, <2>1
<1>9. ASSUME NEW i \in (e + 1 + took)..(at + took), NEW j \in (e + 1 + took)..(at + took), i < j
      PROVE  moved[i] < moved[j]
  <2>1. i - 1 - took < j - 1 - took BY <1>1, <1>9
  <2>2. QED BY <1>3, <1>8, <2>1
<1>10. ASSUME NEW i \in (e + 1 + took)..(at + took) PROVE argv[moved[i]].kind = "word"
  BY <1>3, <1>8
<1>11. InOrder(moved, 1..(next - nonops - 1)) BY <1>2, <1>7 DEF InOrder
<1>12. /\ InOrder(moved, (next - nonops)..(next - 1))
       /\ WordsIn(moved, (next - nonops)..(next - 1))
  BY <1>2, <1>9, <1>10 DEF InOrder, WordsIn
<1>13. \A i \in 1..(next - 1) : moved[i] < next BY <1>2, <1>6
<1>14. \A j \in next..Len(argv) : moved[j] = j BY <1>5 DEF n
<1>15. QED BY <1>3, <1>11, <1>12, <1>13, <1>14 DEF Sorted

(* Long options are never passed over by one another. *)
LongsInOrder(o) == InOrder(o, {i \in 1..Len(argv) : argv[o[i]].kind = "long"})

LEMMA LongsSorted ==
  ASSUME argv \in Seq(Arguments), NEW next \in 1..(Len(argv) + 1), NEW passed \in 0..(next - 1),
         NEW o \in [1..Len(argv) -> Int], Sorted(o, next, passed)
  PROVE  LongsInOrder(o)
<1> DEFINE n == Len(argv)
<1>1. n \in Nat BY ArgvIs
<1> HIDE DEF n
<1>2. SUFFICES ASSUME NEW i \in 1..n, NEW j \in 1..n, i < j,
                      argv[o[i]].kind = "long", argv[o[j]].kind = "long"
               PROVE  o[i] < o[j]
  BY DEF LongsInOrder, InOrder, n
<1>3. o[i] \in Int /\ o[j] \in Int BY DEF n
<1>4. i \notin (next - passed)..(next - 1) /\ j \notin (next - passed)..(next - 1)
  BY <1>2 DEF Sorted, WordsIn
<1>5. CASE j >= next
  <2>1. o[j] = j BY <1>1, <1>5 DEF Sorted, n
  <2>2. CASE i >= next
    <3>1. o[i] = i BY <1>1, <2>2 DEF Sorted, n
    <3>2. QED BY <1>2, <2>1, <3>1
  <2>3. CASE i < next
    <3>1. i \in 1..(next - 1) BY <2>3 DEF n
    <3>2. o[i] < next BY <3>1 DEF Sorted
    <3>3. QED BY <1>3, <1>5, <2>1, <3>2
  <2>4. QED BY <2>2, <2>3
<1>6. CASE j < next
  <2>1. i \in 1..(next - passed - 1) /\ j \in 1..(next - passed - 1) BY <1>1, <1>2, <1>4, <1>6
  <2>2. QED BY <1>2, <2>1 DEF Sorted, InOrder
<1>7. QED BY <1>1, <1>5, <1>6

-----------------------------------------------------------------------------
(* The options in front.  Before place e the array holds options, each     *)
(* followed by its value if it took one: a reading of the array, which has *)
(* the places of C for its steps, has from each of them on what a reading  *)
(* of the command line has from that argument on, and "tail" after them.   *)
Meant == Meaning(gnu, argv)

Cut(o, C, e, tail, c) ==
  LET h == Given(o[c])[1]
      k == c + 1 + h.took
  IN /\ IsOption(o[c]) /\ h.verdict \notin Fatal /\ h.took \in {0, 1} /\ k \in C
     /\ h.took = 1 => o[c + 1] = o[c] + 1
     /\ After(o[c] + 1 + h.took).options = IF k < e THEN After(o[k]).options ELSE tail

Cuts(o, C, e, tail) ==
  /\ C \in SUBSET (1..e) /\ 1 \in C /\ e \in C
  /\ Meant.options = IF 1 < e THEN After(o[1]).options ELSE tail
  /\ \A c \in C : c < e => Cut(o, C, e, tail, c)

LEMMA CutsSame ==
  ASSUME NEW o, NEW moved, NEW C, NEW e \in Nat, NEW tail, Cuts(o, C, e, tail),
         \A i \in 1..(e - 1) : moved[i] = o[i]
  PROVE  Cuts(moved, C, e, tail)
<1>1. /\ C \in SUBSET (1..e) /\ 1 \in C /\ e \in C
      /\ Meant.options = IF 1 < e THEN After(moved[1]).options ELSE tail
  <2>1. 1 < e => moved[1] = o[1] OBVIOUS
  <2>2. QED BY <2>1 DEF Cuts
<1>2. ASSUME NEW c \in C, c < e PROVE Cut(moved, C, e, tail, c)
  <2> DEFINE h == Given(o[c])[1]
             k == c + 1 + h.took
  <2>1. /\ IsOption(o[c]) /\ h.verdict \notin Fatal /\ h.took \in {0, 1} /\ k \in C
        /\ h.took = 1 => o[c + 1] = o[c] + 1
        /\ After(o[c] + 1 + h.took).options = IF k < e THEN After(o[k]).options ELSE tail
    BY <1>2 DEF Cuts, Cut
  <2>2. moved[c] = o[c] BY <1>1, <1>2
  <2>3. h.took = 1 => moved[c + 1] = o[c + 1]
    <3>1. h.took = 1 => c + 1 \in 1..(e - 1) BY <1>1, <1>2, <2>1
    <3>2. QED BY <3>1
  <2>4. k < e => moved[k] = o[k] BY <1>1, <2>1
  <2> HIDE DEF h, k
  <2>5. Given(moved[c])[1] = h BY <2>2 DEF h
  <2>6. QED BY <2>1, <2>2, <2>3, <2>4, <2>5 DEF Cut, k
<1>3. QED BY <1>1, <1>2 DEF Cuts

LEMMA CutsGrow ==
  ASSUME NEW o, NEW moved, NEW C, NEW e \in Nat, NEW p,
         Cuts(o, C, e, After(p).options), \A i \in 1..(e - 1) : moved[i] = o[i],
         IsOption(p), Given(p)[1].verdict \notin Fatal, moved[e] = p,
         NEW took \in {0, 1}, took = Given(p)[1].took, took = 1 => moved[e + 1] = p + 1,
         NEW f, f = e + 1 + took
  PROVE  Cuts(moved, C \cup {f}, f, After(p + 1 + took).options)
<1> DEFINE tail == After(p).options
           last2 == After(p + 1 + took).options
           D == C \cup {f}
<1>0. Cuts(o, C, e, tail) OBVIOUS
<1> HIDE DEF last2, tail
<1>1. /\ C \in SUBSET (1..e) /\ 1 \in C /\ e \in C
      /\ Meant.options = IF 1 < e THEN After(o[1]).options ELSE tail
      /\ \A c \in C : c < e => Cut(o, C, e, tail, c)
  BY <1>0 DEF Cuts
<1>2. D \in SUBSET (1..f) /\ 1 \in D /\ f \in D /\ e < f /\ 1 < f
  <2>1. f \in Nat /\ e < f /\ 1 < f BY <1>1
  <2>2. \A c \in 1..e : c \in 1..f BY <2>1
  <2>3. \A c \in D : c \in 1..f
    <3>1. \A c \in C : c \in 1..e BY <1>1
    <3>2. f \in 1..f BY <2>1
    <3>3. QED BY <2>2, <3>1, <3>2
  <2>4. QED BY <1>1, <2>1, <2>3
<1>3. Meant.options = After(moved[1]).options
  <2>1. CASE 1 < e
    <3>1. moved[1] = o[1] BY <2>1
    <3>2. QED BY <1>1, <2>1, <3>1
  <2>2. CASE ~(1 < e)
    <3>1. e = 1 BY <1>1, <2>2
    <3>2. moved[1] = p BY <3>1
    <3>3. QED BY <1>1, <2>2, <3>2 DEF tail
  <2>3. QED BY <2>1, <2>2
<1>4. ASSUME NEW c \in C, c < e PROVE Cut(moved, D, f, last2, c)
  <2> DEFINE h == Given(o[c])[1]
             k == c + 1 + h.took
  <2>1. /\ IsOption(o[c]) /\ h.verdict \notin Fatal /\ h.took \in {0, 1} /\ k \in C
        /\ h.took = 1 => o[c + 1] = o[c] + 1
        /\ After(o[c] + 1 + h.took).options = IF k < e THEN After(o[k]).options ELSE tail
    BY <1>1, <1>4 DEF Cut
  <2>2. moved[c] = o[c] BY <1>1, <1>4
  <2>3. h.took = 1 => moved[c + 1] = o[c + 1]
    <3>1. h.took = 1 => c + 1 \in 1..(e - 1) BY <1>1, <1>4, <2>1
    <3>2. QED BY <3>1
  <2>4. k \in D /\ k < f /\ After(o[c] + 1 + h.took).options = After(moved[k]).options
    <3>1. k \in 1..e BY <1>1, <2>1
    <3>2. CASE k < e
      <4>1. moved[k] = o[k] BY <3>1, <3>2
      <4>2. QED BY <1>2, <2>1, <3>1, <3>2, <4>1
    <3>3. CASE ~(k < e)
      <4>1. k = e BY <3>1, <3>3
      <4>2. moved[k] = p BY <4>1
      <4>3. k < f BY <1>2, <4>1
      <4>4. QED BY <2>1, <3>3, <4>2, <4>3 DEF tail
    <3>4. QED BY <3>2, <3>3
  <2> HIDE DEF h, k
  <2>5. Given(moved[c])[1] = h BY <2>2 DEF h
  <2>6. QED BY <2>1, <2>2, <2>3, <2>4, <2>5 DEF Cut, k
<1>5. Cut(moved, D, f, last2, e)
  <2>1. Given(moved[e])[1].took = took OBVIOUS
  <2>2. f \in D /\ ~(f < f) BY <1>2
  <2>3. QED BY <2>1, <2>2 DEF Cut, last2
<1>6. \A c \in D : c < f => Cut(moved, D, f, last2, c)
  <2>1. \A c \in D : c < f => c \in C /\ (c < e \/ c = e) BY <1>1
  <2>2. QED BY <1>4, <1>5, <2>1
<1>7. Cuts(moved, D, f, last2) BY <1>2, <1>3, <1>6 DEF Cuts
<1>8. QED BY <1>7 DEF last2

-----------------------------------------------------------------------------
(* The two passes. *)

(* In a group, what its whole argument takes and ends with is still open.  *)
Reached(i) ==
  IsOption(i) => /\ Given(i)[Place].took = Given(i)[1].took
                 /\ Given(i)[Place].verdict = Given(i)[1].verdict

PassedWords == [k \in 1..nonops |-> order[Passed - 1 + k]]

(* The first pass: what it has counted and has yet to count is the options *)
(* of the command line, the words it has passed and has yet to find are    *)
(* its words, and what it has moved to the front can be read again.        *)
CountRun ==
  /\ Sorted(order, at, nonops)
  /\ buffer = <<>> /\ nonOptions = <<>>
  /\ Reached(at)
  /\ Meant.words = PassedWords \o After(at).words
  /\ Meant.verdict = After(at).verdict
  /\ (buffer_max - 1) + Len(ToCome(at, Place).options) = Len(Meant.options)
  /\ \E C : Cuts(order, C, Passed, After(at).options)

(* How the first pass leaves the array: the options in front, then words   *)
(* up to where it stopped - at the end, at a terminator, at the first word *)
(* in POSIX mode, or at an illegal option, which it did not move.          *)
Illegal(i) ==
  /\ IsOption(i) /\ order[i] = i /\ (i < Len(argv) => order[i + 1] = i + 1)
  /\ Given(i)[1].verdict = "ILLEGAL"

AtWord(i) == i = Len(argv) + 1 \/ (i <= Len(argv) /\ argv[order[i]].kind = "word" /\ ~gnu)
AtTerminator(i) == i <= Len(argv) /\ argv[order[i]].kind = "terminator"

Ends(e, stop, tail) ==
  \/ Illegal(stop) /\ tail = After(stop).options /\ Meant.verdict = "ILLEGAL"
  \/ /\ AtWord(stop) /\ tail = <<>> /\ Meant.verdict = "ok"
     /\ Meant.words = SubSeq(order, e, Len(argv))
  \/ /\ AtTerminator(stop) /\ stop = e /\ tail = <<>> /\ Meant.verdict = "ok"
     /\ Meant.words = SubSeq(order, e + 1, Len(argv))

Arranged(C, e, stop, tail) ==
  /\ stop \in 1..(Len(argv) + 1) /\ e \in 1..stop /\ tail \in Seq(Options)
  /\ Cuts(order, C, e, tail)
  /\ InOrder(order, e..(stop - 1)) /\ WordsIn(order, e..(stop - 1))
  /\ e < stop => gnu
  /\ Ends(e, stop, tail)

(* The second pass reads the options in front, passes the words behind     *)
(* them, and stops where the first has: it moves nothing.                  *)
Kept(Q) == IF bufmax >= 0 /\ bufmax < Len(Q) THEN SubSeq(Q, 1, bufmax) ELSE Q

Stands(C, e, stop, tail, Q) ==
  \/ /\ at \in C /\ at < e /\ nonops = 0 /\ Reached(order[at])
     /\ Q \o ToCome(order[at], Place).options = Meant.options
  \/ /\ at = stop /\ Illegal(stop) /\ nonops = at - e /\ Reached(stop)
     /\ Q \o ToCome(stop, Place).options = Meant.options
  \/ /\ at \in e..stop /\ (at = stop => ~Illegal(stop)) /\ nonops = at - e
     /\ Q \o tail = Meant.options

StoreRun ==
  /\ LongsInOrder(order) /\ nonOptions = <<>>
  /\ buffer_max - 1 = Len(Meant.options)
  /\ \E C, e, stop, tail :
       /\ Arranged(C, e, stop, tail)
       /\ \E Q \in Seq(Options) : buffer = Kept(Q) /\ Stands(C, e, stop, tail, Q)

(* How a parse ends. *)
Ended ==
  /\ pass \in {"done", "error"} =>
       buffer = Kept(Meant.options) /\ buffer_max - 1 = Len(Meant.options)
  /\ pass = "done" => Meant.verdict = "ok" /\ nonOptions = Meant.words
  /\ pass = "error" => Meant.verdict = "ILLEGAL"
  /\ pass = "terminated" => Meant.verdict = "throws"

ParseInv ==
  /\ ParserInv /\ RestInv
  /\ pass = "count" => CountRun
  /\ pass = "store" => StoreRun
  /\ Ended

(* The second pass starts as its invariant says. *)
Fresh ==
  /\ at = 1 /\ nonops = 0 /\ rest = <<>> /\ buffer = <<>> /\ nonOptions = <<>>
  /\ buffer_max - 1 = Len(Meant.options) /\ LongsInOrder(order)

LEMMA StoreStarts ==
  ParserInv /\ Fresh /\ (\E C, e, stop, tail : Arranged(C, e, stop, tail)) => StoreRun
<1> SUFFICES ASSUME ParserInv, Fresh, NEW C, NEW e, NEW stop, NEW tail,
                    Arranged(C, e, stop, tail)
             PROVE  StoreRun
  OBVIOUS
<1>1. /\ at = 1 /\ nonops = 0 /\ rest = <<>> /\ Place = 1 BY DEF Fresh, Place
<1>2. /\ stop \in 1..(Len(argv) + 1) /\ e \in 1..stop /\ tail \in Seq(Options)
      /\ Cuts(order, C, e, tail) /\ Ends(e, stop, tail) /\ Len(argv) \in Nat
  BY OrderIs DEF Arranged
<1>3. /\ <<>> \in Seq(Options) /\ buffer = Kept(<<>>)
  BY DEF Fresh, Kept, ParserInv
<1>4. \A s \in Seq(Options) : <<>> \o s = s BY ConcatEmptySeq
<1>5. \A i : Reached(i) BY <1>1 DEF Reached
<1>6. Stands(C, e, stop, tail, <<>>)
  <2>1. CASE 1 < e
    <3>1. /\ 1 \in C /\ IsOption(order[1]) /\ Meant.options = After(order[1]).options
      BY <1>2, <2>1 DEF Cuts, Cut
    <3>2. ToCome(order[1], 1).options = After(order[1]).options BY <3>1, AfterOption
    <3>3. After(order[1]).options \in Seq(Options) BY <3>1, AfterType DEF IsOption
    <3>4. <<>> \o ToCome(order[1], 1).options = Meant.options BY <1>4, <3>1, <3>2, <3>3
    <3>5. QED BY <1>1, <1>5, <2>1, <3>1, <3>4 DEF Stands
  <2>2. CASE ~(1 < e)
    <3>1. e = 1 /\ Meant.options = tail BY <1>2, <2>2 DEF Cuts
    <3>2. CASE stop = 1 /\ Illegal(stop)
      <4>1. tail = After(1).options
        <5>1. IsOption(1) /\ order[1] = 1 BY <3>2 DEF Illegal
        <5>2. ~AtWord(1) /\ ~AtTerminator(1)
          <6>1. argv[1].kind \in {"long", "short"} /\ 1 # Len(argv) + 1
            BY <1>2, <5>1 DEF IsOption, OptionArguments
          <6>2. QED BY <5>1, <6>1 DEF AtWord, AtTerminator
        <5>3. QED BY <1>2, <3>2, <5>2 DEF Ends
      <4>2. IsOption(1) BY <3>2 DEF Illegal
      <4>3. ToCome(1, 1).options = After(1).options BY <4>2, AfterOption
      <4>4. <<>> \o ToCome(1, 1).options = Meant.options BY <1>2, <1>4, <3>1, <4>1, <4>3
      <4>5. QED BY <1>1, <1>5, <3>1, <3>2, <4>4 DEF Stands
    <3>3. CASE ~(stop = 1 /\ Illegal(stop))
      <4>1. <<>> \o tail = Meant.options BY <1>2, <1>4, <3>1
      <4>2. at \in e..stop /\ (at = stop => ~Illegal(stop)) /\ nonops = at - e
        BY <1>1, <1>2, <3>1, <3>3
      <4>3. QED BY <4>1, <4>2 DEF Stands
    <3>4. QED BY <3>2, <3>3
  <2>3. QED BY <2>1, <2>2
<1>7. QED BY <1>3, <1>6 DEF StoreRun, Fresh


LEMMA InitRun == Init => ParseInv
<1> SUFFICES ASSUME Init PROVE ParseInv
  OBVIOUS
<1> DEFINE n == Len(argv)
<1>1. ParserInv BY InitTypes
<1>2. /\ n \in Nat /\ order \in [1..n -> 1..n] /\ Passed = 1
  BY <1>1, OrderIs DEF Init, Passed
<1>3. /\ pass = "count" /\ at = 1 /\ nonops = 0 /\ rest = <<>> /\ buffer_max = 1
      /\ buffer = <<>> /\ nonOptions = <<>> /\ \A i \in 1..n : order[i] = i
  BY <1>1, OrderIs DEF Init
<1> HIDE DEF n
<1>4. Place = 1 BY <1>3 DEF Place
<1>5. RestInv /\ Reached(at) /\ Ended BY <1>3, <1>4 DEF RestInv, Reached, Ended
<1>6. Sorted(order, at, nonops)
  <2>1. at - nonops = 1 /\ at - 1 = 0 /\ at - nonops - 1 = 0 /\ at = 1 BY <1>3
  <2>2. QED BY <1>3, <2>1 DEF Sorted, InOrder, WordsIn, n
<1>7. /\ Meant = After(at) /\ Meant.words \in Seq(Nat) /\ Meant.options \in Seq(Options)
  <2>1. Meant = After(1) /\ 1 \in 1..(n + 1) BY <1>2 DEF Meant, Meaning, After
  <2>2. After(1).words \in Seq(Nat) /\ After(1).options \in Seq(Options)
    BY <1>1, <2>1, AfterType DEF n
  <2>3. QED BY <1>3, <2>1, <2>2
<1>8. Meant.words = PassedWords \o After(at).words
  <2>1. PassedWords = <<>> BY <1>3 DEF PassedWords
  <2>2. QED BY <1>7, <2>1, ConcatEmptySeq
<1>9. (buffer_max - 1) + Len(ToCome(at, Place).options) = Len(Meant.options)
  <2>1. ToCome(at, Place) = After(at)
    <3>1. CASE IsOption(at) BY <1>1, <1>3, <1>4, <3>1, AfterOption
    <3>2. CASE ~IsOption(at) BY <3>2 DEF ToCome
    <3>3. QED BY <3>1, <3>2
  <2>2. Len(Meant.options) \in Nat BY <1>7
  <2>3. buffer_max - 1 = 0 BY <1>3
  <2>4. QED BY <1>7, <2>1, <2>2, <2>3
<1>10. Cuts(order, {1}, Passed, After(at).options)
  BY <1>2, <1>7 DEF Cuts
<1>11. QED BY <1>1, <1>3, <1>5, <1>6, <1>7, <1>8, <1>9, <1>10 DEF ParseInv, CountRun

-----------------------------------------------------------------------------
(* The first pass. *)

(* It reads the arguments where they were. *)
LEMMA CountReads ==
  ASSUME ParserInv, CountRun, at <= Len(argv), Argument \in OptionArguments
  PROVE  /\ order[at] = at /\ Argument = argv[at] /\ Following = FollowingAt(argv, at)
         /\ IsOption(at) /\ Place \in 1..Width(argv[at])
         /\ Ahead(at, Place, OptionIn(Argument, Place, Following))
<1> DEFINE n == Len(argv)
<1>1. n \in Nat /\ at \in 1..n /\ Len(order) = n BY OrderIs, AtArgument
<1>2. \A j \in at..n : order[j] = j BY DEF CountRun, Sorted
<1>3. order[at] = at /\ Argument = argv[at] BY <1>1, <1>2 DEF Argument
<1>4. at < n => order[at + 1] = at + 1 BY <1>1, <1>2
<1>5. Following = FollowingAt(argv, at) BY <1>1, <1>4 DEF Following, FollowingAt
<1>6. IsOption(at) BY <1>1, <1>3 DEF IsOption
<1>7. Place \in 1..Width(argv[at]) BY <1>3, PlaceType
<1>8. QED BY <1>3, <1>5, <1>6, <1>7, StepAhead

(* What is still to come at an option depends on how its argument ends. *)
LEMMA EndsAs ==
  ASSUME ParserInv, NEW i, IsOption(i), Reached(i)
  PROVE  /\ Given(i)[Place].verdict = Given(i)[1].verdict
         /\ Given(i)[Place].took = Given(i)[1].took
         /\ Given(i)[1].verdict \in Fatal => After(i).verdict = Given(i)[1].verdict
         /\ Given(i)[1].verdict \notin Fatal =>
              /\ After(i).verdict = After(i + 1 + Given(i)[1].took).verdict
              /\ After(i).words = After(i + 1 + Given(i)[1].took).words
<1>1. After(i) = ToCome(i, 1) BY AfterOption
<1> DEFINE k == i + 1 + Given(i)[1].took
           s == Given(i)[1].options \o After(k).options
<1> HIDE DEF s
<1>2. Given(i)[1].verdict \notin Fatal =>
        ToCome(i, 1) = [options |-> s, words |-> After(k).words, verdict |-> After(k).verdict]
  BY DEF ToCome, s
<1>3. Given(i)[1].verdict \in Fatal =>
        ToCome(i, 1) = [options |-> Given(i)[1].options, words |-> <<>>,
                        verdict |-> Given(i)[1].verdict]
  BY DEF ToCome
<1>4. QED BY <1>1, <1>2, <1>3 DEF Reached

(* The command line stays as it is. *)
LEMMA SameLine ==
  ASSUME UNCHANGED inputVars
  PROVE  /\ Meant' = Meant /\ gnu' = gnu /\ bufmax' = bufmax /\ argv' = argv
         /\ \A i : /\ After(i)' = After(i) /\ Given(i)' = Given(i)
                   /\ IsOption(i)' <=> IsOption(i)
         /\ \A i, j : ToCome(i, j)' = ToCome(i, j)
         /\ \A o, C, e, tail : Cuts(o, C, e, tail)' <=> Cuts(o, C, e, tail)
         /\ \A o, next, passed : Sorted(o, next, passed)' <=> Sorted(o, next, passed)
         /\ \A o, places : WordsIn(o, places)' <=> WordsIn(o, places)
         /\ \A o : LongsInOrder(o)' <=> LongsInOrder(o)
         /\ \A Q : Kept(Q)' = Kept(Q)
<1>1. gnu' = gnu /\ bufmax' = bufmax /\ argv' = argv BY DEF inputVars
<1>2. Meant' = Meant BY <1>1 DEF Meant
<1>3. \A i : After(i)' = After(i) /\ Given(i)' = Given(i) /\ (IsOption(i)' <=> IsOption(i))
  BY <1>1 DEF After, Given, IsOption
<1>4. \A i, j : ToCome(i, j)' = ToCome(i, j) BY <1>3 DEF ToCome
<1>5. \A o, C, e, tail, c : Cut(o, C, e, tail, c)' <=> Cut(o, C, e, tail, c)
  BY <1>3 DEF Cut
<1>6. \A o, C, e, tail : Cuts(o, C, e, tail)' <=> Cuts(o, C, e, tail)
  BY <1>2, <1>3, <1>5 DEF Cuts
<1>7. \A o, places : WordsIn(o, places)' <=> WordsIn(o, places) BY <1>1 DEF WordsIn
<1>8. \A o, next, passed : Sorted(o, next, passed)' <=> Sorted(o, next, passed)
  BY <1>1, <1>7 DEF Sorted
<1>9. \A o : LongsInOrder(o)' <=> LongsInOrder(o) BY <1>1 DEF LongsInOrder
<1>10. \A Q : Kept(Q)' = Kept(Q) BY <1>1 DEF Kept
<1>11. QED BY <1>1, <1>2, <1>3, <1>4, <1>6, <1>7, <1>8, <1>9, <1>10

LEMMA FromStart ==
  ASSUME ParserInv, NEW i
  PROVE  ToCome(i, 1) = After(i)
<1>1. CASE IsOption(i) BY <1>1, AfterOption
<1>2. CASE ~IsOption(i) BY <1>2 DEF ToCome
<1>3. QED BY <1>1, <1>2

(* The words passed move along. *)
LEMMA WordsCarried ==
  ASSUME ParserInv, at <= Len(argv), NEW took \in {0, 1}, at + took <= Len(argv),
         nonops' = nonops, at' = at + 1 + took,
         \A i \in 1..Len(argv) : order'[i] = Carried(took, i)
  PROVE  /\ PassedWords' = PassedWords /\ Passed' = Passed + 1 + took
         /\ \A i \in 1..(Passed - 1) : order'[i] = order[i]
         /\ order'[Passed] = order[at] /\ (took = 1 => order'[Passed + 1] = order[at + 1])
<1> DEFINE n == Len(argv)
<1>1. /\ n \in Nat /\ at \in 1..n /\ at + took <= n /\ took \in Int
      /\ nonops \in 0..(at - 1) /\ Passed = at - nonops
  BY OrderIs DEF Passed
<1> HIDE DEF n
<1>2. Passed' = Passed + 1 + took BY <1>1 DEF Passed
<1>3. ASSUME NEW k \in 1..nonops PROVE order'[Passed' - 1 + k] = order[Passed - 1 + k]
  <2> DEFINE i == Passed + took + k
  <2>1. /\ i \in (Passed + took + 1)..(at + took) /\ i \in 1..n
        /\ i \notin Passed..(Passed + took)
        /\ Passed' - 1 + k = i /\ i - 1 - took = Passed - 1 + k
    BY <1>1, <1>2
  <2> HIDE DEF i
  <2>2. order'[i] = Carried(took, i) /\ Carried(took, i) = order[i - 1 - took]
    BY <2>1 DEF Carried, n
  <2>3. QED BY <2>1, <2>2
<1>4. PassedWords' = PassedWords BY <1>3 DEF PassedWords
<1>5. ASSUME NEW i \in 1..(Passed - 1) PROVE order'[i] = order[i]
  <2>1. /\ i \in 1..n /\ i \notin Passed..(Passed + took)
        /\ i \notin (Passed + took + 1)..(at + took)
    BY <1>1
  <2>2. QED BY <2>1 DEF Carried, n
<1>6. order'[Passed] = order[at]
  <2>1. Passed \in 1..n /\ Passed \in Passed..(Passed + took) /\ Passed + nonops = at BY <1>1
  <2>2. QED BY <2>1 DEF Carried, n
<1>7. ASSUME took = 1 PROVE order'[Passed + 1] = order[at + 1]
  <2>1. /\ Passed + 1 \in 1..n /\ Passed + 1 \in Passed..(Passed + took)
        /\ Passed + 1 + nonops = at + 1
    BY <1>1, <1>7
  <2>2. QED BY <2>1 DEF Carried, n
<1>8. QED BY <1>2, <1>4, <1>5, <1>6, <1>7

(* The first pass moves an option to the front. *)
LEMMA CountMoves ==
  ASSUME ParserInv, ParserInv', RestInv, CountRun, at <= Len(argv),
         Argument \in OptionArguments, UNCHANGED <<inputVars, nonops, buffer, nonOptions>>,
         NEW one, one = OptionIn(Argument, Place, Following), one.verdict \notin Fatal,
         one.verdict = "OK" \/ Place = Width(Argument), Advance(<<>>, one.took),
         buffer_max' = buffer_max + Len(one.options)
  PROVE  CountRun' /\ RestInv'
<1> DEFINE n == Len(argv)
           t == one.took
           p == at
           k == p + 1 + t
<1>1. /\ order[p] = p /\ Argument = argv[p] /\ IsOption(p) /\ Ahead(p, Place, one)
      /\ n \in Nat /\ p \in 1..n /\ order \in [1..n -> 1..n]
  BY CountReads, OrderIs
<1>2. /\ t \in {0, 1} /\ one.options \in Seq(Options)
      /\ Given(p)[Place].verdict \notin Fatal /\ Given(p)[Place].took = t
      /\ k \in 1..(n + 1) /\ ToCome(p, Place).options = one.options \o After(k).options
  BY <1>1 DEF Ahead, OneResult
<1>3. Given(p)[1].verdict \notin Fatal /\ Given(p)[1].took = t
  BY <1>1, <1>2, EndsAs DEF CountRun
<1>4. After(p).verdict = After(k).verdict /\ After(p).words = After(k).words
  BY <1>1, <1>3, EndsAs DEF CountRun
<1>5. p + t <= n BY <1>1, <1>2
<1> HIDE DEF t, k, n
<1>6. /\ rest' = <<>> /\ at' = k /\ \A i \in 1..n : order'[i] = Carried(t, i)
  BY <1>2, <1>5, Moves DEF t, k, n
<1>7. /\ PassedWords' = PassedWords /\ Passed' = Passed + 1 + t
      /\ \A i \in 1..(Passed - 1) : order'[i] = order[i]
      /\ order'[Passed] = order[p] /\ (t = 1 => order'[Passed + 1] = order[p + 1])
  BY <1>2, <1>5, <1>6, WordsCarried DEF n, k
<1>8. Sorted(order, at, nonops)'
  BY <1>2, <1>5, <1>6, MoveKeepsOrder, SameLine DEF n, k, CountRun
<1>9. Place' = 1 /\ RestInv' BY <1>6 DEF Place, RestInv
<1>10. Reached(at)' BY <1>9 DEF Reached
<1>11. After(at)' = After(k) BY <1>6, SameLine
<1>12. /\ Meant'.words = PassedWords' \o After(k).words
       /\ Meant'.verdict = After(k).verdict
  BY <1>4, <1>7, SameLine DEF CountRun
<1>13. (buffer_max' - 1) + Len(After(k).options) = Len(Meant.options)
  <2>1. After(k).options \in Seq(Options) BY <1>2, AfterType DEF n
  <2>2. /\ Len(ToCome(p, Place).options) = Len(one.options) + Len(After(k).options)
        /\ Len(one.options) \in Nat /\ Len(After(k).options) \in Nat
    BY <1>2, <2>1, Concats
  <2>3. buffer_max \in Nat BY DEF ParserInv, StoreInv
  <2>4. (buffer_max - 1) + Len(ToCome(p, Place).options) = Len(Meant.options) BY DEF CountRun
  <2>5. Len(Meant.options) \in Nat BY <2>2, <2>3, <2>4
  <2>6. PICK x \in Nat : x = Len(one.options) BY <2>2
  <2>7. PICK y \in Nat : y = Len(After(k).options) BY <2>2
  <2>8. (buffer_max - 1) + (x + y) = Len(Meant.options) BY <2>2, <2>4, <2>6, <2>7
  <2>9. buffer_max' = buffer_max + x BY <2>6
  <2>10. (buffer_max' - 1) + y = Len(Meant.options) BY <2>3, <2>5, <2>8, <2>9
  <2>11. QED BY <2>7, <2>10
<1>14. ToCome(at, Place)' = After(k)
  <2>1. ToCome(at, Place)' = ToCome(k, 1) BY <1>6, <1>9, SameLine
  <2>2. QED BY <2>1, FromStart
<1>15. \E C : Cuts(order', C, Passed', After(k).options)
  <2>1. PICK C : Cuts(order, C, Passed, After(p).options) BY DEF CountRun
  <2>2. Passed \in Nat BY OrderIs
  <2>3. t = 1 => order'[Passed + 1] = p + 1
    <3>1. SUFFICES ASSUME t = 1 PROVE order[p + 1] = p + 1 BY <1>7
    <3>2. p + 1 \in at..n BY <1>1, <1>5, <3>1
    <3>3. QED BY <3>2 DEF CountRun, Sorted, n
  <2>4. Cuts(order', C \cup {Passed'}, Passed', After(k).options)
    BY <1>1, <1>2, <1>3, <1>7, <2>1, <2>2, <2>3, CutsGrow DEF k
  <2>5. QED BY <2>4
<1>16. \E C : Cuts(order, C, Passed, After(at).options)'
  BY <1>11, <1>15, SameLine
<1>17. buffer' = <<>> /\ nonOptions' = <<>> BY DEF CountRun
<1>18. (Meant.words = PassedWords \o After(at).words)' /\ (Meant.verdict = After(at).verdict)'
  BY <1>11, <1>12
<1>19. ((buffer_max - 1) + Len(ToCome(at, Place).options) = Len(Meant.options))'
  BY <1>13, <1>14, SameLine
<1>20. QED BY <1>8, <1>9, <1>10, <1>16, <1>17, <1>18, <1>19 DEF CountRun

(* ... or goes on in a group. *)
LEMMA CountStays ==
  ASSUME ParserInv, ParserInv', RestInv', CountRun, at <= Len(argv),
         Argument \in OptionArguments, UNCHANGED <<inputVars, nonops, buffer, nonOptions>>,
         NEW one, one = OptionIn(Argument, Place, Following), one.verdict \notin Fatal,
         ~(one.verdict = "OK" \/ Place = Width(Argument)),
         order' = order, at' = at, Place' = Place + 1,
         buffer_max' = buffer_max + Len(one.options)
  PROVE  CountRun'
<1> DEFINE p == at
<1>1. Argument = argv[p] /\ IsOption(p) /\ Ahead(p, Place, one) BY CountReads
<1>2. /\ one.options \in Seq(Options) /\ Given(p)[Place].took = Given(p)[Place + 1].took
      /\ Given(p)[Place].verdict = Given(p)[Place + 1].verdict
      /\ ToCome(p, Place).options = one.options \o ToCome(p, Place + 1).options
      /\ ToCome(p, Place + 1).options \in Seq(Options)
  BY <1>1 DEF Ahead, OneResult
<1>3. Reached(at)'
  <2>1. Given(p)[Place + 1].took = Given(p)[1].took
        /\ Given(p)[Place + 1].verdict = Given(p)[1].verdict
    BY <1>1, <1>2 DEF CountRun, Reached
  <2>2. Given(at)' = Given(p) BY SameLine
  <2>3. QED BY <2>1, <2>2 DEF Reached
<1>4. After(at)' = After(p) /\ Meant' = Meant /\ Passed' = Passed BY SameLine DEF Passed
<1>5. ToCome(at, Place)' = ToCome(p, Place + 1) BY SameLine
<1>6. (buffer_max' - 1) + Len(ToCome(p, Place + 1).options) = Len(Meant.options)
  <2>1. PICK x \in Nat : x = Len(one.options) BY <1>2
  <2>2. PICK y \in Nat : y = Len(ToCome(p, Place + 1).options) BY <1>2
  <2>3. Len(ToCome(p, Place).options) = x + y BY <1>2, <2>1, <2>2, Concats
  <2>4. (buffer_max - 1) + (x + y) = Len(Meant.options) BY <2>3 DEF CountRun
  <2>5. buffer_max \in Nat BY DEF ParserInv, StoreInv
  <2>6. buffer_max' = buffer_max + x BY <2>1
  <2>7. (buffer_max' - 1) + y = Len(Meant.options) BY <2>4, <2>5, <2>6
  <2>8. QED BY <2>2, <2>7
<1>7. PassedWords' = PassedWords BY <1>4 DEF PassedWords
<1>8. Sorted(order, at, nonops)' BY SameLine DEF CountRun
<1>9. \E C : Cuts(order, C, Passed, After(at).options)' BY <1>4, SameLine DEF CountRun
<1>10. (Meant.words = PassedWords \o After(at).words)' /\ (Meant.verdict = After(at).verdict)'
  BY <1>4, <1>7 DEF CountRun
<1>11. ((buffer_max - 1) + Len(ToCome(at, Place).options) = Len(Meant.options))'
  BY <1>4, <1>5, <1>6
<1>12. buffer' = <<>> /\ nonOptions' = <<>> BY DEF CountRun
<1>13. QED BY <1>3, <1>8, <1>9, <1>10, <1>11, <1>12 DEF CountRun

(* Where it stops the second pass has all it needs. *)
LEMMA SameArray ==
  ASSUME UNCHANGED <<inputVars, order>>
  PROVE  \A C, e, stop, tail : Arranged(C, e, stop, tail)' <=> Arranged(C, e, stop, tail)
<1>1. \A i : /\ Illegal(i)' <=> Illegal(i)
             /\ AtWord(i)' <=> AtWord(i)
             /\ AtTerminator(i)' <=> AtTerminator(i)
  BY SameLine DEF Illegal, AtWord, AtTerminator
<1>2. \A e, stop, tail : Ends(e, stop, tail)' <=> Ends(e, stop, tail)
  BY <1>1, SameLine DEF Ends
<1>3. Options' = Options OBVIOUS
<1>4. QED BY <1>2, SameLine DEF Arranged

LEMMA StopsHere ==
  ASSUME ParserInv, CountRun, Ends(Passed, at, After(at).options)
  PROVE  \E C, e, stop, tail : Arranged(C, e, stop, tail)
<1>1. /\ Len(argv) \in Nat /\ at \in 1..(Len(argv) + 1) /\ Passed \in 1..at
      /\ Passed = at - nonops /\ nonops \in 0..(at - 1)
  BY OrderIs DEF Passed
<1>2. PICK C : Cuts(order, C, Passed, After(at).options) BY DEF CountRun
<1>3. After(at).options \in Seq(Options) BY <1>1, AfterType
<1>4. /\ InOrder(order, Passed..(at - 1)) /\ WordsIn(order, Passed..(at - 1))
      /\ nonops > 0 => gnu
  BY <1>1 DEF CountRun, Sorted
<1>5. Passed < at => gnu BY <1>1, <1>4
<1>6. Arranged(C, Passed, at, After(at).options)
  BY <1>1, <1>2, <1>3, <1>4, <1>5 DEF Arranged
<1>7. QED BY <1>6

LEMMA SecondPass ==
  ASSUME ParserInv, ParserInv', CountRun, StartStore, buffer_max - 1 = Len(Meant.options),
         UNCHANGED <<inputVars, statsVars, storeVars, nonOptions>>, LongsInOrder(order)',
         (\E C, e, stop, tail : Arranged(C, e, stop, tail))'
  PROVE  ParseInv'
<1>1. at' = 1 /\ nonops' = 0 /\ rest' = <<>> /\ pass' = "store" BY DEF StartStore
<1>2. buffer' = <<>> /\ nonOptions' = <<>> /\ buffer_max' = buffer_max
  BY DEF CountRun, storeVars, statsVars
<1>3. (buffer_max - 1 = Len(Meant.options))' BY <1>2, SameLine
<1>4. Fresh' BY <1>1, <1>2, <1>3 DEF Fresh
<1>5. (ParserInv /\ Fresh /\ (\E C, e, stop, tail : Arranged(C, e, stop, tail)) => StoreRun)'
  BY StoreStarts, PTL
<1>6. StoreRun' BY <1>4, <1>5
<1>7. RestInv' /\ Ended' BY <1>1 DEF RestInv, Ended
<1>8. QED BY <1>1, <1>6, <1>7 DEF ParseInv

LEMMA CountHandles ==
  ASSUME ParseInv, ParserInv', pass = "count", at <= Len(argv),
         Argument \in OptionArguments, UNCHANGED inputVars,
         NEW one, one = OptionIn(Argument, Place, Following), Handles(one)
  PROVE  ParseInv'
<1> DEFINE p == at
<1>1. ParserInv /\ RestInv /\ CountRun BY DEF ParseInv
<1>2. IsOption(p) /\ Ahead(p, Place, one) /\ Place \in 1..Width(Argument) BY <1>1, CountReads
<1>3. order \in [1..Len(argv) -> Int] /\ at \in 1..(Len(argv) + 1) /\ nonops \in 0..(at - 1)
  BY <1>1, OrderIs
<1>4. one.verdict \in Fatal =>
        /\ Given(p)[1].verdict = one.verdict /\ Meant.verdict = one.verdict
        /\ buffer_max - 1 = Len(Meant.options)
  <2>1. SUFFICES ASSUME one.verdict \in Fatal
                 PROVE  /\ Given(p)[1].verdict = one.verdict /\ Meant.verdict = one.verdict
                        /\ buffer_max - 1 = Len(Meant.options)
    OBVIOUS
  <2>2. Given(p)[Place].verdict = one.verdict /\ ToCome(p, Place).options = <<>>
    BY <1>2, <2>1 DEF Ahead
  <2>3. Given(p)[1].verdict = one.verdict /\ After(p).verdict = one.verdict
    BY <1>1, <1>2, <2>1, <2>2, EndsAs DEF CountRun
  <2>4. Meant.verdict = one.verdict BY <1>1, <2>3 DEF CountRun
  <2>5. buffer_max \in Nat BY <1>1 DEF ParserInv, StoreInv
  <2>6. (buffer_max - 1) + 0 = Len(Meant.options) BY <1>1, <2>2 DEF CountRun
  <2>7. QED BY <2>3, <2>4, <2>5, <2>6
<1>5. CASE /\ one.verdict = "throws" /\ pass' = "terminated"
           /\ UNCHANGED <<cursorVars, statsVars, storeVars, nonOptions>>
  <2>1. Meant'.verdict = "throws" BY <1>4, <1>5, SameLine DEF Fatal
  <2>2. RestInv'
    <3>1. order' = order /\ at' = at /\ rest' = rest BY <1>5 DEF cursorVars
    <3>2. Argument' = Argument BY <3>1 DEF Argument, inputVars
    <3>3. Place' = Place BY <3>1, <3>2 DEF Place
    <3>4. QED BY <1>1, <3>1, <3>2, <3>3 DEF RestInv
  <2>3. QED BY <1>5, <2>1, <2>2 DEF ParseInv, Ended
<1>6. CASE /\ one.verdict = "ILLEGAL" /\ StartStore
           /\ UNCHANGED <<order, statsVars, storeVars, nonOptions>>
  <2>1. /\ Given(p)[1].verdict = "ILLEGAL" /\ Meant.verdict = "ILLEGAL"
        /\ buffer_max - 1 = Len(Meant.options)
    BY <1>4, <1>6 DEF Fatal
  <2>2. \A j \in p..Len(argv) : order[j] = j BY <1>1 DEF CountRun, Sorted
  <2>3. order[p] = p /\ (p < Len(argv) => order[p + 1] = p + 1) BY <1>3, <2>2
  <2>4. Ends(Passed, p, After(p).options) BY <1>2, <2>1, <2>3 DEF Ends, Illegal
  <2>5. \E C, e, stop, tail : Arranged(C, e, stop, tail) BY <1>1, <2>4, StopsHere
  <2>6. (\E C, e, stop, tail : Arranged(C, e, stop, tail))' BY <1>6, <2>5, SameArray
  <2>7. LongsInOrder(order)
    BY <1>1, <1>3, LongsSorted DEF CountRun, ParserInv
  <2>8. LongsInOrder(order)' BY <1>6, <2>7, SameLine
  <2>9. QED BY <1>1, <1>6, <2>1, <2>6, <2>8, SecondPass
<1>7. CASE /\ one.verdict \notin Fatal /\ UNCHANGED <<pass, nonops, nonOptions>>
           /\ \/ one.options = <<>> /\ UNCHANGED <<statsVars, storeVars>>
              \/ \E o \in Options : one.options = <<o>> /\ Perform(o)
           /\ IF one.verdict = "OK" \/ Place = Width(Argument) THEN Advance(<<>>, one.took)
              ELSE order' = order /\ at' = at /\ rest' # <<>> /\ Place' = Place + 1 /\ RestInv'
  <2>1. buffer' = buffer /\ buffer_max' = buffer_max + Len(one.options)
    <3>1. buffer_max \in Nat BY <1>1 DEF ParserInv, StoreInv
    <3>2. CASE one.options = <<>> /\ UNCHANGED <<statsVars, storeVars>>
      BY <3>1, <3>2 DEF statsVars, storeVars
    <3>3. ASSUME NEW o \in Options, one.options = <<o>>, Perform(o)
          PROVE  buffer' = buffer /\ buffer_max' = buffer_max + Len(one.options)
      BY <3>1, <3>3 DEF Perform, CountOption, storeVars
    <3>4. QED BY <1>7, <3>2, <3>3
  <2>2. CountRun' /\ RestInv'
    <3>1. CASE one.verdict = "OK" \/ Place = Width(Argument)
      BY <1>1, <1>7, <2>1, <3>1, CountMoves
    <3>2. CASE ~(one.verdict = "OK" \/ Place = Width(Argument))
      BY <1>1, <1>7, <2>1, <3>2, CountStays
    <3>3. QED BY <3>1, <3>2
  <2>3. QED BY <1>7, <2>2 DEF ParseInv, Ended
<1>8. QED BY <1>5, <1>6, <1>7 DEF Handles

(* The words passed and those behind, as they stand in the array. *)
LEMMA WordsStand ==
  ASSUME ParserInv, NEW o \in [1..Len(argv) -> Nat], NEW s \in Nat \ {0}, NEW f, f = s + nonops,
         f <= Len(argv) + 1, \A k \in 1..nonops : o[s - 1 + k] = order[Passed - 1 + k],
         \A j \in f..Len(argv) : o[j] = j
  PROVE  PassedWords \o [k \in 1..(Len(argv) + 1 - f) |-> f + k - 1] = SubSeq(o, s, Len(argv))
<1> DEFINE n == Len(argv)
           behind == [k \in 1..(n + 1 - f) |-> f + k - 1]
           left == SubSeq(o, s, n)
<1>1. /\ n \in Nat /\ nonops \in Nat /\ f <= n + 1 /\ f \in Nat /\ f >= 1
      /\ order \in [1..n -> 1..n] /\ Passed + nonops = at /\ Passed >= 1 /\ Passed \in Nat
      /\ at <= n + 1 /\ at \in Nat
  <2>1. /\ n \in Nat /\ at \in 1..(n + 1) /\ nonops \in 0..(at - 1) /\ Passed = at - nonops
        /\ order \in [1..n -> 1..n]
    BY OrderIs DEF Passed
  <2>2. f \in Nat /\ f >= 1 BY <2>1
  <2>3. QED BY <2>1, <2>2
<1> HIDE DEF n
<1>2. PassedWords \in Seq(Nat) /\ Len(PassedWords) = nonops
  <2>1. \A k \in 1..nonops : order[Passed - 1 + k] \in Nat
    <3>1. \A k \in 1..nonops : Passed - 1 + k \in 1..n BY <1>1
    <3>2. QED BY <1>1, <3>1
  <2>2. QED BY <1>1, <2>1 DEF PassedWords
<1>3. behind \in Seq(Nat) /\ Len(behind) = n + 1 - f
  <2>1. n + 1 - f \in Nat /\ \A k \in 1..(n + 1 - f) : f + k - 1 \in Nat BY <1>1
  <2>2. QED BY <2>1
<1>4. \A i \in s..n : o[i] \in Nat
  <2>1. \A i \in s..n : i \in 1..n BY <1>1
  <2>2. QED BY <2>1 DEF n
<1>5. /\ left \in Seq(Nat) /\ Len(left) = IF s <= n THEN n - s + 1 ELSE 0
      /\ \A i \in 1..(n - s + 1) : left[i] = o[s + i - 1]
  BY <1>1, <1>4, SubSeqProperties
<1>6. Len(left) = n + 1 - s BY <1>1, <1>5
<1> DEFINE all == PassedWords \o behind
<1>7. /\ all \in Seq(Nat) /\ Len(all) = n + 1 - s
      /\ \A i \in 1..(n + 1 - s) :
           all[i] = IF i <= nonops THEN PassedWords[i] ELSE behind[i - nonops]
  <2> HIDE DEF behind
  <2>1. /\ all \in Seq(Nat) /\ Len(all) = nonops + (n + 1 - f)
        /\ \A i \in 1..(nonops + (n + 1 - f)) :
             all[i] = IF i <= nonops THEN PassedWords[i] ELSE behind[i - nonops]
    <3>1. PICK x \in Seq(Nat), y \in Seq(Nat) : x = PassedWords /\ y = behind BY <1>2, <1>3
    <3>2. PICK a, b : a = Len(x) /\ b = Len(y) OBVIOUS
    <3>3. /\ x \o y \in Seq(Nat) /\ Len(x \o y) = a + b
          /\ \A i \in 1..(a + b) : (x \o y)[i] = IF i <= a THEN x[i] ELSE y[i - a]
      BY <3>2, WordsJoined
    <3>4. a = nonops /\ b = n + 1 - f BY <1>2, <1>3, <3>1, <3>2
    <3>5. all = x \o y BY <3>1
    <3> HIDE DEF all
    <3>6. QED BY <3>1, <3>3, <3>4, <3>5
  <2>2. nonops + (n + 1 - f) = n + 1 - s BY <1>1
  <2> HIDE DEF all
  <2>3. QED BY <2>1, <2>2
<1>8. ASSUME NEW i \in 1..(n + 1 - s) PROVE all[i] = left[i]
  <2>1. left[i] = o[s - 1 + i]
    <3>1. i \in 1..(n - s + 1) /\ s + i - 1 = s - 1 + i BY <1>1
    <3>2. QED BY <1>5, <3>1
  <2>2. CASE i <= nonops
    <3>1. i \in 1..nonops BY <2>2
    <3>2. all[i] = order[Passed - 1 + i] BY <1>7, <2>2, <3>1 DEF PassedWords
    <3>3. QED BY <2>1, <3>1, <3>2
  <2>3. CASE ~(i <= nonops)
    <3>1. /\ i - nonops \in 1..(n + 1 - f) /\ f + (i - nonops) - 1 = s - 1 + i
          /\ s - 1 + i \in f..n
      BY <1>1, <2>3
    <3>2. all[i] = behind[i - nonops] BY <1>7, <2>3
    <3>3. behind[i - nonops] = s - 1 + i BY <3>1
    <3>4. o[s - 1 + i] = s - 1 + i BY <3>1 DEF n
    <3>5. QED BY <2>1, <3>2, <3>3, <3>4
  <2>4. QED BY <2>2, <2>3
<1> HIDE DEF all, left
<1>9. all = left BY <1>5, <1>6, <1>7, <1>8, SeqEqual
<1>10. QED BY <1>9 DEF all, left, behind, n

LEMMA CountWord ==
  ASSUME ParseInv, ParserInv', pass = "count", Word
  PROVE  ParseInv'
<1> DEFINE n == Len(argv)
           p == at
<1>1. ParserInv /\ RestInv /\ CountRun BY DEF ParseInv
<1>2. /\ Argument.kind = "word" /\ gnu /\ at' = p + 1 /\ nonops' = nonops + 1
      /\ UNCHANGED <<inputVars, pass, order, rest, statsVars, storeVars, nonOptions>>
  BY DEF Word
<1>3. /\ n \in Nat /\ p \in 1..n /\ order \in [1..n -> 1..n] /\ nonops \in 0..(p - 1)
      /\ Passed = p - nonops /\ Passed \in 1..p
  BY <1>1, OrderIs DEF Word, Passed, Reading
<1>4. order[p] = p /\ argv[p].kind = "word" /\ \A j \in p..n : order[j] = j
  <2>1. \A j \in p..n : order[j] = j BY <1>1 DEF CountRun, Sorted
  <2>2. order[p] = p BY <1>3, <2>1
  <2>3. QED BY <1>2, <2>1, <2>2 DEF Argument
<1>5. rest = <<>> BY <1>1, <1>2 DEF ParserInv, CursorInv
<1> HIDE DEF n
<1>6. Place = 1 /\ Place' = 1 /\ RestInv' BY <1>2, <1>5 DEF Place, RestInv
<1>7. Passed' = Passed BY <1>2, <1>3 DEF Passed
<1>8. /\ After(p).options = After(p + 1).options
      /\ After(p).words = <<p>> \o After(p + 1).words
      /\ After(p).verdict = After(p + 1).verdict
  BY <1>1, <1>2, <1>3, <1>4, AfterOther DEF n
<1>9. After(p + 1).words \in Seq(Nat)
  <2>1. p + 1 \in 1..(Len(argv) + 1) BY <1>3 DEF n
  <2>2. QED BY <1>1, <2>1, AfterType
<1>10. Sorted(order, p + 1, nonops + 1)
  <2>1. /\ \A i \in 1..(p - 1) : order[i] < p
        /\ InOrder(order, 1..(Passed - 1)) /\ InOrder(order, Passed..(p - 1))
        /\ WordsIn(order, Passed..(p - 1))
    BY <1>1, <1>3 DEF CountRun, Sorted
  <2>2. p + 1 - (nonops + 1) = Passed /\ p + 1 - 1 = p BY <1>3
  <2>3. \A j \in (p + 1)..n : order[j] = j BY <1>3, <1>4
  <2>4. ASSUME NEW i \in 1..p PROVE order[i] < p + 1
    <3>1. CASE i = p BY <1>3, <1>4, <3>1
    <3>2. CASE i # p
      <4>1. i \in 1..(p - 1) /\ order[i] \in Int BY <1>3, <3>2
      <4>2. order[i] < p BY <2>1, <4>1
      <4>3. QED BY <1>3, <4>1, <4>2
    <3>3. QED BY <3>1, <3>2
  <2>5. ASSUME NEW i \in Passed..p, NEW j \in Passed..p, i < j PROVE order[i] < order[j]
    <3>1. i \in Passed..(p - 1) /\ i \in 1..(p - 1) BY <1>3, <2>5
    <3>2. CASE j = p BY <1>4, <2>1, <3>1, <3>2
    <3>3. CASE j # p
      <4>1. j \in Passed..(p - 1) BY <1>3, <3>3
      <4>2. QED BY <2>1, <2>5, <3>1, <4>1 DEF InOrder
    <3>4. QED BY <3>2, <3>3
  <2>6. ASSUME NEW i \in Passed..p PROVE argv[order[i]].kind = "word"
    <3>1. CASE i = p BY <1>4, <3>1
    <3>2. CASE i # p
      <4>1. i \in Passed..(p - 1) BY <1>3, <3>2
      <4>2. QED BY <2>1, <4>1 DEF WordsIn
    <3>3. QED BY <3>1, <3>2
  <2>7. InOrder(order, Passed..p) /\ WordsIn(order, Passed..p)
    BY <2>5, <2>6 DEF InOrder, WordsIn
  <2>8. PICK next, passed : next = p + 1 /\ passed = nonops + 1 OBVIOUS
  <2>9. next - passed = Passed /\ next - 1 = p BY <1>3, <2>8
  <2>10. /\ \A j \in next..n : order[j] = j
         /\ \A i \in 1..(next - 1) : order[i] < next
         /\ InOrder(order, 1..(next - passed - 1))
         /\ InOrder(order, (next - passed)..(next - 1))
         /\ WordsIn(order, (next - passed)..(next - 1))
    BY <2>1, <2>3, <2>4, <2>7, <2>8, <2>9
  <2>11. Sorted(order, next, passed) BY <1>2, <2>10 DEF Sorted, n
  <2>12. QED BY <2>8, <2>11
<1>11. Sorted(order, at, nonops)' BY <1>2, <1>10, SameLine
<1>12. Meant.words = PassedWords' \o After(p + 1).words
  <2>1. PassedWords \in Seq(Nat)
    <3>1. \A k \in 1..nonops : Passed - 1 + k \in 1..n BY <1>3
    <3>2. \A k \in 1..nonops : order[Passed - 1 + k] \in Nat BY <1>3, <3>1
    <3>3. QED BY <1>3, <3>2 DEF PassedWords
  <2>2. PassedWords' = PassedWords \o <<p>>
    <3>1. PassedWords' = [k \in 1..(nonops + 1) |-> order[Passed - 1 + k]]
      BY <1>2, <1>7 DEF PassedWords
    <3>2. Len(PassedWords) = nonops /\ <<p>> \in Seq(Nat) /\ Len(<<p>>) = 1
      BY <1>3 DEF PassedWords
    <3> DEFINE longer == PassedWords \o <<p>>
               grown == [k \in 1..(nonops + 1) |-> order[Passed - 1 + k]]
    <3>3. /\ longer \in Seq(Nat) /\ Len(longer) = nonops + 1
          /\ \A i \in 1..(nonops + 1) :
               longer[i] = IF i <= nonops THEN PassedWords[i] ELSE <<p>>[i - nonops]
      <4>1. PICK x \in Seq(Nat), y \in Seq(Nat) : x = PassedWords /\ y = <<p>>
        BY <2>1, <3>2
      <4>2. PICK a, b : a = Len(x) /\ b = Len(y) OBVIOUS
      <4>3. /\ x \o y \in Seq(Nat) /\ Len(x \o y) = a + b
            /\ \A i \in 1..(a + b) : (x \o y)[i] = IF i <= a THEN x[i] ELSE y[i - a]
        BY <4>2, WordsJoined
      <4>4. a = nonops /\ b = 1 BY <3>2, <4>1, <4>2
      <4>5. longer = x \o y BY <4>1
      <4> HIDE DEF longer
      <4>6. QED BY <4>1, <4>3, <4>4, <4>5
    <3>4. grown \in Seq(Nat) /\ Len(grown) = nonops + 1
      <4>1. \A k \in 1..(nonops + 1) : Passed - 1 + k \in 1..n BY <1>3
      <4>2. \A k \in 1..(nonops + 1) : order[Passed - 1 + k] \in Nat BY <1>3, <4>1
      <4>3. QED BY <1>3, <4>2
    <3>5. ASSUME NEW i \in 1..(nonops + 1) PROVE longer[i] = grown[i]
      <4>1. CASE i <= nonops
        <5>1. i \in 1..nonops BY <4>1
        <5>2. QED BY <3>3, <4>1, <5>1 DEF PassedWords
      <4>2. CASE ~(i <= nonops)
        <5>1. i - nonops = 1 /\ Passed - 1 + i = p BY <1>3, <4>2
        <5>2. longer[i] = p BY <3>3, <4>2, <5>1
        <5>3. grown[i] = order[p] BY <5>1
        <5>4. QED BY <1>4, <5>2, <5>3
      <4>3. QED BY <4>1, <4>2
    <3> HIDE DEF longer, grown
    <3>6. longer = grown BY <3>3, <3>4, <3>5, SeqEqual
    <3>7. QED BY <3>1, <3>6 DEF longer, grown
  <2>3. <<p>> \in Seq(Nat) BY <1>3
  <2>4. (PassedWords \o <<p>>) \o After(p + 1).words =
           PassedWords \o (<<p>> \o After(p + 1).words)
    BY <1>9, <2>1, <2>3, ConcatsOfWords
  <2>5. QED BY <1>1, <1>8, <2>2, <2>4 DEF CountRun
<1>13. After(at)' = After(p + 1) /\ Meant' = Meant BY <1>2, SameLine
<1>14. ToCome(at, Place)' = After(p + 1) /\ ToCome(p, Place) = After(p)
  <2>1. ToCome(at, Place)' = ToCome(p + 1, 1) BY <1>2, <1>6, SameLine
  <2>2. QED BY <1>1, <1>6, <2>1, FromStart
<1>15. ((buffer_max - 1) + Len(ToCome(at, Place).options) = Len(Meant.options))'
  BY <1>1, <1>2, <1>8, <1>13, <1>14 DEF CountRun, statsVars
<1>16. \E C : Cuts(order, C, Passed, After(at).options)'
  <2>1. PICK C : Cuts(order, C, Passed, After(p).options) BY <1>1 DEF CountRun
  <2>2. Cuts(order, C, Passed, After(p + 1).options) BY <1>8, <2>1
  <2>3. QED BY <1>2, <1>7, <1>13, <2>2, SameLine
<1>17. /\ (Meant.words = PassedWords \o After(at).words)'
       /\ (Meant.verdict = After(at).verdict)'
  BY <1>1, <1>8, <1>12, <1>13 DEF CountRun
<1>18. buffer' = <<>> /\ nonOptions' = <<>> /\ Reached(at)'
  BY <1>1, <1>2, <1>6 DEF CountRun, storeVars, Reached
<1>19. CountRun' BY <1>11, <1>15, <1>16, <1>17, <1>18 DEF CountRun
<1>20. QED BY <1>2, <1>6, <1>19 DEF ParseInv, Ended

(* What is behind the options, where there are no more. *)
LEMMA WordsFromGives ==
  /\ \A i : WordsFrom(argv, i).options = <<>>
  /\ \A i : WordsFrom(argv, i).words = [k \in 1..(Len(argv) + 1 - i) |-> i + k - 1]
  /\ \A i : WordsFrom(argv, i).verdict = "ok"
BY DEF WordsFrom

LEMMA CountEnd ==
  ASSUME ParseInv, ParserInv', pass = "count", EndOfOptions
  PROVE  ParseInv'
<1> DEFINE n == Len(argv)
           p == at
<1>1. ParserInv /\ RestInv /\ CountRun BY DEF ParseInv
<1>2. /\ n \in Nat /\ p \in 1..(n + 1) /\ order \in [1..n -> 1..n] /\ DOMAIN order = 1..n
      /\ nonops \in 0..(p - 1) /\ Passed = p - nonops /\ Passed \in 1..p
  BY <1>1, OrderIs DEF Passed
<1>3. /\ p <= n => Argument.kind = "word" /\ ~gnu
      /\ StartStore /\ UNCHANGED <<inputVars, order, statsVars, storeVars, nonOptions>>
  BY <1>2 DEF EndOfOptions, Finished
<1>4. \A j \in p..n : order[j] = j BY <1>1 DEF CountRun, Sorted
<1>5. p <= n => order[p] = p /\ argv[p].kind = "word" BY <1>2, <1>3, <1>4 DEF Argument
<1>6. After(p) = WordsFrom(argv, p)
  <2>1. CASE p = n + 1 BY <1>1, <2>1, AfterOther
  <2>2. CASE p # n + 1
    <3>1. p \in 1..Len(argv) /\ p <= n BY <1>2, <2>2
    <3>2. QED BY <1>1, <1>3, <1>5, <3>1, AfterOther
  <2>3. QED BY <2>1, <2>2
<1>7. /\ After(p).options = <<>> /\ After(p).verdict = "ok"
      /\ After(p).words = [k \in 1..(Len(argv) + 1 - p) |-> p + k - 1]
  BY <1>6, WordsFromGives
<1>8. Meant.words = SubSeq(order, Passed, Len(argv))
  <2>1. PassedWords \o After(p).words = SubSeq(order, Passed, Len(argv))
    <3>1. Passed \in Nat \ {0} /\ p = Passed + nonops /\ p <= Len(argv) + 1 BY <1>2
    <3>2. order \in [1..Len(argv) -> Nat] BY <1>2
    <3>3. \A k \in 1..nonops : order[Passed - 1 + k] = order[Passed - 1 + k] OBVIOUS
    <3>4. PassedWords \o [k \in 1..(Len(argv) + 1 - p) |-> p + k - 1]
            = SubSeq(order, Passed, Len(argv))
      BY <1>1, <1>4, <3>1, <3>2, <3>3, WordsStand
    <3>5. QED BY <1>7, <3>4
  <2>2. QED BY <1>1, <2>1 DEF CountRun
<1>9. Ends(Passed, p, After(p).options)
  <2>1. AtWord(p) BY <1>2, <1>3, <1>5 DEF AtWord
  <2>2. Meant.verdict = "ok" BY <1>1, <1>7 DEF CountRun
  <2>3. QED BY <1>7, <1>8, <2>1, <2>2 DEF Ends
<1>10. buffer_max - 1 = Len(Meant.options)
  <2>1. rest = <<>>
    <3>1. rest # <<>> => p <= n /\ Argument.kind = "short" BY <1>1 DEF ParserInv, CursorInv
    <3>2. QED BY <1>3, <3>1
  <2>2. ToCome(p, Place) = After(p) BY <1>1, <2>1, FromStart DEF Place
  <2>3. (buffer_max - 1) + 0 = Len(Meant.options) BY <1>1, <1>7, <2>2 DEF CountRun
  <2>4. buffer_max \in Nat BY <1>1 DEF ParserInv, StoreInv
  <2>5. QED BY <2>3, <2>4
<1>11. (\E C, e, stop, tail : Arranged(C, e, stop, tail))'
  <2>1. \E C, e, stop, tail : Arranged(C, e, stop, tail) BY <1>1, <1>9, StopsHere
  <2>2. QED BY <1>3, <2>1, SameArray
<1>12. LongsInOrder(order)'
  <2>1. order \in [1..Len(argv) -> Int] BY <1>2
  <2>2. LongsInOrder(order) BY <1>1, <1>2, <2>1, LongsSorted DEF CountRun, ParserInv
  <2>3. QED BY <1>3, <2>2, SameLine
<1>13. QED BY <1>1, <1>3, <1>10, <1>11, <1>12, SecondPass

LEMMA CountTerminator ==
  ASSUME ParseInv, ParserInv', pass = "count", Terminator
  PROVE  ParseInv'
<1> DEFINE n == Len(argv)
           p == at
           e == Passed
<1>1. ParserInv /\ RestInv /\ CountRun BY DEF ParseInv
<1>2. /\ n \in Nat /\ p \in 1..n /\ order \in [1..n -> 1..n] /\ DOMAIN order = 1..n
      /\ nonops \in 0..(p - 1) /\ e = p - nonops /\ e \in 1..p
  BY <1>1, OrderIs DEF Passed, Terminator
<1>3. /\ Argument.kind = "terminator" /\ order' = Shift(order, p, nonops)
      /\ StartStore /\ UNCHANGED <<inputVars, statsVars, storeVars, nonOptions>>
  BY DEF Terminator, Finished
<1>4. /\ \A j \in p..n : order[j] = j
      /\ order[p] = p /\ argv[p].kind = "terminator"
  <2>1. \A j \in p..n : order[j] = j BY <1>1 DEF CountRun, Sorted
  <2>2. order[p] = p BY <1>2, <2>1
  <2>3. QED BY <1>3, <2>1, <2>2 DEF Argument
<1>5. \A i \in 1..Len(argv) : order'[i] = Carried(0, i) BY <1>1, <1>2, <1>3, Carries
<1>6. order' \in [1..n -> 1..n]
  <2>1. Permutes(order)' BY DEF ParserInv, CursorInv
  <2>2. DOMAIN argv = 1..n BY <1>1, OrderIs
  <2>3. QED BY <1>3, <2>1, <2>2 DEF Permutes, inputVars
<1>7. /\ \A i \in 1..(e - 1) : order'[i] = order[i]
      /\ order'[e] = p
      /\ \A k \in 1..nonops : order'[e + k] = order[e - 1 + k]
      /\ \A j \in (p + 1)..n : order'[j] = j
  <2>1. \A i \in 1..n : order'[i] = IF i \in e..e THEN order[i + nonops]
                                    ELSE IF i \in (e + 1)..p THEN order[i - 1] ELSE order[i]
    <3>1. e + 0 = e /\ e + 0 + 1 = e + 1 /\ p + 0 = p /\ \A i \in 1..n : i - 1 - 0 = i - 1
      BY <1>2
    <3>2. QED BY <1>5, <3>1 DEF Carried
  <2> HIDE DEF e, n
  <2>2. ASSUME NEW i \in 1..(e - 1) PROVE order'[i] = order[i]
    <3>1. i \in 1..n /\ i \notin e..e /\ i \notin (e + 1)..p BY <1>2
    <3>2. QED BY <2>1, <3>1
  <2>3. order'[e] = p
    <3>1. e \in 1..n /\ e \in e..e /\ e + nonops = p BY <1>2
    <3>2. QED BY <1>4, <2>1, <3>1
  <2>4. ASSUME NEW k \in 1..nonops PROVE order'[e + k] = order[e - 1 + k]
    <3>1. PICK i \in 1..n : i = e + k BY <1>2
    <3>2. i \notin e..e /\ i \in (e + 1)..p /\ i - 1 = e - 1 + k BY <1>2, <3>1
    <3>3. order'[i] = order[i - 1] BY <2>1, <3>2
    <3>4. QED BY <3>1, <3>2, <3>3
  <2>5. ASSUME NEW j \in (p + 1)..n PROVE order'[j] = j
    <3>1. j \in 1..n /\ j \notin e..e /\ j \notin (e + 1)..p /\ j \in p..n BY <1>2
    <3>2. QED BY <1>4, <2>1, <3>1
  <2>6. QED BY <2>2, <2>3, <2>4, <2>5
<1>8. /\ After(p).options = <<>> /\ After(p).verdict = "ok"
      /\ After(p).words = [k \in 1..(Len(argv) + 1 - (p + 1)) |-> (p + 1) + k - 1]
  <2>1. After(p) = WordsFrom(argv, p + 1) BY <1>1, <1>2, <1>4, AfterOther
  <2>2. QED BY <2>1, WordsFromGives
<1>9. Meant.words = SubSeq(order', e + 1, Len(argv))
  <2>1. PassedWords \o [k \in 1..(Len(argv) + 1 - (p + 1)) |-> (p + 1) + k - 1]
          = SubSeq(order', e + 1, Len(argv))
    <3>1. PICK s, f : s = e + 1 /\ f = p + 1 OBVIOUS
    <3>2. /\ s \in Nat \ {0} /\ f = s + nonops /\ f <= Len(argv) + 1 /\ s - 1 = e
          /\ order' \in [1..Len(argv) -> Nat]
      BY <1>2, <1>6, <3>1
    <3>3. /\ \A k \in 1..nonops : order'[s - 1 + k] = order[Passed - 1 + k]
          /\ \A j \in f..Len(argv) : order'[j] = j
      BY <1>7, <3>1, <3>2
    <3>4. PassedWords \o [k \in 1..(Len(argv) + 1 - f) |-> f + k - 1]
            = SubSeq(order', s, Len(argv))
      BY <1>1, <3>2, <3>3, WordsStand
    <3>5. QED BY <3>1, <3>4, Zenon
  <2>2. QED BY <1>1, <1>8, <2>1 DEF CountRun
<1>10. (\E C, f, stop, tail : Arranged(C, f, stop, tail))'
  <2>1. PICK C : Cuts(order, C, e, <<>>) BY <1>1, <1>8 DEF CountRun
  <2>2. Cuts(order', C, e, <<>>) BY <1>2, <1>7, <2>1, CutsSame
  <2>3. PICK f : f = e OBVIOUS
  <2> HIDE DEF e
  <2>4. Cuts(order, C, f, <<>>)' BY <1>3, <2>2, <2>3, SameLine
  <2>5. /\ f \in 1..(Len(argv') + 1) /\ f \in 1..f /\ ~(f < f)
        /\ \A i : i \notin f..(f - 1)
    BY <1>2, <1>3, <2>3 DEF inputVars
  <2>6. InOrder(order, f..(f - 1))' /\ WordsIn(order, f..(f - 1))'
    BY <2>5 DEF InOrder, WordsIn
  <2>7. AtTerminator(f)'
    <3>1. argv' = argv BY <1>3 DEF inputVars
    <3>2. QED BY <1>2, <1>4, <1>7, <2>3, <3>1 DEF AtTerminator
  <2>8. (Meant.verdict = "ok")' /\ (Meant.words = SubSeq(order, f + 1, Len(argv)))'
    <3>1. Meant' = Meant /\ argv' = argv BY <1>3, SameLine
    <3>2. Meant.verdict = "ok" BY <1>1, <1>8 DEF CountRun
    <3>3. QED BY <1>9, <2>3, <3>1, <3>2
  <2>9. Ends(f, f, <<>>)' BY <2>7, <2>8 DEF Ends
  <2>10. <<>> \in Seq(Options)' OBVIOUS
  <2>11. Arranged(C, f, f, <<>>)' BY <2>4, <2>5, <2>6, <2>9, <2>10 DEF Arranged
  <2>12. QED BY <2>11
<1>11. buffer_max - 1 = Len(Meant.options)
  <2>1. rest = <<>> BY <1>1, <1>3 DEF ParserInv, CursorInv
  <2>2. ToCome(p, Place) = After(p) BY <1>1, <2>1, FromStart DEF Place
  <2>3. (buffer_max - 1) + 0 = Len(Meant.options) BY <1>1, <1>8, <2>2 DEF CountRun
  <2>4. buffer_max \in Nat BY <1>1 DEF ParserInv, StoreInv
  <2>5. QED BY <2>3, <2>4
<1>12. LongsInOrder(order)'
  <2>1. PICK next : next = p + 1 + 0 OBVIOUS
  <2>2. Sorted(order', next, nonops)
    <3>1. at <= Len(argv) /\ at + 0 <= Len(argv) /\ 0 \in {0, 1} BY <1>2
    <3>2. QED BY <1>1, <1>5, <2>1, <3>1, MoveKeepsOrder DEF CountRun
  <2>3. next \in 1..(Len(argv) + 1) /\ nonops \in 0..(next - 1) BY <1>2, <2>1
  <2>4. order' \in [1..Len(argv) -> Int] BY <1>2, <1>6
  <2>5. LongsInOrder(order') BY <1>1, <2>2, <2>3, <2>4, LongsSorted DEF ParserInv
  <2>6. QED BY <1>3, <2>5, SameLine
<1>13. QED BY <1>1, <1>3, <1>10, <1>11, <1>12, SecondPass

-----------------------------------------------------------------------------
(* The second pass. *)

(* It keeps what it stores, as far as the buffer goes. *)
LEMMA KeptGrows ==
  ASSUME bufmax \in Int, NEW Q \in Seq(Options), NEW o \in Options
  PROVE  /\ bufmax >= 0 /\ Len(Kept(Q)) >= bufmax => Kept(Q \o <<o>>) = Kept(Q)
         /\ ~(bufmax >= 0 /\ Len(Kept(Q)) >= bufmax) => Kept(Q \o <<o>>) = Append(Kept(Q), o)
<1> DEFINE n == Len(Q)
           more == Q \o <<o>>
<1>1. /\ n \in Nat /\ more \in Seq(Options) /\ Len(more) = n + 1
      /\ \A i \in 1..n : more[i] = Q[i]
      /\ more = Append(Q, o)
  OBVIOUS
<1> HIDE DEF n, more
<1>2. ASSUME NEW m \in 0..n PROVE SubSeq(more, 1, m) = SubSeq(Q, 1, m)
  <2>1. /\ \A i \in 1..m : more[i] \in Options
        /\ \A i \in 1..m : Q[i] \in Options
    BY <1>1 DEF n
  <2>2. /\ SubSeq(more, 1, m) \in Seq(Options) /\ SubSeq(Q, 1, m) \in Seq(Options)
        /\ Len(SubSeq(more, 1, m)) = m /\ Len(SubSeq(Q, 1, m)) = m
        /\ \A i \in 1..m : SubSeq(more, 1, m)[i] = more[i] /\ SubSeq(Q, 1, m)[i] = Q[i]
    BY <1>1, <2>1, SubSeqProperties
  <2>3. QED BY <1>1, <2>2, SeqEqual
<1>3. CASE bufmax >= 0 /\ bufmax < n
  <2>1. Kept(Q) = SubSeq(Q, 1, bufmax) /\ Kept(more) = SubSeq(more, 1, bufmax)
    BY <1>1, <1>3 DEF Kept, n
  <2>2. \A i \in 1..bufmax : Q[i] \in Options BY <1>1, <1>3 DEF n
  <2>3. Len(SubSeq(Q, 1, bufmax)) = bufmax BY <1>1, <1>3, <2>2, SubSeqProperties
  <2>4. bufmax \in 0..n BY <1>1, <1>3
  <2>5. Kept(more) = Kept(Q) BY <1>2, <2>1, <2>4
  <2>6. Len(Kept(Q)) = bufmax BY <2>1, <2>3
  <2>7. bufmax >= 0 /\ Len(Kept(Q)) >= bufmax BY <1>3, <2>6
  <2>8. QED BY <2>5, <2>7 DEF more
<1>4. CASE ~(bufmax >= 0 /\ bufmax < n)
  <2>1. Kept(Q) = Q BY <1>4 DEF Kept, n
  <2>2. CASE bufmax >= 0 /\ n >= bufmax
    <3>1. n = bufmax /\ n \in 0..n BY <1>1, <1>4, <2>2
    <3>2. Kept(more) = SubSeq(more, 1, n) BY <1>1, <3>1 DEF Kept
    <3>3. SubSeq(Q, 1, n) = Q BY <1>1 DEF n
    <3>4. Kept(more) = Q BY <1>2, <3>1, <3>2, <3>3
    <3>5. QED BY <2>1, <2>2, <3>4 DEF n, more
  <2>3. CASE ~(bufmax >= 0 /\ n >= bufmax)
    <3>1. ~(bufmax >= 0 /\ bufmax < n + 1) BY <1>1, <2>3
    <3>2. Kept(more) = more BY <1>1, <3>1 DEF Kept
    <3>3. QED BY <1>1, <2>1, <2>3, <3>2 DEF n, more
  <2>4. QED BY <2>2, <2>3
<1>5. QED BY <1>3, <1>4

LEMMA StoreKeeps ==
  ASSUME ParserInv, pass = "store", NEW Q \in Seq(Options), buffer = Kept(Q),
         NEW one \in OneResult,
         \/ one.options = <<>> /\ UNCHANGED <<statsVars, storeVars>>
         \/ \E o \in Options : one.options = <<o>> /\ Perform(o)
  PROVE  /\ Q \o one.options \in Seq(Options) /\ buffer' = Kept(Q \o one.options)
         /\ buffer_max' = buffer_max
<1>1. bufmax \in Int BY DEF ParserInv
<1>2. CASE one.options = <<>> /\ UNCHANGED <<statsVars, storeVars>>
  <2>1. Q \o one.options = Q BY <1>2, ConcatEmptySeq
  <2>2. QED BY <1>2, <2>1 DEF statsVars, storeVars
<1>3. ASSUME NEW o \in Options, one.options = <<o>>, Perform(o)
      PROVE  /\ Q \o one.options \in Seq(Options) /\ buffer' = Kept(Q \o one.options)
             /\ buffer_max' = buffer_max
  <2>1. /\ bufmax >= 0 /\ Len(buffer) >= bufmax => buffer' = buffer
        /\ ~(bufmax >= 0 /\ Len(buffer) >= bufmax) => buffer' = Append(buffer, o)
        /\ buffer_max' = buffer_max
    BY <1>3 DEF Perform, StoreOption, statsVars, storeVars
  <2>2. buffer' = Kept(Q \o <<o>>) BY <1>1, <2>1, KeptGrows
  <2>3. Q \o <<o>> \in Seq(Options) OBVIOUS
  <2>4. QED BY <1>3, <2>1, <2>2, <2>3
<1>4. QED BY <1>2, <1>3

(* It reads what the first pass has left in front as the command line has it. *)
LEMMA CutReads ==
  ASSUME ParserInv, NEW C, NEW e, NEW stop, NEW tail, Arranged(C, e, stop, tail),
         at \in C, at < e, Reached(order[at])
  PROVE  LET p == order[at]
             one == OptionIn(Argument, Place, Following)
         IN /\ at <= Len(argv) /\ IsOption(p) /\ Argument = argv[p]
            /\ Place \in 1..Width(Argument)
            /\ Ahead(p, Place, one) /\ one.verdict \notin Fatal
<1> DEFINE n == Len(argv)
           p == order[at]
           h == Given(p)[1]
           f == FollowingAt(argv, p)
           first2 == OptionIn(argv[p], Place, f)
<1>1. /\ n \in Nat /\ at \in 1..(n + 1) /\ order \in [1..n -> 1..n] /\ Len(order) = n
      /\ argv \in Seq(Arguments)
  BY OrderIs DEF ParserInv
<1>2. /\ stop \in 1..(n + 1) /\ e \in 1..stop /\ C \in SUBSET (1..e)
      /\ Cut(order, C, e, tail, at)
  BY DEF Arranged, Cuts
<1>3. at \in 1..n BY <1>1, <1>2
<1>4. /\ IsOption(p) /\ h.verdict \notin Fatal /\ h.took \in {0, 1}
      /\ at + 1 + h.took \in C /\ (h.took = 1 => order[at + 1] = p + 1)
  BY <1>2 DEF Cut
<1>5. Argument = argv[p] /\ argv[p] \in OptionArguments /\ p \in 1..n
  BY <1>4 DEF Argument, IsOption
<1>6. Place \in 1..Width(argv[p]) BY <1>3, <1>5, PlaceType
<1>7. Ahead(p, Place, first2) BY <1>4, <1>6, StepAhead
<1>8. Given(p)[Place].verdict \notin Fatal /\ Given(p)[Place].took = h.took
  BY <1>4 DEF Reached
<1>9. first2.verdict \notin Fatal BY <1>7, <1>8 DEF Ahead
<1>10. f \in Values /\ Following \in Values BY <1>1, <1>3, <1>5, FollowingType, AtArgument
<1>11. OptionIn(Argument, Place, Following) = first2
  <2>1. CASE h.took = 1
    <3>1. at + 2 \in 1..e BY <1>1, <1>2, <1>4, <2>1
    <3>2. at + 1 \in 1..n /\ at < n BY <1>1, <1>2, <1>3, <3>1
    <3>3. order[at + 1] = p + 1 /\ p + 1 \in 1..n BY <1>1, <1>4, <2>1, <3>2
    <3>4. Following = f BY <1>1, <1>3, <1>5, <3>2, <3>3 DEF Following, FollowingAt
    <3>5. QED BY <1>5, <3>4
  <2>2. CASE h.took = 0
    <3>1. first2.took = 0
      <4>1. CASE first2.verdict = "OK" \/ Place = Width(argv[p])
        BY <1>7, <1>8, <1>9, <2>2, <4>1 DEF Ahead
      <4>2. CASE ~(first2.verdict = "OK" \/ Place = Width(argv[p]))
        <5>1. first2 \in OneResult /\ (first2.took = 1 => Place = Width(argv[p]))
          BY <1>5, <1>6, <1>10, OptionInType
        <5>2. first2.took \in {0, 1} BY <5>1 DEF OneResult
        <5>3. QED BY <4>2, <5>1, <5>2
      <4>3. QED BY <4>1, <4>2
    <3>2. \A g \in Values : OptionIn(argv[p], Place, g) = first2
      BY <1>5, <1>6, <1>9, <1>10, <3>1, OptionInType
    <3>3. QED BY <1>5, <1>10, <3>2
  <2>3. QED BY <1>4, <2>1, <2>2
<1>12. QED BY <1>3, <1>4, <1>5, <1>6, <1>7, <1>9, <1>11

LEMMA IllegalReads ==
  ASSUME ParserInv, Illegal(at)
  PROVE  /\ at <= Len(argv) /\ IsOption(at) /\ Argument = argv[at] /\ order[at] = at
         /\ Place \in 1..Width(Argument)
         /\ Ahead(at, Place, OptionIn(Argument, Place, Following))
<1> DEFINE n == Len(argv)
<1>1. /\ IsOption(at) /\ order[at] = at /\ (at < n => order[at + 1] = at + 1)
  BY DEF Illegal
<1>2. /\ n \in Nat /\ at \in 1..n /\ Len(order) = n BY <1>1, OrderIs DEF IsOption
<1>3. Argument = argv[at] /\ argv[at] \in OptionArguments
  BY <1>1 DEF Argument, IsOption
<1>4. Following = FollowingAt(argv, at) BY <1>1, <1>2 DEF Following, FollowingAt
<1>5. Place \in 1..Width(argv[at]) BY <1>2, <1>3, PlaceType
<1>6. QED BY <1>1, <1>2, <1>3, <1>4, <1>5, StepAhead

(* Behind the options it finds words, up to where the first pass stopped.  *)
LEMMA BehindOptions ==
  ASSUME ParserInv, NEW C, NEW e, NEW stop, NEW tail, Arranged(C, e, stop, tail),
         at \in e..stop, at = stop => ~Illegal(stop)
  PROVE  /\ at < stop => at <= Len(argv) /\ Argument.kind = "word" /\ gnu
         /\ at = stop => /\ AtWord(at) \/ AtTerminator(at)
                         /\ tail = <<>> /\ Meant.verdict = "ok"
         /\ at = stop /\ AtWord(at) =>
              Meant.words = SubSeq(order, e, Len(argv))
         /\ at = stop /\ AtTerminator(at) =>
              e = at /\ Meant.words = SubSeq(order, at + 1, Len(argv))
<1>1. /\ Len(argv) \in Nat /\ stop \in 1..(Len(argv) + 1) /\ e \in 1..stop
      /\ WordsIn(order, e..(stop - 1)) /\ (e < stop => gnu) /\ Ends(e, stop, tail)
  BY OrderIs DEF Arranged
<1>2. ASSUME at < stop PROVE at <= Len(argv) /\ Argument.kind = "word" /\ gnu
  <2>1. at \in e..(stop - 1) /\ e < stop /\ at <= Len(argv) BY <1>1, <1>2
  <2>2. QED BY <1>1, <2>1 DEF WordsIn, Argument
<1>3. ~(AtWord(at) /\ AtTerminator(at))
  <2>1. ~(at = Len(argv) + 1 /\ at <= Len(argv)) BY <1>1
  <2>2. QED BY <2>1 DEF AtWord, AtTerminator
<1>4. QED BY <1>1, <1>2, <1>3 DEF Ends

(* Between the options in front. *)
LEMMA IllegalTail ==
  ASSUME NEW C, NEW e, NEW stop, NEW tail, Arranged(C, e, stop, tail), Illegal(stop)
  PROVE  tail = After(stop).options /\ Meant.verdict = "ILLEGAL"
<1>1. IsOption(stop) /\ order[stop] = stop BY DEF Illegal
<1>2. argv[stop].kind \in {"long", "short"} /\ stop # Len(argv) + 1
  <2>1. stop \in 1..Len(argv) BY <1>1 DEF IsOption
  <2>2. Len(argv) + 1 \notin 1..Len(argv) OBVIOUS
  <2>3. QED BY <1>1, <2>1, <2>2 DEF IsOption, OptionArguments
<1>3. ~AtWord(stop) /\ ~AtTerminator(stop) BY <1>1, <1>2 DEF AtWord, AtTerminator
<1>4. Ends(e, stop, tail) BY DEF Arranged
<1>5. QED BY <1>3, <1>4 DEF Ends

BehindStands ==
  \A C, e, stop, tail, Q :
    Arranged(C, e, stop, tail) /\ rest = <<>> /\ at \in e..stop
    /\ nonops = at - e /\ Q \o tail = Meant.options
      => Stands(C, e, stop, tail, Q)

LEMMA StandsBehind == ParserInv => BehindStands
<1> SUFFICES ASSUME ParserInv, NEW C, NEW e, NEW stop, NEW tail, NEW Q,
                    Arranged(C, e, stop, tail), rest = <<>>, at \in e..stop,
                    nonops = at - e, Q \o tail = Meant.options
             PROVE  Stands(C, e, stop, tail, Q)
  BY DEF BehindStands
<1>1. CASE at = stop /\ Illegal(stop)
  <2>1. tail = After(stop).options BY <1>1, IllegalTail
  <2>2. Place = 1 BY DEF Place
  <2>3. ToCome(stop, Place).options = tail BY <2>1, <2>2, FromStart
  <2>4. Reached(stop) BY <2>2 DEF Reached
  <2>5. QED BY <1>1, <2>3, <2>4 DEF Stands
<1>2. CASE ~(at = stop /\ Illegal(stop)) BY <1>2 DEF Stands
<1>3. QED BY <1>1, <1>2

CutStands ==
  \A C, e, stop, tail, Q :
    Arranged(C, e, stop, tail) /\ rest = <<>> /\ at \in C /\ nonops = 0
    /\ Q \o (IF at < e THEN After(order[at]).options ELSE tail) = Meant.options
      => Stands(C, e, stop, tail, Q)

LEMMA StandsAtCut == ParserInv => CutStands
<1> SUFFICES ASSUME ParserInv, NEW C, NEW e, NEW stop, NEW tail, NEW Q,
                    Arranged(C, e, stop, tail), rest = <<>>, at \in C, nonops = 0,
                    Q \o (IF at < e THEN After(order[at]).options ELSE tail) = Meant.options
             PROVE  Stands(C, e, stop, tail, Q)
  BY DEF CutStands
<1>1. CASE at < e
  <2>1. Place = 1 BY DEF Place
  <2>2. ToCome(order[at], Place) = After(order[at]) BY <2>1, FromStart
  <2>3. Reached(order[at]) BY <2>1 DEF Reached
  <2>4. QED BY <1>1, <2>2, <2>3 DEF Stands
<1>2. CASE ~(at < e)
  <2>1. /\ Len(argv) \in Nat /\ stop \in 1..(Len(argv) + 1) /\ e \in 1..stop
        /\ C \in SUBSET (1..e)
    BY OrderIs DEF Arranged, Cuts
  <2>2. at = e /\ at \in e..stop /\ nonops = at - e BY <1>2, <2>1
  <2>3. Q \o tail = Meant.options BY <1>2
  <2>4. QED BY <2>2, <2>3, StandsBehind DEF BehindStands
<1>3. QED BY <1>1, <1>2

(* Each step leaves the second pass somewhere in what the first has left. *)
LEMMA StoreGoes ==
  ASSUME ParserInv', RestInv', StoreRun, pass = "store", NEW C, NEW e, NEW stop, NEW tail,
         Arranged(C, e, stop, tail), NEW Q \in Seq(Options), buffer' = Kept(Q),
         Stands(C, e, stop, tail, Q)',
         UNCHANGED <<inputVars, order, pass, nonOptions, buffer_max>>
  PROVE  ParseInv'
<1>1. Arranged(C, e, stop, tail)' BY SameArray
<1>2. (buffer = Kept(Q))' BY SameLine
<1>3. Q \in Seq(Options)' OBVIOUS
<1>4. /\ LongsInOrder(order)' /\ (nonOptions = <<>>)'
      /\ (buffer_max - 1 = Len(Meant.options))'
  BY SameLine DEF StoreRun
<1>5. StoreRun' BY <1>1, <1>2, <1>3, <1>4 DEF StoreRun
<1>6. Ended' BY DEF Ended
<1>7. QED BY <1>5, <1>6 DEF ParseInv

(* With no words passed it moves nothing. *)
LEMMA StaysPut ==
  ASSUME ParserInv, ParserInv', UNCHANGED inputVars, at <= Len(argv), nonops = 0,
         NEW took \in {0, 1}, at + took <= Len(argv),
         \A i \in 1..Len(argv) : order'[i] = Carried(took, i)
  PROVE  order' = order
<1> DEFINE n == Len(argv)
<1>1. /\ n \in Nat /\ order \in [1..n -> 1..n] /\ at \in 1..n /\ took \in Int
      /\ DOMAIN argv = 1..n
  BY OrderIs
<1>2. order' \in [1..n -> 1..n]
  <2>1. Permutes(order)' BY DEF ParserInv, CursorInv
  <2>2. QED BY <1>1, <2>1 DEF Permutes, inputVars
<1> HIDE DEF n
<1>3. Passed = at BY <1>1 DEF Passed
<1>4. ASSUME NEW i \in 1..n PROVE order'[i] = order[i]
  <2>1. order'[i] = Carried(took, i) BY DEF n
  <2>2. i \notin (Passed + took + 1)..(at + took) /\ i + nonops = i BY <1>1, <1>3
  <2>3. QED BY <2>1, <2>2 DEF Carried
<1>5. QED BY <1>1, <1>2, <1>4

(* An option in front is stored, and the next one read. *)
LEMMA StoreMoves ==
  ASSUME ParseInv, ParserInv', pass = "store",
         UNCHANGED <<inputVars, pass, nonops, nonOptions>>,
         NEW C, NEW e, NEW stop, NEW tail, Arranged(C, e, stop, tail),
         NEW Q \in Seq(Options), buffer = Kept(Q),
         at \in C, at < e, nonops = 0, Reached(order[at]),
         Q \o ToCome(order[at], Place).options = Meant.options,
         NEW one, one = OptionIn(Argument, Place, Following),
         one.verdict = "OK" \/ Place = Width(Argument),
         \/ one.options = <<>> /\ UNCHANGED <<statsVars, storeVars>>
         \/ \E o \in Options : one.options = <<o>> /\ Perform(o),
         Advance(<<>>, one.took)
  PROVE  ParseInv'
<1> DEFINE n == Len(argv)
           p == order[at]
           t == one.took
           k == at + 1 + t
           x == IF k < e THEN After(order[k]).options ELSE tail
           more == Q \o one.options
<1>1. ParserInv /\ StoreRun BY DEF ParseInv
<1>2. /\ at <= n /\ IsOption(p) /\ Argument = argv[p] /\ Ahead(p, Place, one)
      /\ one.verdict \notin Fatal
  BY <1>1, CutReads
<1>3. /\ one \in OneResult /\ t \in {0, 1} /\ Given(p)[Place].took = t
      /\ p + 1 + t \in 1..(n + 1)
      /\ ToCome(p, Place).options = one.options \o After(p + 1 + t).options
  BY <1>2 DEF Ahead, OneResult
<1>4. Given(p)[1].took = t BY <1>2, <1>3 DEF Reached
<1>5. k \in C /\ After(p + 1 + t).options = x
  <2>1. Cut(order, C, e, tail, at) BY DEF Arranged, Cuts
  <2>2. QED BY <1>4, <2>1 DEF Cut
<1>6. at + t <= n
  <2>1. /\ n \in Nat /\ stop \in 1..(n + 1) /\ e \in 1..stop /\ C \in SUBSET (1..e)
        /\ at \in 1..(n + 1)
    BY <1>1, OrderIs DEF Arranged, Cuts
  <2>2. k \in 1..e BY <1>5, <2>1
  <2>3. QED BY <1>3, <2>1, <2>2
<1>7. more \in Seq(Options) /\ buffer' = Kept(more) /\ buffer_max' = buffer_max
  BY <1>1, <1>3, StoreKeeps
<1>8. more \o x = Meant.options
  <2>1. After(p + 1 + t).options \in Seq(Options) BY <1>1, <1>3, AfterType
  <2>2. x \in Seq(Options) BY <1>5, <2>1
  <2>3. one.options \in Seq(Options) BY <1>3 DEF OneResult
  <2> HIDE DEF x
  <2>4. PICK y \in Seq(Options) : y = one.options BY <2>3
  <2>5. PICK z \in Seq(Options) : z = x BY <2>2
  <2>6. (Q \o y) \o z = Q \o (y \o z) BY Concats, Zenon
  <2>7. QED BY <1>3, <1>5, <2>4, <2>5, <2>6
<1> HIDE DEF more, t
<1>9. rest' = <<>> /\ at' = k /\ \A i \in 1..Len(argv) : order'[i] = Carried(t, i)
  BY <1>1, <1>2, <1>3, <1>6, Moves DEF t
<1>10. order' = order BY <1>1, <1>2, <1>3, <1>6, <1>9, StaysPut
<1>11. RestInv' BY <1>9 DEF RestInv
<1>12. Stands(C, e, stop, tail, more)'
  <2>1. CutStands' BY StandsAtCut, PTL
  <2>2. Arranged(C, e, stop, tail)' BY <1>10, SameArray
  <2>3. (more \o (IF at < e THEN After(order[at]).options ELSE tail) = Meant.options)'
    <3>1. After(order[at])' = After(order[k]) BY <1>9, <1>10, SameLine
    <3>2. QED BY <1>8, <1>9, <3>1, SameLine
  <2>4. (rest = <<>>)' /\ (at \in C)' /\ (nonops = 0)' BY <1>5, <1>9
  <2>5. QED BY <2>1, <2>2, <2>3, <2>4 DEF CutStands
<1>13. QED BY <1>1, <1>7, <1>10, <1>11, <1>12, StoreGoes

(* ... or the next one of its group. *)
LEMMA StoreStays ==
  ASSUME ParseInv, UNCHANGED inputVars, NEW Q \in Seq(Options), NEW p, IsOption(p),
         Reached(p), Argument = argv[p], Q \o ToCome(p, Place).options = Meant.options,
         NEW one, Ahead(p, Place, one), one.verdict \notin Fatal,
         ~(one.verdict = "OK" \/ Place = Width(Argument)), Place' = Place + 1
  PROVE  /\ Reached(p)'
         /\ ((Q \o one.options) \o ToCome(p, Place).options = Meant.options)'
<1>1. /\ one.options \in Seq(Options) /\ Given(p)[Place].took = Given(p)[Place + 1].took
      /\ Given(p)[Place].verdict = Given(p)[Place + 1].verdict
      /\ ToCome(p, Place).options = one.options \o ToCome(p, Place + 1).options
      /\ ToCome(p, Place + 1).options \in Seq(Options)
  BY DEF Ahead, OneResult
<1>2. Reached(p)'
  <2>1. Given(p)[Place + 1].took = Given(p)[1].took
        /\ Given(p)[Place + 1].verdict = Given(p)[1].verdict
    BY <1>1 DEF Reached
  <2>2. Given(p)' = Given(p) BY SameLine
  <2>3. QED BY <2>1, <2>2 DEF Reached
<1>3. (Q \o one.options) \o ToCome(p, Place + 1).options = Meant.options
  <2>1. PICK y \in Seq(Options) : y = one.options BY <1>1
  <2>2. PICK z \in Seq(Options) : z = ToCome(p, Place + 1).options BY <1>1
  <2>3. (Q \o y) \o z = Q \o (y \o z) BY Concats, Zenon
  <2>4. QED BY <1>1, <2>1, <2>2, <2>3
<1>4. ToCome(p, Place)' = ToCome(p, Place + 1) BY SameLine
<1>5. QED BY <1>2, <1>3, <1>4, SameLine

LEMMA StoreHandles ==
  ASSUME ParseInv, ParserInv', pass = "store", at <= Len(argv),
         Argument \in OptionArguments, UNCHANGED inputVars,
         NEW one, one = OptionIn(Argument, Place, Following), Handles(one)
  PROVE  ParseInv'
<1>1. ParserInv /\ RestInv /\ StoreRun BY DEF ParseInv
<1>2. PICK C, e, stop, tail : /\ Arranged(C, e, stop, tail)
                              /\ \E Q \in Seq(Options) :
                                   buffer = Kept(Q) /\ Stands(C, e, stop, tail, Q)
  BY <1>1 DEF StoreRun
<1>3. PICK Q \in Seq(Options) : buffer = Kept(Q) /\ Stands(C, e, stop, tail, Q)
  BY <1>2
<1> DEFINE p == order[at]
           more == Q \o one.options
<1>4. ASSUME one \in OneResult, one.verdict \notin Fatal
      PROVE  /\ UNCHANGED <<pass, nonops, nonOptions>>
             /\ more \in Seq(Options) /\ buffer' = Kept(more) /\ buffer_max' = buffer_max
             /\ \/ one.options = <<>> /\ UNCHANGED <<statsVars, storeVars>>
                \/ \E o \in Options : one.options = <<o>> /\ Perform(o)
             /\ IF one.verdict = "OK" \/ Place = Width(Argument) THEN Advance(<<>>, one.took)
                ELSE /\ order' = order /\ at' = at /\ rest' # <<>>
                     /\ Place' = Place + 1 /\ RestInv'
  <2>1. one.verdict # "throws" /\ one.verdict # "ILLEGAL" BY <1>4 DEF Fatal
  <2>2. /\ UNCHANGED <<pass, nonops, nonOptions>>
        /\ \/ one.options = <<>> /\ UNCHANGED <<statsVars, storeVars>>
           \/ \E o \in Options : one.options = <<o>> /\ Perform(o)
        /\ IF one.verdict = "OK" \/ Place = Width(Argument) THEN Advance(<<>>, one.took)
           ELSE order' = order /\ at' = at /\ rest' # <<>> /\ Place' = Place + 1 /\ RestInv'
    BY <2>1 DEF Handles
  <2>3. more \in Seq(Options) /\ buffer' = Kept(more) /\ buffer_max' = buffer_max
    BY <1>1, <1>3, <1>4, <2>2, StoreKeeps
  <2>4. QED BY <2>2, <2>3
<1>5. CASE /\ at \in C /\ at < e /\ nonops = 0 /\ Reached(p)
           /\ Q \o ToCome(p, Place).options = Meant.options
  <2>1. /\ IsOption(p) /\ Argument = argv[p] /\ Ahead(p, Place, one)
        /\ one.verdict \notin Fatal
    BY <1>1, <1>2, <1>5, CutReads
  <2>2. one \in OneResult BY <2>1 DEF Ahead
  <2>3. CASE one.verdict = "OK" \/ Place = Width(Argument)
    BY <1>2, <1>3, <1>4, <1>5, <2>1, <2>2, <2>3, StoreMoves
  <2>4. CASE ~(one.verdict = "OK" \/ Place = Width(Argument))
    <3>1. /\ order' = order /\ at' = at /\ Place' = Place + 1 /\ RestInv'
          /\ UNCHANGED <<pass, nonops, nonOptions>> /\ buffer_max' = buffer_max
          /\ more \in Seq(Options) /\ buffer' = Kept(more)
      BY <1>4, <2>1, <2>2, <2>4
    <3>2. PICK i : i = p OBVIOUS
    <3>3. Reached(i)' /\ (more \o ToCome(i, Place).options = Meant.options)'
      BY <1>5, <2>1, <2>4, <3>1, <3>2, StoreStays
    <3>4. Stands(C, e, stop, tail, more)'
      <4>1. (order[at])' = i BY <3>1, <3>2
      <4>2. Reached(order[at])' BY <3>3, <4>1 DEF Reached
      <4>3. (more \o ToCome(order[at], Place).options = Meant.options)' BY <3>3, <4>1
      <4>4. QED BY <1>5, <3>1, <4>2, <4>3 DEF Stands
    <3> HIDE DEF more
    <3>5. QED BY <1>1, <1>2, <3>1, <3>4, StoreGoes
  <2>5. QED BY <2>3, <2>4
<1>6. CASE /\ at = stop /\ Illegal(stop) /\ nonops = at - e /\ Reached(stop)
           /\ Q \o ToCome(stop, Place).options = Meant.options
  <2>1. IsOption(at) /\ Argument = argv[at] /\ Ahead(at, Place, one)
    BY <1>1, <1>6, IllegalReads
  <2>2. one \in OneResult /\ Given(at)[Place].verdict = "ILLEGAL"
    BY <1>6, <2>1 DEF Ahead, Reached, Illegal
  <2>3. CASE one.verdict \in Fatal
    <3>1. one.verdict = "ILLEGAL" /\ ToCome(stop, Place).options = <<>>
      BY <1>6, <2>1, <2>2, <2>3 DEF Ahead
    <3>2. /\ pass' = "error" /\ UNCHANGED <<at, nonops, rest, order>>
          /\ UNCHANGED <<statsVars, storeVars, nonOptions>>
      BY <2>3, <3>1 DEF Handles
    <3>3. Q = Meant.options BY <1>6, <3>1, ConcatEmptySeq
    <3>4. Meant.verdict = "ILLEGAL" BY <1>2, <1>6, IllegalTail
    <3>5. buffer' = Kept(Meant.options) /\ buffer_max' - 1 = Len(Meant.options)
      BY <1>1, <1>3, <3>2, <3>3 DEF storeVars, statsVars, StoreRun
    <3>6. Ended' BY <3>2, <3>4, <3>5, SameLine DEF Ended
    <3>7. RestInv'
      <4>1. Argument' = Argument BY <3>2 DEF Argument, inputVars
      <4>2. Place' = Place BY <3>2, <4>1 DEF Place
      <4>3. QED BY <1>1, <3>2, <4>1, <4>2 DEF RestInv
    <3>8. QED BY <3>2, <3>6, <3>7 DEF ParseInv
  <2>4. CASE one.verdict \notin Fatal
    <3>1. ~(one.verdict = "OK" \/ Place = Width(Argument))
      BY <2>1, <2>2, <2>4 DEF Ahead, Fatal
    <3>2. /\ order' = order /\ at' = at /\ Place' = Place + 1 /\ RestInv'
          /\ UNCHANGED <<pass, nonops, nonOptions>> /\ buffer_max' = buffer_max
          /\ more \in Seq(Options) /\ buffer' = Kept(more)
      BY <1>4, <2>2, <2>4, <3>1
    <3>3. Reached(stop)' /\ (more \o ToCome(stop, Place).options = Meant.options)'
      BY <1>6, <2>1, <2>4, <3>1, <3>2, StoreStays
    <3>4. Illegal(stop)' BY <1>6, <3>2, SameLine DEF Illegal
    <3>5. Stands(C, e, stop, tail, more)'
      BY <1>6, <3>2, <3>3, <3>4 DEF Stands
    <3> HIDE DEF more
    <3>6. QED BY <1>1, <1>2, <3>2, <3>5, StoreGoes
  <2>5. QED BY <2>3, <2>4
<1>7. CASE at \in e..stop /\ (at = stop => ~Illegal(stop))
  <2>1. at < stop => Argument.kind = "word" BY <1>1, <1>2, <1>7, BehindOptions
  <2>2. at = stop => AtWord(at) \/ AtTerminator(at) BY <1>1, <1>2, <1>7, BehindOptions
  <2>3. at < stop \/ at = stop
    <3>1. stop \in 1..(Len(argv) + 1) /\ e \in 1..stop BY <1>2 DEF Arranged
    <3>2. QED BY <1>1, <1>7, <3>1, OrderIs
  <2>4. at # Len(argv) + 1 BY <1>1, OrderIs
  <2>5. Argument.kind \in {"word", "terminator"}
    BY <2>1, <2>2, <2>3, <2>4 DEF AtWord, AtTerminator, Argument
  <2>6. QED BY <2>5 DEF OptionArguments
<1>8. QED BY <1>3, <1>5, <1>6, <1>7 DEF Stands

(* Where the second pass is when it does not read an option. *)
LEMMA StoreBehind ==
  ASSUME ParserInv, StoreRun, at <= Len(argv) => Argument.kind \in {"word", "terminator"}
  PROVE  \E C, e, stop, tail : \E Q \in Seq(Options) :
           /\ Arranged(C, e, stop, tail) /\ buffer = Kept(Q) /\ Q \o tail = Meant.options
           /\ at \in e..stop /\ (at = stop => ~Illegal(stop)) /\ nonops = at - e
           /\ e \in Nat /\ stop \in Nat /\ rest = <<>>
<1>1. PICK C, e, stop, tail : /\ Arranged(C, e, stop, tail)
                              /\ \E Q \in Seq(Options) :
                                   buffer = Kept(Q) /\ Stands(C, e, stop, tail, Q)
  BY DEF StoreRun
<1>2. PICK Q \in Seq(Options) : buffer = Kept(Q) /\ Stands(C, e, stop, tail, Q)
  BY <1>1
<1>3. /\ Len(argv) \in Nat /\ stop \in 1..(Len(argv) + 1) /\ e \in 1..stop
      /\ e \in Nat /\ stop \in Nat
  BY OrderIs, <1>1 DEF Arranged
<1>4. at <= Len(argv) => Argument \notin OptionArguments BY DEF OptionArguments
<1>5. ~(at \in C /\ at < e /\ Reached(order[at]))
  <2>1. SUFFICES ASSUME at \in C, at < e, Reached(order[at]) PROVE FALSE OBVIOUS
  <2>2. at <= Len(argv) /\ IsOption(order[at]) /\ Argument = argv[order[at]]
    BY <1>1, <2>1, CutReads
  <2>3. QED BY <1>4, <2>2 DEF IsOption
<1>6. ~(at = stop /\ Illegal(stop))
  <2>1. SUFFICES ASSUME at = stop, Illegal(stop) PROVE FALSE OBVIOUS
  <2>2. at <= Len(argv) /\ IsOption(at) /\ Argument = argv[at] BY <2>1, IllegalReads
  <2>3. QED BY <1>4, <2>2 DEF IsOption
<1>7. rest = <<>>
  <2>1. rest # <<>> => at <= Len(argv) /\ Argument.kind = "short"
    BY DEF ParserInv, CursorInv
  <2>2. QED BY <2>1
<1>8. /\ at \in e..stop /\ (at = stop => ~Illegal(stop)) /\ nonops = at - e
      /\ Q \o tail = Meant.options
  BY <1>2, <1>5, <1>6 DEF Stands
<1>9. QED BY <1>1, <1>2, <1>3, <1>7, <1>8

LEMMA StoreWord ==
  ASSUME ParseInv, ParserInv', pass = "store", Word
  PROVE  ParseInv'
<1>1. ParserInv /\ RestInv /\ StoreRun BY DEF ParseInv
<1>2. /\ Argument.kind = "word" /\ gnu /\ at' = at + 1 /\ nonops' = nonops + 1
      /\ UNCHANGED <<inputVars, pass, order, rest, statsVars, storeVars, nonOptions>>
  BY DEF Word
<1>3. at \in 1..Len(argv) /\ Len(argv) \in Nat
  BY <1>1, OrderIs DEF Word
<1>4. PICK C, e, stop, tail : \E Q \in Seq(Options) :
        /\ Arranged(C, e, stop, tail) /\ buffer = Kept(Q) /\ Q \o tail = Meant.options
        /\ at \in e..stop /\ (at = stop => ~Illegal(stop)) /\ nonops = at - e
        /\ e \in Nat /\ stop \in Nat /\ rest = <<>>
  BY <1>1, <1>2, StoreBehind
<1>5. PICK Q \in Seq(Options) :
        /\ Arranged(C, e, stop, tail) /\ buffer = Kept(Q) /\ Q \o tail = Meant.options
        /\ at \in e..stop /\ (at = stop => ~Illegal(stop)) /\ nonops = at - e
        /\ e \in Nat /\ stop \in Nat /\ rest = <<>>
  BY <1>4
<1>6. at < stop
  <2>1. at = stop => AtWord(at) \/ AtTerminator(at) BY <1>1, <1>5, BehindOptions
  <2>2. at # Len(argv) + 1 BY <1>3
  <2>3. ~AtWord(at) /\ ~AtTerminator(at) BY <1>2, <2>2 DEF AtWord, AtTerminator, Argument
  <2>4. QED BY <1>5, <2>1, <2>3
<1>7. Stands(C, e, stop, tail, Q)'
  <2>1. BehindStands' BY StandsBehind, PTL
  <2>2. Arranged(C, e, stop, tail)' BY <1>2, <1>5, SameArray
  <2>3. (rest = <<>>)' BY <1>2, <1>5
  <2>4. (at \in e..stop)' /\ (nonops = at - e)' BY <1>2, <1>3, <1>5, <1>6
  <2>5. (Q \o tail = Meant.options)' BY <1>2, <1>5, SameLine
  <2>6. QED BY <2>1, <2>2, <2>3, <2>4, <2>5 DEF BehindStands
<1>8. RestInv' BY <1>2, <1>5 DEF RestInv
<1>9. buffer' = Kept(Q) /\ buffer_max' = buffer_max BY <1>2, <1>5 DEF statsVars, storeVars
<1>10. QED BY <1>1, <1>2, <1>5, <1>7, <1>8, <1>9, StoreGoes

(* It stops where the first has, with all that was meant.                  *)
LEMMA StoreStops ==
  ASSUME ParseInv, ParserInv', rest = <<>>, NEW left, left = Meant.words,
         Meant.verdict = "ok", buffer = Kept(Meant.options), nonOptions = <<>>,
         buffer_max - 1 = Len(Meant.options), pass' = "done",
         nonOptions' = IF left # <<>> THEN left ELSE nonOptions,
         UNCHANGED <<inputVars, rest, statsVars, storeVars>>
  PROVE  ParseInv'
<1>1. nonOptions' = Meant.words OBVIOUS
<1>2. buffer' = Kept(Meant.options) /\ buffer_max' - 1 = Len(Meant.options)
  BY DEF statsVars, storeVars
<1>3. Ended' BY <1>1, <1>2, SameLine DEF Ended
<1>4. RestInv' BY DEF RestInv
<1>5. QED BY <1>3, <1>4 DEF ParseInv

LEMMA StoreEnd ==
  ASSUME ParseInv, ParserInv', pass = "store", EndOfOptions
  PROVE  ParseInv'
<1> DEFINE left == SubSeq(order, at - nonops, Len(order))
<1>1. ParserInv /\ RestInv /\ StoreRun BY DEF ParseInv
<1>2. Len(argv) \in Nat /\ at \in 1..(Len(argv) + 1) /\ Len(order) = Len(argv)
  BY <1>1, OrderIs
<1>3. /\ at <= Len(argv) => Argument.kind = "word" /\ ~gnu
      /\ pass' = "done" /\ UNCHANGED <<inputVars, at, nonops, rest, order>>
      /\ UNCHANGED <<statsVars, storeVars>>
      /\ nonOptions' = IF left # <<>> THEN left ELSE nonOptions
  BY <1>2 DEF EndOfOptions, Finished
<1>4. PICK C, e, stop, tail : \E Q \in Seq(Options) :
        /\ Arranged(C, e, stop, tail) /\ buffer = Kept(Q) /\ Q \o tail = Meant.options
        /\ at \in e..stop /\ (at = stop => ~Illegal(stop)) /\ nonops = at - e
        /\ e \in Nat /\ stop \in Nat /\ rest = <<>>
  BY <1>1, <1>3, StoreBehind
<1>5. PICK Q \in Seq(Options) :
        /\ Arranged(C, e, stop, tail) /\ buffer = Kept(Q) /\ Q \o tail = Meant.options
        /\ at \in e..stop /\ (at = stop => ~Illegal(stop)) /\ nonops = at - e
        /\ e \in Nat /\ stop \in Nat /\ rest = <<>>
  BY <1>4
<1>6. at = stop
  <2>1. at < stop => at <= Len(argv) /\ gnu BY <1>1, <1>5, BehindOptions
  <2>2. QED BY <1>3, <1>5, <2>1
<1>7. AtWord(at) /\ tail = <<>> /\ Meant.verdict = "ok"
  <2>1. /\ AtWord(at) \/ AtTerminator(at)
        /\ tail = <<>> /\ Meant.verdict = "ok"
    BY <1>1, <1>5, <1>6, BehindOptions
  <2>2. ~AtTerminator(at) BY <1>3 DEF AtTerminator, Argument
  <2>3. QED BY <2>1, <2>2
<1>8. left = Meant.words
  <2>1. Meant.words = SubSeq(order, e, Len(argv)) BY <1>1, <1>5, <1>6, <1>7, BehindOptions
  <2>2. at - nonops = e BY <1>2, <1>5
  <2>3. QED BY <1>2, <2>1, <2>2
<1>9. Q = Meant.options BY <1>5, <1>7, ConcatEmptySeq
<1> HIDE DEF left
<1>10. /\ buffer = Kept(Meant.options) /\ nonOptions = <<>>
       /\ buffer_max - 1 = Len(Meant.options)
  BY <1>1, <1>5, <1>9 DEF StoreRun
<1>11. QED BY <1>3, <1>5, <1>7, <1>8, <1>10, StoreStops

LEMMA StoreTerminator ==
  ASSUME ParseInv, ParserInv', pass = "store", Terminator
  PROVE  ParseInv'
<1>0. PICK args, next : args = order' /\ next = at + 1 OBVIOUS
<1> DEFINE left == SubSeq(args, next - nonops, Len(args))
<1>1. ParserInv /\ RestInv /\ StoreRun BY DEF ParseInv
<1>2. Len(argv) \in Nat /\ at \in 1..Len(argv) /\ Len(order) = Len(argv)
  BY <1>1, OrderIs DEF Terminator
<1>3. /\ Argument.kind = "terminator" /\ order' = Shift(order, at, nonops)
      /\ pass' = "done" /\ UNCHANGED <<inputVars, at, nonops, rest>>
      /\ UNCHANGED <<statsVars, storeVars>>
      /\ nonOptions' = IF left # <<>> THEN left ELSE nonOptions
  <2>1. /\ Argument.kind = "terminator" /\ order' = Shift(order, at, nonops)
        /\ UNCHANGED <<inputVars, statsVars, storeVars>> /\ Finished(args, next)
    BY <1>0, Zenon DEF Terminator
  <2>2. QED BY <2>1 DEF Finished
<1>4. PICK C, e, stop, tail : \E Q \in Seq(Options) :
        /\ Arranged(C, e, stop, tail) /\ buffer = Kept(Q) /\ Q \o tail = Meant.options
        /\ at \in e..stop /\ (at = stop => ~Illegal(stop)) /\ nonops = at - e
        /\ e \in Nat /\ stop \in Nat /\ rest = <<>>
  BY <1>1, <1>3, StoreBehind
<1>5. PICK Q \in Seq(Options) :
        /\ Arranged(C, e, stop, tail) /\ buffer = Kept(Q) /\ Q \o tail = Meant.options
        /\ at \in e..stop /\ (at = stop => ~Illegal(stop)) /\ nonops = at - e
        /\ e \in Nat /\ stop \in Nat /\ rest = <<>>
  BY <1>4
<1>6. at = stop
  <2>1. at < stop => Argument.kind = "word" BY <1>1, <1>5, BehindOptions
  <2>2. QED BY <1>3, <1>5, <2>1
<1>7. AtTerminator(at) /\ tail = <<>> /\ Meant.verdict = "ok"
  <2>1. /\ AtWord(at) \/ AtTerminator(at)
        /\ tail = <<>> /\ Meant.verdict = "ok"
    BY <1>1, <1>5, <1>6, BehindOptions
  <2>2. at # Len(argv) + 1 BY <1>2
  <2>3. ~AtWord(at) BY <1>3, <2>2 DEF AtWord, Argument
  <2>4. QED BY <2>1, <2>3
<1>8. e = at /\ Meant.words = SubSeq(order, at + 1, Len(argv))
  BY <1>1, <1>5, <1>6, <1>7, BehindOptions
<1>9. nonops = 0 BY <1>2, <1>5, <1>8
<1>10. order' = order
  <2>1. \A i \in 1..Len(argv) : order'[i] = Carried(0, i) BY <1>1, <1>2, <1>3, Carries
  <2>2. at + 0 <= Len(argv) /\ 0 \in {0, 1} BY <1>2
  <2>3. QED BY <1>1, <1>2, <1>3, <1>9, <2>1, <2>2, StaysPut
<1>11. left = Meant.words
  <2>1. next - nonops = next BY <1>0, <1>2, <1>9
  <2>2. Meant.words = SubSeq(order, next, Len(argv)) BY <1>0, <1>8
  <2>3. QED BY <1>0, <1>2, <1>10, <2>1, <2>2
<1>12. Q = Meant.options BY <1>5, <1>7, ConcatEmptySeq
<1> HIDE DEF left
<1>13. /\ buffer = Kept(Meant.options) /\ nonOptions = <<>>
       /\ buffer_max - 1 = Len(Meant.options)
  BY <1>1, <1>5, <1>12 DEF StoreRun
<1>14. QED BY <1>3, <1>5, <1>7, <1>11, <1>13, StoreStops

-----------------------------------------------------------------------------
(* Every step keeps the invariant: a parse that has ended takes none. *)
LEMMA NextRun == ParseInv /\ [Next]_vars => ParseInv'
<1> SUFFICES ASSUME ParseInv, [Next]_vars PROVE ParseInv' OBVIOUS
<1>1. ParserInv /\ RestInv BY DEF ParseInv
<1>2. ParserInv' BY <1>1, NextTypes
<1>3. CASE LongOption \/ ShortOption
  <2>1. /\ at <= Len(argv) /\ Argument \in OptionArguments /\ UNCHANGED inputVars
        /\ Reading /\ Handles(OptionIn(Argument, Place, Following))
    BY <1>1, <1>3, LongHandles, ShortHandles
  <2>2. pass = "count" \/ pass = "store" BY <2>1 DEF Reading
  <2>3. QED BY <1>2, <2>1, <2>2, CountHandles, StoreHandles
<1>4. CASE Word
  <2>1. pass = "count" \/ pass = "store" BY <1>4 DEF Word, Reading
  <2>2. QED BY <1>2, <1>4, <2>1, CountWord, StoreWord
<1>5. CASE Terminator
  <2>1. pass = "count" \/ pass = "store" BY <1>5 DEF Terminator, Reading
  <2>2. QED BY <1>2, <1>5, <2>1, CountTerminator, StoreTerminator
<1>6. CASE EndOfOptions
  <2>1. pass = "count" \/ pass = "store" BY <1>6 DEF EndOfOptions, Reading
  <2>2. QED BY <1>2, <1>6, <2>1, CountEnd, StoreEnd
<1>7. CASE UNCHANGED vars
  <2>1. /\ UNCHANGED <<inputVars, order>> /\ pass' = pass /\ at' = at /\ nonops' = nonops
        /\ rest' = rest /\ buffer' = buffer /\ buffer_max' = buffer_max
        /\ nonOptions' = nonOptions
    BY <1>7 DEF vars, cursorVars, statsVars, storeVars
  <2>2. Argument' = Argument BY <2>1 DEF Argument, inputVars
  <2>3. Place' = Place BY <2>1, <2>2 DEF Place
  <2>4. RestInv' BY <1>1, <2>1, <2>2, <2>3 DEF RestInv
  <2>5. \A i : Reached(i)' <=> Reached(i) BY <2>1, <2>3, SameLine DEF Reached
  <2>6. Passed' = Passed /\ PassedWords' = PassedWords BY <2>1 DEF Passed, PassedWords
  <2>7. CountRun => CountRun'
    <3>1. SUFFICES ASSUME CountRun PROVE CountRun' OBVIOUS
    <3>2. Sorted(order, at, nonops)' BY <2>1, <3>1, SameLine DEF CountRun
    <3>3. /\ (buffer = <<>>)' /\ (nonOptions = <<>>)' /\ Reached(at)'
          /\ (Meant.words = PassedWords \o After(at).words)'
          /\ (Meant.verdict = After(at).verdict)'
      BY <2>1, <2>5, <2>6, <3>1, SameLine DEF CountRun
    <3>4. ((buffer_max - 1) + Len(ToCome(at, Place).options) = Len(Meant.options))'
      <4>1. ToCome(at, Place)' = ToCome(at, Place) BY <2>1, <2>3, SameLine
      <4>2. QED BY <2>1, <3>1, <4>1, SameLine DEF CountRun
    <3>5. (\E C : Cuts(order, C, Passed, After(at).options))'
      <4>1. After(at)' = After(at) BY <2>1, SameLine
      <4>2. QED BY <2>1, <2>6, <3>1, <4>1, SameLine DEF CountRun
    <3>6. QED BY <3>2, <3>3, <3>4, <3>5 DEF CountRun
  <2>8. StoreRun => StoreRun'
    <3>1. SUFFICES ASSUME StoreRun PROVE StoreRun' OBVIOUS
    <3>2. PICK C, e, stop, tail : /\ Arranged(C, e, stop, tail)
                                  /\ \E Q \in Seq(Options) :
                                       buffer = Kept(Q) /\ Stands(C, e, stop, tail, Q)
      BY <3>1 DEF StoreRun
    <3>3. PICK Q \in Seq(Options) : buffer = Kept(Q) /\ Stands(C, e, stop, tail, Q)
      BY <3>2
    <3>4. Arranged(C, e, stop, tail)' BY <2>1, <3>2, SameArray
    <3>5. Stands(C, e, stop, tail, Q)'
      <4>1. ToCome(stop, Place)' = ToCome(stop, Place) BY <2>1, <2>3, SameLine
      <4>2. order[at]' = order[at] BY <2>1
      <4>3. Illegal(stop)' <=> Illegal(stop) BY <2>1, SameLine DEF Illegal
      <4>4. Reached(order[at])' <=> Reached(order[at])
        <5>1. PICK i : i = order[at] OBVIOUS
        <5>2. order[at]' = i BY <4>2, <5>1
        <5>3. QED BY <2>5, <5>1, <5>2 DEF Reached
      <4>5. ToCome(order[at], Place)' = ToCome(order[at], Place)
        BY <2>1, <2>3, SameLine
      <4>6. QED BY <2>1, <2>5, <3>3, <4>1, <4>3, <4>4, <4>5, SameLine DEF Stands
    <3>6. (buffer = Kept(Q))' /\ (Q \in Seq(Options))' BY <2>1, <3>3, SameLine
    <3>7. /\ LongsInOrder(order)' /\ (nonOptions = <<>>)'
          /\ (buffer_max - 1 = Len(Meant.options))'
      BY <2>1, <3>1, SameLine DEF StoreRun
    <3>8. QED BY <3>4, <3>5, <3>6, <3>7 DEF StoreRun
  <2>9. Ended' BY <2>1, SameLine DEF ParseInv, Ended
  <2>10. QED BY <1>2, <2>1, <2>4, <2>7, <2>8, <2>9 DEF ParseInv
<1>8. QED BY <1>3, <1>4, <1>5, <1>6, <1>7 DEF Next

LEMMA RunInvariant == ParserSpec => []ParseInv
BY InitRun, NextRun, PTL DEF ParserSpec

-----------------------------------------------------------------------------
(* The results. *)

(* ArgumentsKeepOrder: moving options in front of words keeps the words    *)
(* passed, the long options and all that is not read yet in their order,   *)
(* in both passes of workhorse.                                            *)
THEOREM OrderKept == ParserSpec => []ArgumentsKeepOrder
<1>1. ParseInv => ArgumentsKeepOrder
  <2> SUFFICES ASSUME ParseInv, Reading PROVE ArgumentsKeepOrder
    BY DEF ArgumentsKeepOrder
  <2> DEFINE n == Len(argv)
  <2>1. ParserInv BY DEF ParseInv
  <2>2. /\ n \in Nat /\ DOMAIN order = 1..n /\ order \in [1..n -> 1..n] /\ Len(order) = n
        /\ at \in 1..(n + 1) /\ nonops \in 0..(at - 1) /\ argv \in Seq(Arguments)
    BY <2>1, OrderIs DEF ParserInv
  <2>3. CASE pass = "count"
    <3>1. Sorted(order, at, nonops) BY <2>3 DEF ParseInv, CountRun
    <3>2. order \in [1..Len(argv) -> Int] BY <2>2
    <3>3. LongsInOrder(order) BY <2>2, <3>1, <3>2, LongsSorted
    <3>4. InOrder(order, 1..(at - nonops - 1)) /\ InOrder(order, (at - nonops)..(at - 1))
      BY <3>1 DEF Sorted
    <3>5. ASSUME NEW i \in 1..(at - 1), NEW j \in at..n PROVE order[i] < order[j]
      <4>1. order[i] < at /\ order[j] = j BY <3>1, <3>5 DEF Sorted
      <4>2. order[i] \in Int BY <2>2, <3>5
      <4>3. QED BY <2>2, <3>5, <4>1, <4>2
    <3>6. at - nonops - 1 = at - 1 - nonops BY <2>2
    <3>7. QED BY <2>2, <3>3, <3>4, <3>5, <3>6 DEF ArgumentsKeepOrder, LongsInOrder, InOrder
  <2>4. CASE pass = "store"
    <3>1. StoreRun BY <2>4 DEF ParseInv
    <3>2. PICK C, e, stop, tail : /\ Arranged(C, e, stop, tail)
                                  /\ \E Q \in Seq(Options) : Stands(C, e, stop, tail, Q)
      BY <3>1 DEF StoreRun
    <3>3. InOrder(order, (at - nonops)..(at - 1))
      <4>1. /\ e \in 1..stop /\ stop \in 1..(n + 1) /\ InOrder(order, e..(stop - 1))
        BY <3>2 DEF Arranged
      <4>2. nonops = 0 \/ (nonops = at - e /\ at \in e..stop)
        BY <3>2, <4>1 DEF Stands
      <4>3. ASSUME NEW i \in (at - nonops)..(at - 1), NEW j \in (at - nonops)..(at - 1), i < j
            PROVE  order[i] < order[j]
        <5>1. nonops # 0 BY <2>2, <4>3
        <5>2. i \in e..(stop - 1) /\ j \in e..(stop - 1) BY <2>2, <4>1, <4>2, <4>3, <5>1
        <5>3. QED BY <4>1, <4>3, <5>2 DEF InOrder
      <4>4. QED BY <4>3 DEF InOrder
    <3>4. LongsInOrder(order) BY <3>1 DEF StoreRun
    <3>5. QED BY <2>2, <2>4, <3>3, <3>4 DEF ArgumentsKeepOrder, LongsInOrder, InOrder
  <2>5. QED BY <2>3, <2>4 DEF Reading
<1>2. QED BY <1>1, RunInvariant, PTL

(* A buffer with a limit holds the first options read.                     *)
LEMMA KeptIs ==
  ASSUME bufmax \in Int, NEW Q \in Seq(Options)
  PROVE  /\ Kept(Q) \in Seq(Options) /\ Len(Kept(Q)) \in 0..Len(Q)
         /\ \A i \in 1..Len(Kept(Q)) : Kept(Q)[i] = Q[i]
         /\ bufmax < 0 => Kept(Q) = Q
         /\ bufmax >= 0 => Len(Kept(Q)) = IF bufmax < Len(Q) THEN bufmax ELSE Len(Q)
<1>1. Len(Q) \in Nat OBVIOUS
<1>2. CASE bufmax >= 0 /\ bufmax < Len(Q)
  <2>1. Kept(Q) = SubSeq(Q, 1, bufmax) BY <1>2 DEF Kept
  <2>2. \A i \in 1..bufmax : Q[i] \in Options BY <1>1, <1>2
  <2>3. /\ SubSeq(Q, 1, bufmax) \in Seq(Options) /\ Len(SubSeq(Q, 1, bufmax)) = bufmax
        /\ \A i \in 1..bufmax : SubSeq(Q, 1, bufmax)[i] = Q[i]
    BY <1>1, <1>2, <2>2, SubSeqProperties
  <2>4. QED BY <1>1, <1>2, <2>1, <2>3
<1>3. CASE ~(bufmax >= 0 /\ bufmax < Len(Q)) BY <1>1, <1>3 DEF Kept
<1>4. QED BY <1>2, <1>3

LEMMA KeptOfPart ==
  ASSUME bufmax \in Int, NEW Q \in Seq(Options), NEW R \in Seq(Options)
  PROVE  Kept(Q) = SubSeq(Kept(Q \o R), 1, Len(Kept(Q)))
<1>1. PICK all \in Seq(Options) : all = Q \o R BY Concats
<1>2. /\ Len(Q) \in Nat /\ Len(R) \in Nat /\ Len(all) = Len(Q) + Len(R)
      /\ \A i \in 1..Len(Q) : all[i] = Q[i]
  BY <1>1
<1>3. PICK part \in Seq(Options) : part = Kept(Q) BY KeptIs
<1>4. PICK whole \in Seq(Options) : whole = Kept(all) BY KeptIs
<1>5. /\ Len(part) \in 0..Len(Q) /\ \A i \in 1..Len(part) : part[i] = Q[i]
      /\ bufmax < 0 => part = Q
      /\ bufmax >= 0 => Len(part) = IF bufmax < Len(Q) THEN bufmax ELSE Len(Q)
  BY <1>3, KeptIs
<1>6. /\ Len(whole) \in 0..Len(all) /\ \A i \in 1..Len(whole) : whole[i] = all[i]
      /\ bufmax < 0 => whole = all
      /\ bufmax >= 0 => Len(whole) = IF bufmax < Len(all) THEN bufmax ELSE Len(all)
  BY <1>4, KeptIs
<1>7. Len(part) <= Len(whole) BY <1>2, <1>5, <1>6
<1>8. \A i \in 1..Len(part) : whole[i] = part[i] /\ whole[i] \in Options
  BY <1>2, <1>5, <1>6, <1>7
<1>9. /\ SubSeq(whole, 1, Len(part)) \in Seq(Options)
      /\ Len(SubSeq(whole, 1, Len(part))) = Len(part)
      /\ \A i \in 1..Len(part) : SubSeq(whole, 1, Len(part))[i] = whole[i]
  BY <1>8, SubSeqProperties
<1>10. part = SubSeq(whole, 1, Len(part)) BY <1>8, <1>9, SeqEqual
<1>11. QED BY <1>1, <1>3, <1>4, <1>10

(* What the second pass has stored is the beginning of what is meant.      *)
LEMMA StoredPart ==
  ASSUME ParseInv, pass = "store"
  PROVE  \E Q, R \in Seq(Options) : buffer = Kept(Q) /\ Q \o R = Meant.options
<1>1. ParserInv /\ StoreRun BY DEF ParseInv
<1>2. PICK C, e, stop, tail : /\ Arranged(C, e, stop, tail)
                              /\ \E Q \in Seq(Options) :
                                   buffer = Kept(Q) /\ Stands(C, e, stop, tail, Q)
  BY <1>1 DEF StoreRun
<1>3. PICK Q \in Seq(Options) : buffer = Kept(Q) /\ Stands(C, e, stop, tail, Q)
  BY <1>2
<1>4. tail \in Seq(Options) BY <1>2 DEF Arranged
<1>5. ASSUME NEW i, NEW one, IsOption(i), Ahead(i, Place, one)
      PROVE  ToCome(i, Place).options \in Seq(Options)
  <2>1. one.options \in Seq(Options) BY <1>5 DEF Ahead, OneResult
  <2>2. CASE one.verdict \in Fatal
    <3>1. ToCome(i, Place).options = <<>> BY <1>5, <2>2 DEF Ahead
    <3>2. QED BY <3>1
  <2>3. CASE one.verdict \notin Fatal /\ (one.verdict = "OK" \/ Place = Width(argv[i]))
    <3>1. /\ i + 1 + one.took \in 1..(Len(argv) + 1)
          /\ ToCome(i, Place).options = one.options \o After(i + 1 + one.took).options
      BY <1>5, <2>3 DEF Ahead
    <3>2. After(i + 1 + one.took).options \in Seq(Options) BY <1>1, <3>1, AfterType
    <3>3. QED BY <2>1, <3>1, <3>2, Concats
  <2>4. CASE one.verdict \notin Fatal /\ ~(one.verdict = "OK" \/ Place = Width(argv[i]))
    <3>1. /\ ToCome(i, Place).options = one.options \o ToCome(i, Place + 1).options
          /\ ToCome(i, Place + 1).options \in Seq(Options)
      BY <1>5, <2>4 DEF Ahead
    <3>2. QED BY <2>1, <3>1, Concats
  <2>5. QED BY <2>2, <2>3, <2>4
<1>6. CASE /\ at \in C /\ at < e /\ nonops = 0 /\ Reached(order[at])
           /\ Q \o ToCome(order[at], Place).options = Meant.options
  <2>1. /\ IsOption(order[at])
        /\ Ahead(order[at], Place, OptionIn(Argument, Place, Following))
    BY <1>1, <1>2, <1>6, CutReads
  <2>2. ToCome(order[at], Place).options \in Seq(Options) BY <1>5, <2>1
  <2>3. QED BY <1>3, <1>6, <2>2
<1>7. CASE /\ at = stop /\ Illegal(stop) /\ nonops = at - e /\ Reached(stop)
           /\ Q \o ToCome(stop, Place).options = Meant.options
  <2>1. IsOption(at) /\ Ahead(at, Place, OptionIn(Argument, Place, Following))
    BY <1>1, <1>7, IllegalReads
  <2>2. ToCome(stop, Place).options \in Seq(Options) BY <1>5, <1>7, <2>1
  <2>3. QED BY <1>3, <1>7, <2>2
<1>8. CASE Q \o tail = Meant.options BY <1>3, <1>4, <1>8
<1>9. QED BY <1>3, <1>6, <1>7, <1>8 DEF Stands

LEMMA MeantType == ASSUME ParserInv PROVE Meant.options \in Seq(Options)
<1>1. Len(argv) \in Nat /\ 1 \in 1..(Len(argv) + 1) BY OrderIs
<1>2. Meant = After(1) BY DEF Meant, Meaning, After
<1>3. QED BY <1>1, <1>2, AfterType

(* ParsedAsMeant: the two passes over the array they rearrange store the   *)
(* options, leave the words and end with the verdict of one reading of the *)
(* command line from left to right.                                        *)
THEOREM MeaningParsed == ParserSpec => []ParsedAsMeant
<1>1. ParseInv => ParsedAsMeant
  <2> SUFFICES ASSUME ParseInv PROVE ParsedAsMeant OBVIOUS
  <2>1. ParserInv /\ Ended /\ bufmax \in Int BY DEF ParseInv, ParserInv
  <2>2. pass = "store" => buffer = SubSeq(Kept(Meant.options), 1, Len(buffer))
    <3>1. SUFFICES ASSUME pass = "store"
                   PROVE  buffer = SubSeq(Kept(Meant.options), 1, Len(buffer))
      OBVIOUS
    <3>2. PICK Q, R \in Seq(Options) : buffer = Kept(Q) /\ Q \o R = Meant.options
      BY <3>1, StoredPart
    <3>3. QED BY <2>1, <3>2, KeptOfPart
  <2>3. QED BY <2>1, <2>2 DEF ParsedAsMeant, Ended, Meant, Kept
<1>2. QED BY <1>1, RunInvariant, PTL

(* ArraysSuffice: the arrays main() allocates after Stats hold what Parser *)
(* stores, each with its sentinel.                                         *)
THEOREM ArraysAreEnough == ParserSpec => []ArraysSuffice
<1>1. ParseInv => ArraysSuffice
  <2> SUFFICES ASSUME ParseInv, pass \in {"store", "done", "error"} PROVE ArraysSuffice
    BY DEF ArraysSuffice
  <2>1. /\ ParserInv /\ Ended /\ bufmax \in Int /\ buffer_max \in Nat
        /\ buffer \in Seq(Options) /\ options_max = Max(Indexes) + 2
    BY DEF ParseInv, ParserInv, StoreInv
  <2>2. Meant.options \in Seq(Options) BY <2>1, MeantType
  <2>3. PICK m \in Nat : m = Len(Meant.options) BY <2>2
  <2>4. buffer_max - 1 = m BY <2>3 DEF ParseInv, StoreRun, Ended
  <2>5. Len(buffer) < buffer_max
    <3>1. CASE pass = "store"
      <4>1. PICK Q, R \in Seq(Options) : buffer = Kept(Q) /\ Q \o R = Meant.options
        BY <3>1, StoredPart
      <4>2. Len(Q \o R) = Len(Q) + Len(R) BY Concats, Zenon
      <4>3. Len(Q) \in Nat /\ Len(R) \in Nat OBVIOUS
      <4> DEFINE all == Q \o R
      <4> HIDE DEF all
      <4>4. m = Len(Q) + Len(R)
        <5>1. all = Meant.options BY <4>1 DEF all
        <5>2. Len(all) = Len(Q) + Len(R) BY <4>2 DEF all
        <5>3. QED BY <2>3, <5>1, <5>2
      <4>5. Len(Kept(Q)) \in 0..Len(Q) BY <2>1, KeptIs
      <4>6. QED BY <2>1, <2>4, <4>1, <4>3, <4>4, <4>5
    <3>2. CASE pass # "store"
      <4>1. buffer = Kept(Meant.options) BY <2>1, <3>2 DEF Ended
      <4>2. Len(buffer) \in 0..m BY <2>1, <2>2, <2>3, <4>1, KeptIs
      <4>3. QED BY <2>1, <2>4, <4>2
    <3>3. QED BY <3>1, <3>2
  <2>6. ASSUME NEW k \in DOMAIN buffer PROVE buffer[k].index + 1 < options_max
    <3>1. buffer[k] \in Options BY <2>1
    <3>2. buffer[k].index \in Indexes BY <3>1 DEF Options
    <3>3. \A i \in Indexes : i \in Nat BY DescriptorType DEF Indexes, Descriptors
    <3>4. PICK x \in Nat : x = buffer[k].index BY <3>2, <3>3
    <3>5. PICK y \in Nat : y = Max(Indexes) BY <3>3, LargestIndex
    <3>6. y >= x BY <3>2, <3>4, <3>5, LargestIndex
    <3>7. QED BY <2>1, <3>4, <3>5, <3>6
  <2>7. pass # "store" /\ bufmax < 0 => buffer_max = Len(buffer) + 1
    <3>1. SUFFICES ASSUME pass # "store", bufmax < 0 PROVE buffer_max = Len(buffer) + 1
      OBVIOUS
    <3>2. buffer = Meant.options BY <2>1, <2>2, <3>1, KeptIs DEF Ended
    <3>3. QED BY <2>1, <2>3, <2>4, <3>2
  <2>8. QED BY <2>5, <2>6, <2>7 DEF ArraysSuffice
<1>2. QED BY <1>1, RunInvariant, PTL

-----------------------------------------------------------------------------
(* The lists: what append() makes of the options of one index.             *)

(* Positions of the buffer b: the first and the last of their index, two in a row. *)
Opens(b, k) == \A m \in 1..(k - 1) : b[m].index # b[k].index
Closes(b, k) == \A m \in (k + 1)..Len(b) : b[m].index # b[k].index
Succeeds(b, j, k) == /\ j < k /\ b[j].index = b[k].index
                     /\ \A m \in (j + 1)..(k - 1) : b[m].index # b[k].index
NodeOf(b, k) == IF Opens(b, k) THEN HeadNode(b[k].index) ELSE SlotNode(k)
Nodes(b) == {HeadNode(i) : i \in Indexes} \cup {SlotNode(k) : k \in 1..Len(b)}
Linked(nx, pv, m, n, round) == nx[m] = Link(n, round) /\ pv[n] = Link(m, round)

(* The lists of the buffer b, with the heads h and the links nx and pv. *)
Chained(b, h, nx, pv) ==
  /\ DOMAIN nx = Nodes(b) /\ DOMAIN pv = Nodes(b)
  /\ \A i \in Indexes :
       (\A k \in 1..Len(b) : b[k].index # i) =>
         h[i] = Unset /\ Linked(nx, pv, HeadNode(i), HeadNode(i), TRUE)
  /\ \A k \in 1..Len(b) :
       /\ Opens(b, k) => /\ h[b[k].index] = b[k]
                         /\ Linked(nx, pv, SlotNode(k), SlotNode(k), TRUE)
       /\ Closes(b, k) => Linked(nx, pv, NodeOf(b, k), HeadNode(b[k].index), TRUE)
  /\ \A j, k \in 1..Len(b) :
       Succeeds(b, j, k) => Linked(nx, pv, NodeOf(b, j), NodeOf(b, k), FALSE)

ListInv == Chained(buffer, options, next_, prev_)

(* A set of positions has a last one. *)
LEMMA Greatest ==
  ASSUME NEW n \in Nat, NEW T \in SUBSET (1..n), T # {}
  PROVE  \E m \in T : \A y \in T : y <= m
<1> DEFINE U == {n - x : x \in T}
<1>1. U \in SUBSET Nat /\ U # {}
  <2>1. \A x \in 1..n : n - x \in Nat OBVIOUS
  <2>2. PICK x \in T : TRUE OBVIOUS
  <2>3. n - x \in U BY <2>2
  <2>4. U \in SUBSET Nat BY <2>1
  <2>5. QED BY <2>3, <2>4
<1>2. PICK u \in U : \A y \in U : u <= y
  <2> HIDE DEF U
  <2>1. QED BY <1>1, Least
<1>3. PICK m \in T : u = n - m OBVIOUS
<1>4. ASSUME NEW y \in T PROVE y <= m
  <2>1. n - y \in U OBVIOUS
  <2>2. n - m <= n - y BY <1>2, <1>3, <2>1
  <2>3. m \in 1..n /\ y \in 1..n BY <1>3
  <2>4. QED BY <2>2, <2>3
<1>5. QED BY <1>4

LEMMA MaxIsGreatest ==
  ASSUME NEW n \in Nat, NEW T \in SUBSET (1..n), T # {}
  PROVE  Max(T) \in T /\ \A y \in T : y <= Max(T)
<1>1. PICK m \in T : \A y \in T : y <= m BY Greatest
<1>2. \A y \in T : m >= y
  <2>1. SUFFICES ASSUME NEW y \in T PROVE m >= y OBVIOUS
  <2>2. m \in 1..n /\ y \in 1..n /\ y <= m BY <1>1, <2>1
  <2>3. QED BY <2>2
<1>3. Max(T) \in T /\ \A y \in T : Max(T) >= y BY <1>1, <1>2, Zenon DEF Max
<1>4. PICK x \in 1..n : x = Max(T) BY <1>3
<1>5. \A y \in T : y <= x
  <2>1. SUFFICES ASSUME NEW y \in T PROVE y <= x OBVIOUS
  <2>2. y \in 1..n /\ x >= y BY <1>3, <1>4, <2>1
  <2>3. QED BY <2>2
<1>6. QED BY <1>3, <1>4, <1>5

(* Nodes are what they say. *)
LEMMA NodesDiffer ==
  /\ \A i, k : HeadNode(i) # SlotNode(k)
  /\ \A i, j : HeadNode(i) = HeadNode(j) => i = j
  /\ \A k, l : SlotNode(k) = SlotNode(l) => k = l
BY DEF HeadNode, SlotNode

LEMMA LinkIs ==
  /\ \A n : Link(n, TRUE).tagged /\ ~Link(n, FALSE).tagged
  /\ \A n : Link(n, TRUE).to = n /\ Link(n, FALSE).to = n
BY DEF Link

(* In a buffer of n options. *)
IsBuffer(b, n) == n \in Nat /\ DOMAIN b = 1..n /\ Len(b) = n /\ \A k \in 1..n : b[k] \in Options

LEMMA BufferIs == ASSUME StoreInv PROVE IsBuffer(buffer, Len(buffer))
BY DEF StoreInv, IsBuffer

(* What is not the first of its index has one before it, ... *)
LEMMA HasEarlier ==
  ASSUME NEW b, NEW n, IsBuffer(b, n), NEW k \in 1..n, ~Opens(b, k)
  PROVE  \E j \in 1..n : Succeeds(b, j, k)
<1> DEFINE T == {m \in 1..(k - 1) : b[m].index = b[k].index}
<1>1. n \in Nat /\ k - 1 \in Nat BY DEF IsBuffer
<1>2. T # {} BY DEF Opens
<1>3. PICK j \in T : \A y \in T : y <= j BY <1>1, <1>2, Greatest
<1>4. \A m \in (j + 1)..(k - 1) : b[m].index # b[k].index
  <2>1. SUFFICES ASSUME NEW m \in (j + 1)..(k - 1), m \in T PROVE FALSE
    BY <1>1, <1>3
  <2>2. m <= j BY <1>3, <2>1
  <2>3. j \in 1..(k - 1) BY <1>3
  <2>4. QED BY <2>1, <2>2, <2>3
<1>5. j \in 1..n /\ j < k BY <1>1, <1>3
<1>6. QED BY <1>3, <1>4, <1>5 DEF Succeeds

(* ... an index that occurs has a first one, ... *)
LEMMA HasFirst ==
  ASSUME NEW b, NEW n, IsBuffer(b, n), NEW i, NEW k0 \in 1..n, b[k0].index = i
  PROVE  \E k \in 1..n : b[k].index = i /\ Opens(b, k)
<1> DEFINE T == {m \in 1..n : b[m].index = i}
<1>1. T # {} /\ T \in SUBSET Nat OBVIOUS
<1>2. PICK k \in T : \A y \in T : k <= y BY <1>1, Least
<1>3. Opens(b, k)
  <2>1. SUFFICES ASSUME NEW m \in 1..(k - 1), b[m].index = b[k].index PROVE FALSE
    BY DEF Opens
  <2>2. k \in 1..n /\ n \in Nat BY <1>2 DEF IsBuffer
  <2>3. m \in T BY <1>2, <2>1, <2>2
  <2>4. QED BY <1>2, <2>1, <2>2, <2>3
<1>4. QED BY <1>2, <1>3

(* ... and a last one. *)
LEMMA HasLast ==
  ASSUME NEW b, NEW n, IsBuffer(b, n), NEW i, NEW k0 \in 1..n, b[k0].index = i
  PROVE  \E k \in 1..n : b[k].index = i /\ Closes(b, k)
<1> DEFINE T == {m \in 1..n : b[m].index = i}
<1>1. T # {} /\ T \in SUBSET (1..n) /\ n \in Nat /\ Len(b) = n BY DEF IsBuffer
<1>2. PICK k \in T : \A y \in T : y <= k BY <1>1, Greatest
<1>3. Closes(b, k)
  <2>1. SUFFICES ASSUME NEW m \in (k + 1)..n, b[m].index = b[k].index PROVE FALSE
    BY <1>1 DEF Closes
  <2>2. k \in 1..n BY <1>2
  <2>3. m \in T BY <1>1, <1>2, <2>1, <2>2
  <2>4. QED BY <1>1, <1>2, <2>1, <2>2, <2>3
<1>4. QED BY <1>2, <1>3

(* Each node's first(): the head of its chain; a slot whose option was     *)
(* copied to the head is a chain of its own.                               *)
Root(b, n) ==
  IF n[1] = "head" \/ Opens(b, n[2]) THEN n ELSE HeadNode(b[n[2]].index)

LEMMA RootIs ==
  ASSUME NEW b
  PROVE  /\ \A i : Root(b, HeadNode(i)) = HeadNode(i)
         /\ \A k : Root(b, SlotNode(k)) =
              IF Opens(b, k) THEN SlotNode(k) ELSE HeadNode(b[k].index)
         /\ \A k : Root(b, NodeOf(b, k)) = HeadNode(b[k].index)
BY DEF Root, HeadNode, SlotNode, NodeOf

LEMMA NodeIsNode ==
  ASSUME NEW b, NEW n, IsBuffer(b, n), NEW k \in 1..n
  PROVE  /\ b[k].index \in Indexes /\ NodeOf(b, k) \in Nodes(b)
         /\ HeadNode(b[k].index) \in Nodes(b) /\ SlotNode(k) \in Nodes(b)
<1>1. b[k] \in Options /\ Len(b) = n BY DEF IsBuffer
<1>2. b[k].index \in Indexes BY <1>1 DEF Options
<1>3. QED BY <1>1, <1>2 DEF Nodes, NodeOf

(* Where prev() leads from a node of a list. *)
LEMMA PrevOfHead ==
  ASSUME StoreInv, ListInv, NEW i \in Indexes
  PROVE  prev_[HeadNode(i)].tagged
<1> DEFINE n == Len(buffer)
<1>1. IsBuffer(buffer, n) BY BufferIs
<1> HIDE DEF n
<1>2. CASE \A k \in 1..Len(buffer) : buffer[k].index # i
  <2>1. prev_[HeadNode(i)] = Link(HeadNode(i), TRUE) BY <1>2 DEF ListInv, Chained, Linked
  <2>2. QED BY <2>1, LinkIs
<1>3. CASE ~(\A k \in 1..Len(buffer) : buffer[k].index # i)
  <2>1. PICK k0 \in 1..n : buffer[k0].index = i BY <1>1, <1>3 DEF IsBuffer
  <2>2. PICK k \in 1..n : buffer[k].index = i /\ Closes(buffer, k)
    BY <1>1, <2>1, HasLast
  <2>3. Linked(next_, prev_, NodeOf(buffer, k), HeadNode(i), TRUE)
    BY <1>1, <2>2 DEF ListInv, Chained, IsBuffer
  <2>4. QED BY <2>3, LinkIs DEF Linked
<1>4. QED BY <1>2, <1>3

LEMMA PrevOfSlot ==
  ASSUME StoreInv, ListInv, NEW k \in 1..Len(buffer)
  PROVE  /\ Opens(buffer, k) => prev_[SlotNode(k)].tagged
         /\ ~Opens(buffer, k) =>
              \E j \in 1..(k - 1) : /\ buffer[j].index = buffer[k].index
                                    /\ prev_[SlotNode(k)] = Link(NodeOf(buffer, j), FALSE)
<1> DEFINE n == Len(buffer)
<1>1. IsBuffer(buffer, n) BY BufferIs
<1>2. ASSUME Opens(buffer, k) PROVE prev_[SlotNode(k)].tagged
  <2>1. prev_[SlotNode(k)] = Link(SlotNode(k), TRUE) BY <1>2 DEF ListInv, Chained, Linked
  <2>2. QED BY <2>1, LinkIs
<1>3. ASSUME ~Opens(buffer, k)
      PROVE  \E j \in 1..(k - 1) : /\ buffer[j].index = buffer[k].index
                                   /\ prev_[SlotNode(k)] = Link(NodeOf(buffer, j), FALSE)
  <2> HIDE DEF n
  <2>1. k \in 1..n /\ n \in Nat /\ n = Len(buffer) BY <1>1 DEF IsBuffer, n
  <2>2. PICK j \in 1..n : Succeeds(buffer, j, k) BY <1>1, <1>3, <2>1, HasEarlier
  <2>3. Linked(next_, prev_, NodeOf(buffer, j), NodeOf(buffer, k), FALSE)
    BY <2>1, <2>2 DEF ListInv, Chained
  <2>4. NodeOf(buffer, k) = SlotNode(k) BY <1>3 DEF NodeOf
  <2>5. j \in 1..(k - 1) /\ buffer[j].index = buffer[k].index BY <2>1, <2>2 DEF Succeeds
  <2>6. QED BY <2>3, <2>4, <2>5 DEF Linked
<1>4. QED BY <1>2, <1>3

(* first() is what its definition says ... *)
LEMMA FirstWalks ==
  ASSUME StoreInv, ListInv
  PROVE  \E f : /\ \A n : first(n) = f[n]
                /\ \A n \in Nodes(buffer) :
                     f[n] = IF prev_[n].tagged THEN n ELSE f[prev_[n].to]
<1> DEFINE b == buffer
           D == DOMAIN prev_
           g == [n \in D |-> Root(b, n)]
           f == CHOOSE h : h = [n \in D |-> IF prev_[n].tagged THEN n ELSE h[prev_[n].to]]
<1>1. D = Nodes(b) BY DEF ListInv, Chained
<1>2. IsBuffer(b, Len(b)) BY BufferIs
<1>3. ASSUME NEW n \in D
      PROVE  g[n] = IF prev_[n].tagged THEN n ELSE g[prev_[n].to]
  <2>1. CASE \E i \in Indexes : n = HeadNode(i)
    <3>1. PICK i \in Indexes : n = HeadNode(i) BY <2>1
    <3>2. prev_[n].tagged BY <3>1, PrevOfHead
    <3>3. g[n] = n BY <3>1, RootIs
    <3>4. QED BY <3>2, <3>3
  <2>2. CASE \E k \in 1..Len(b) : n = SlotNode(k)
    <3>1. PICK k \in 1..Len(b) : n = SlotNode(k) BY <2>2
    <3>2. g[n] = IF Opens(b, k) THEN n ELSE HeadNode(b[k].index) BY <3>1, RootIs
    <3>3. CASE Opens(b, k)
      <4>1. prev_[n].tagged BY <3>1, <3>3, PrevOfSlot
      <4>2. QED BY <3>2, <3>3, <4>1
    <3>4. CASE ~Opens(b, k)
      <4>1. PICK j \in 1..(k - 1) : /\ b[j].index = b[k].index
                                    /\ prev_[n] = Link(NodeOf(b, j), FALSE)
        BY <3>1, <3>4, PrevOfSlot
      <4>2. j \in 1..Len(b) BY <1>2, <3>1, <4>1 DEF IsBuffer
      <4>3. NodeOf(b, j) \in D BY <1>1, <1>2, <4>2, NodeIsNode
      <4>4. g[NodeOf(b, j)] = HeadNode(b[k].index) BY <4>1, <4>3, RootIs
      <4>5. prev_[n].to = NodeOf(b, j) /\ ~prev_[n].tagged BY <4>1, LinkIs
      <4>6. QED BY <3>2, <3>4, <4>4, <4>5
    <3>5. QED BY <3>3, <3>4
  <2>3. QED BY <1>1, <2>1, <2>2 DEF Nodes
<1>4. g = [n \in D |-> IF prev_[n].tagged THEN n ELSE g[prev_[n].to]]
  <2>1. g = [n \in D |-> g[n]] OBVIOUS
  <2> HIDE DEF g
  <2>2. QED BY <1>3, <2>1
<1>5. f = [n \in D |-> IF prev_[n].tagged THEN n ELSE f[prev_[n].to]] BY <1>4, Zenon
<1>6. \A n : first(n) = f[n] BY Zenon DEF first
<1> HIDE DEF f
<1>7. \A n \in D : f[n] = IF prev_[n].tagged THEN n ELSE f[prev_[n].to] BY <1>5
<1>8. QED BY <1>1, <1>6, <1>7

(* ... and finds the head of the chain from everywhere. *)
LEMMA FirstIs ==
  ASSUME StoreInv, ListInv
  PROVE  /\ \A i \in Indexes : first(HeadNode(i)) = HeadNode(i)
         /\ \A k \in 1..Len(buffer) : first(NodeOf(buffer, k)) = HeadNode(buffer[k].index)
<1> DEFINE b == buffer
           n == Len(buffer)
<1>1. PICK f : /\ \A x : first(x) = f[x]
               /\ \A x \in Nodes(b) : f[x] = IF prev_[x].tagged THEN x ELSE f[prev_[x].to]
  BY FirstWalks
<1>2. IsBuffer(b, n) /\ n \in Nat BY BufferIs DEF IsBuffer
<1>3. ASSUME NEW i \in Indexes PROVE f[HeadNode(i)] = HeadNode(i)
  <2>1. HeadNode(i) \in Nodes(b) BY DEF Nodes
  <2>2. QED BY <1>1, <2>1, PrevOfHead
<1> DEFINE Bad == {k \in 1..n : f[NodeOf(b, k)] # HeadNode(b[k].index)}
<1>4. Bad = {}
  <2>1. SUFFICES ASSUME Bad # {} PROVE FALSE OBVIOUS
  <2>2. Bad \in SUBSET Nat OBVIOUS
  <2> HIDE DEF Bad
  <2>3. PICK k \in Bad : \A y \in Bad : k <= y BY <2>1, <2>2, Least
  <2>4. k \in 1..n /\ f[NodeOf(b, k)] # HeadNode(b[k].index) BY <2>3 DEF Bad
  <2>5. b[k].index \in Indexes /\ SlotNode(k) \in Nodes(b) BY <1>2, <2>4, NodeIsNode
  <2>6. ~Opens(b, k) BY <1>3, <2>4, <2>5 DEF NodeOf
  <2>7. PICK j \in 1..(k - 1) : /\ b[j].index = b[k].index
                                /\ prev_[SlotNode(k)] = Link(NodeOf(b, j), FALSE)
    BY <2>4, <2>6, PrevOfSlot
  <2>8. j \in 1..n /\ ~(k <= j) BY <1>2, <2>4, <2>7
  <2>9. f[NodeOf(b, j)] = HeadNode(b[j].index)
    <3>1. j \notin Bad BY <2>3, <2>8
    <3>2. QED BY <2>8, <3>1 DEF Bad
  <2>10. NodeOf(b, k) = SlotNode(k) BY <2>6 DEF NodeOf
  <2>11. f[SlotNode(k)] = f[NodeOf(b, j)] BY <1>1, <2>5, <2>7, LinkIs
  <2>12. QED BY <2>4, <2>7, <2>9, <2>10, <2>11
<1> HIDE DEF n
<1>5. \A k \in 1..n : f[NodeOf(b, k)] = HeadNode(b[k].index) BY <1>4
<1>6. QED BY <1>1, <1>3, <1>5 DEF n

LEMMA LastIs ==
  ASSUME StoreInv, ListInv, NEW l \in 1..Len(buffer), Closes(buffer, l)
  PROVE  /\ last(HeadNode(buffer[l].index)) = NodeOf(buffer, l)
         /\ \A k \in 1..Len(buffer) :
              buffer[k].index = buffer[l].index => last(NodeOf(buffer, k)) = NodeOf(buffer, l)
<1> DEFINE i == buffer[l].index
<1>1. IsBuffer(buffer, Len(buffer)) BY BufferIs
<1>2. i \in Indexes BY <1>1, NodeIsNode
<1>3. prev_[HeadNode(i)] = Link(NodeOf(buffer, l), TRUE) BY DEF ListInv, Chained, Linked
<1>4. prev_[HeadNode(i)].to = NodeOf(buffer, l) BY <1>3, LinkIs
<1> HIDE DEF i
<1>5. \A x : first(x) = HeadNode(i) => last(x) = NodeOf(buffer, l) BY <1>4 DEF last
<1>6. QED BY <1>2, <1>5, FirstIs DEF i
-----------------------------------------------------------------------------
(* One option more. *)

Grows(b, n, o, c) ==
  /\ IsBuffer(b, n) /\ IsBuffer(c, n + 1) /\ o \in Options
  /\ c[n + 1] = o /\ \A k \in 1..n : c[k] = b[k]

LEMMA AppendGrows ==
  ASSUME NEW b \in Seq(Options), NEW o \in Options
  PROVE  Grows(b, Len(b), o, Append(b, o))
<1> DEFINE c == Append(b, o)
           n == Len(b)
<1>1. n \in Nat /\ DOMAIN b = 1..n /\ \A k \in 1..n : b[k] \in Options OBVIOUS
<1>2. c \in Seq(Options) /\ Len(c) = n + 1 /\ c[n + 1] = o /\ \A k \in 1..n : c[k] = b[k]
  OBVIOUS
<1> HIDE DEF c, n
<1>3. IsBuffer(b, n) BY <1>1 DEF IsBuffer, n
<1>4. IsBuffer(c, n + 1) BY <1>1, <1>2 DEF IsBuffer
<1>5. QED BY <1>2, <1>3, <1>4 DEF Grows, c, n

LEMMA OldPlaces ==
  ASSUME NEW b, NEW n, NEW o, NEW c, Grows(b, n, o, c), NEW k \in 1..n
  PROVE  /\ Opens(c, k) <=> Opens(b, k)
         /\ NodeOf(c, k) = NodeOf(b, k)
         /\ Closes(c, k) => Closes(b, k) /\ b[k].index # o.index
         /\ \A j \in 1..n : Succeeds(c, j, k) => Succeeds(b, j, k)
<1>1. /\ n \in Nat /\ Len(b) = n /\ Len(c) = n + 1 /\ c[n + 1] = o
      /\ \A m \in 1..n : c[m] = b[m]
  BY DEF Grows, IsBuffer
<1>2. Opens(c, k) <=> Opens(b, k)
  <2>1. c[k] = b[k] /\ \A m \in 1..(k - 1) : c[m] = b[m] BY <1>1
  <2>2. QED BY <2>1 DEF Opens
<1>3. NodeOf(c, k) = NodeOf(b, k) BY <1>1, <1>2 DEF NodeOf
<1>4. ASSUME Closes(c, k) PROVE Closes(b, k) /\ b[k].index # o.index
  <2>1. c[k] = b[k] /\ \A m \in (k + 1)..n : m \in (k + 1)..(n + 1) /\ c[m] = b[m] BY <1>1
  <2>2. n + 1 \in (k + 1)..(n + 1) BY <1>1
  <2>3. QED BY <1>1, <1>4, <2>1, <2>2 DEF Closes
<1>5. ASSUME NEW j \in 1..n, Succeeds(c, j, k) PROVE Succeeds(b, j, k)
  <2>1. c[k] = b[k] /\ c[j] = b[j] /\ \A m \in (j + 1)..(k - 1) : c[m] = b[m] BY <1>1
  <2>2. QED BY <1>5, <2>1 DEF Succeeds
<1>6. QED BY <1>2, <1>3, <1>4, <1>5

LEMMA NewPlace ==
  ASSUME NEW b, NEW n, NEW o, NEW c, Grows(b, n, o, c)
  PROVE  /\ Opens(c, n + 1) <=> \A k \in 1..n : b[k].index # o.index
         /\ NodeOf(c, n + 1) = IF Opens(c, n + 1) THEN HeadNode(o.index) ELSE SlotNode(n + 1)
         /\ \A j \in 1..n : Succeeds(c, j, n + 1) => b[j].index = o.index /\ Closes(b, j)
         /\ \A k \in 1..(n + 1) : ~Succeeds(c, n + 1, k)
         /\ Nodes(c) = Nodes(b) \cup {SlotNode(n + 1)}
<1>1. /\ n \in Nat /\ Len(b) = n /\ Len(c) = n + 1 /\ c[n + 1] = o
      /\ \A m \in 1..n : c[m] = b[m]
  BY DEF Grows, IsBuffer
<1>2. Opens(c, n + 1) <=> \A k \in 1..n : b[k].index # o.index
  <2>1. (n + 1) - 1 = n BY <1>1
  <2>2. QED BY <1>1, <2>1 DEF Opens
<1>3. NodeOf(c, n + 1) = IF Opens(c, n + 1) THEN HeadNode(o.index) ELSE SlotNode(n + 1)
  BY <1>1 DEF NodeOf
<1>4. ASSUME NEW j \in 1..n, Succeeds(c, j, n + 1)
      PROVE  b[j].index = o.index /\ Closes(b, j)
  <2>1. (n + 1) - 1 = n /\ \A m \in (j + 1)..n : m \in 1..n BY <1>1
  <2>2. c[j] = b[j] /\ \A m \in (j + 1)..n : c[m] = b[m] BY <1>1, <2>1
  <2>3. QED BY <1>1, <1>4, <2>1, <2>2 DEF Succeeds, Closes
<1>5. \A k \in 1..(n + 1) : ~(n + 1 < k) BY <1>1
<1>6. Nodes(c) = Nodes(b) \cup {SlotNode(n + 1)}
  <2>1. 1..(n + 1) = (1..n) \cup {n + 1} BY <1>1
  <2>2. QED BY <1>1, <2>1 DEF Nodes
<1>7. QED BY <1>2, <1>3, <1>4, <1>5, <1>6 DEF Succeeds

(* The head is set exactly when its index has occurred. *)
LEMMA HeadSet ==
  ASSUME NEW b, NEW n, IsBuffer(b, n), NEW h, NEW nx, NEW pv, Chained(b, h, nx, pv),
         NEW i \in Indexes
  PROVE  h[i] = Unset <=> \A k \in 1..n : b[k].index # i
<1>1. ASSUME NEW k0 \in 1..n, b[k0].index = i PROVE h[i] # Unset
  <2>1. PICK k \in 1..n : b[k].index = i /\ Opens(b, k) BY <1>1, HasFirst
  <2>2. h[i] = b[k] BY <2>1 DEF Chained, IsBuffer
  <2>3. b[k].index \in Nat
    <3>1. b[k].index \in Indexes BY <2>1, NodeIsNode
    <3>2. QED BY <3>1, DescriptorType DEF Indexes, Descriptors
  <2>4. Unset.index = -1 BY DEF Unset
  <2>5. QED BY <2>2, <2>3, <2>4
<1>2. QED BY <1>1 DEF Chained, IsBuffer

(* No node is two positions' node. *)
LEMMA NodesOnce ==
  ASSUME NEW b, NEW n, IsBuffer(b, n), NEW j \in 1..n, NEW k \in 1..n
  PROVE  /\ NodeOf(b, j) = NodeOf(b, k) => j = k
         /\ \A i : NodeOf(b, k) = HeadNode(i) => b[k].index = i /\ Opens(b, k)
         /\ NodeOf(b, k) # SlotNode(n + 1)
         /\ NodeOf(b, j) = SlotNode(k) => j = k /\ ~Opens(b, k)
<1>1. n \in Nat BY DEF IsBuffer
<1>2. \A i : NodeOf(b, k) = HeadNode(i) => b[k].index = i /\ Opens(b, k)
  BY NodesDiffer DEF NodeOf
<1>3. NodeOf(b, k) # SlotNode(n + 1)
  <2>1. k # n + 1 BY <1>1
  <2>2. QED BY <2>1, NodesDiffer DEF NodeOf
<1>4. NodeOf(b, j) = SlotNode(k) => j = k /\ ~Opens(b, k) BY NodesDiffer DEF NodeOf
<1>5. ASSUME NodeOf(b, j) = NodeOf(b, k) PROVE j = k
  <2>1. CASE Opens(b, k)
    <3>1. Opens(b, j) /\ b[j].index = b[k].index BY <1>5, <2>1, NodesDiffer DEF NodeOf
    <3>2. ~(j \in 1..(k - 1)) /\ ~(k \in 1..(j - 1)) BY <2>1, <3>1 DEF Opens
    <3>3. QED BY <3>2
  <2>2. CASE ~Opens(b, k)
    <3>1. NodeOf(b, j) = SlotNode(k) BY <1>5, <2>2 DEF NodeOf
    <3>2. QED BY <1>4, <3>1
  <2>3. QED BY <2>1, <2>2
<1>6. QED BY <1>2, <1>3, <1>4, <1>5

(* An option of a new index begins a chain of one, ... *)
Begins(b, n, o, c, slot, h, nx, pv, g, nx1, pv1) ==
  /\ Grows(b, n, o, c) /\ slot = SlotNode(n + 1) /\ Chained(b, h, nx, pv)
  /\ h \in [Indexes -> {Unset} \cup ToSet(b)] /\ h[o.index] = Unset
  /\ g = [h EXCEPT ![o.index] = o]
  /\ nx1 = [x \in DOMAIN nx \cup {slot} |-> IF x = slot THEN Link(slot, TRUE) ELSE nx[x]]
  /\ pv1 = [x \in DOMAIN pv \cup {slot} |-> IF x = slot THEN Link(slot, TRUE) ELSE pv[x]]

LEMMA ChainBegins ==
  ASSUME NEW b, NEW n, NEW o, NEW c, NEW slot, NEW h, NEW nx, NEW pv, NEW g, NEW nx1, NEW pv1,
         Begins(b, n, o, c, slot, h, nx, pv, g, nx1, pv1)
  PROVE  Chained(c, g, nx1, pv1)
<1> USE DEF Begins
<1> DEFINE i0 == o.index
<1>1. /\ IsBuffer(b, n) /\ IsBuffer(c, n + 1) /\ n \in Nat /\ Len(c) = n + 1
      /\ c[n + 1] = o /\ \A k \in 1..n : c[k] = b[k]
      /\ i0 \in Indexes
  BY DEF Grows, IsBuffer, Options
<1>2. \A k \in 1..n : b[k].index # i0 BY <1>1, HeadSet
<1>3. /\ DOMAIN nx1 = Nodes(c) /\ DOMAIN pv1 = Nodes(c)
      /\ nx1[slot] = Link(slot, TRUE) /\ pv1[slot] = Link(slot, TRUE)
      /\ \A x \in Nodes(b) : x # slot => nx1[x] = nx[x] /\ pv1[x] = pv[x]
  <2>1. DOMAIN nx = Nodes(b) /\ DOMAIN pv = Nodes(b) BY DEF Chained
  <2>2. Nodes(c) = Nodes(b) \cup {slot} BY NewPlace
  <2>3. QED BY <2>1, <2>2
<1>4. ASSUME NEW m \in Nodes(b), NEW x \in Nodes(b), m # slot, x # slot, NEW round,
             Linked(nx, pv, m, x, round)
      PROVE  Linked(nx1, pv1, m, x, round)
  BY <1>3, <1>4 DEF Linked
<1>5. g[i0] = o /\ \A i \in Indexes : i # i0 => g[i] = h[i] BY <1>1
<1> HIDE DEF i0
<1>6. \A i \in Indexes : HeadNode(i) \in Nodes(b) /\ HeadNode(i) # slot
  BY NodesDiffer DEF Nodes
<1>7. ASSUME NEW i \in Indexes, \A k \in 1..(n + 1) : c[k].index # i
      PROVE  g[i] = Unset /\ Linked(nx1, pv1, HeadNode(i), HeadNode(i), TRUE)
  <2>1. i # i0 BY <1>1, <1>7 DEF i0
  <2>2. \A k \in 1..n : b[k].index # i BY <1>1, <1>7
  <2>3. h[i] = Unset /\ Linked(nx, pv, HeadNode(i), HeadNode(i), TRUE)
    BY <1>1, <2>2 DEF Chained, IsBuffer
  <2>4. QED BY <1>4, <1>5, <1>6, <2>1, <2>3
<1>8. ASSUME NEW k \in 1..(n + 1)
      PROVE  /\ Opens(c, k) => /\ g[c[k].index] = c[k]
                               /\ Linked(nx1, pv1, SlotNode(k), SlotNode(k), TRUE)
             /\ Closes(c, k) => Linked(nx1, pv1, NodeOf(c, k), HeadNode(c[k].index), TRUE)
  <2>1. CASE k = n + 1
    <3>1. c[k] = o /\ Linked(nx1, pv1, SlotNode(k), SlotNode(k), TRUE)
      BY <1>1, <1>3, <2>1 DEF Linked
    <3>2. NodeOf(c, k) = HeadNode(i0) BY <1>2, <2>1, NewPlace DEF i0
    <3>3. Linked(nx, pv, HeadNode(i0), HeadNode(i0), TRUE)
      BY <1>1, <1>2 DEF Chained, IsBuffer
    <3>4. Linked(nx1, pv1, HeadNode(i0), HeadNode(i0), TRUE)
      BY <1>1, <1>4, <1>6, <3>3
    <3>5. QED BY <1>5, <3>1, <3>2, <3>4 DEF i0
  <2>2. CASE k # n + 1
    <3>1. k \in 1..n BY <1>1, <2>2
    <3>2. /\ c[k] = b[k] /\ b[k].index # i0 /\ b[k].index \in Indexes
          /\ NodeOf(b, k) \in Nodes(b) /\ SlotNode(k) \in Nodes(b)
          /\ NodeOf(b, k) # slot /\ SlotNode(k) # slot
      BY <1>1, <1>2, <2>2, <3>1, NodeIsNode, NodesOnce, NodesDiffer
    <3>3. /\ Opens(c, k) => Opens(b, k)
          /\ Closes(c, k) => Closes(b, k)
          /\ NodeOf(c, k) = NodeOf(b, k)
      BY <3>1, OldPlaces
    <3>4. /\ Opens(b, k) => /\ h[b[k].index] = b[k]
                            /\ Linked(nx, pv, SlotNode(k), SlotNode(k), TRUE)
          /\ Closes(b, k) => Linked(nx, pv, NodeOf(b, k), HeadNode(b[k].index), TRUE)
      BY <1>1, <3>1 DEF Chained, IsBuffer
    <3>5. QED BY <1>4, <1>5, <1>6, <3>2, <3>3, <3>4
  <2>3. QED BY <2>1, <2>2
<1>9. ASSUME NEW j \in 1..(n + 1), NEW k \in 1..(n + 1), Succeeds(c, j, k)
      PROVE  Linked(nx1, pv1, NodeOf(c, j), NodeOf(c, k), FALSE)
  <2>1. j \in 1..n /\ k \in 1..n
    <3>1. j # n + 1 BY <1>9, NewPlace
    <3>2. j \in 1..n BY <1>1, <3>1
    <3>3. k # n + 1 BY <1>2, <1>9, <3>2, NewPlace DEF i0
    <3>4. QED BY <1>1, <3>2, <3>3
  <2>2. Succeeds(b, j, k) /\ NodeOf(c, j) = NodeOf(b, j) /\ NodeOf(c, k) = NodeOf(b, k)
    BY <1>9, <2>1, OldPlaces
  <2>3. Linked(nx, pv, NodeOf(b, j), NodeOf(b, k), FALSE)
    BY <1>1, <2>1, <2>2 DEF Chained, IsBuffer
  <2>4. /\ NodeOf(b, j) \in Nodes(b) /\ NodeOf(b, k) \in Nodes(b)
        /\ NodeOf(b, j) # slot /\ NodeOf(b, k) # slot
    BY <1>1, <2>1, NodeIsNode, NodesOnce
  <2>5. QED BY <1>4, <2>2, <2>3, <2>4
<1>10. QED BY <1>1, <1>3, <1>7, <1>8, <1>9 DEF Chained

(* ... any other goes behind the last of its index. *)
Joins(b, n, o, c, l, L, F, slot, h, nx, pv, nx1, pv1) ==
  /\ Grows(b, n, o, c) /\ slot = SlotNode(n + 1) /\ Chained(b, h, nx, pv)
  /\ l \in 1..n /\ b[l].index = o.index /\ Closes(b, l)
  /\ L = NodeOf(b, l) /\ F = HeadNode(o.index)
  /\ nx1 = [x \in DOMAIN nx \cup {slot} |-> IF x = slot THEN Link(F, TRUE)
                                            ELSE IF x = L THEN Link(slot, FALSE) ELSE nx[x]]
  /\ pv1 = [x \in DOMAIN pv \cup {slot} |-> IF x = slot THEN Link(L, FALSE)
                                            ELSE IF x = F THEN Link(slot, TRUE) ELSE pv[x]]

LEMMA ChainGrows ==
  ASSUME NEW b, NEW n, NEW o, NEW c, NEW l, NEW L, NEW F, NEW slot,
         NEW h, NEW nx, NEW pv, NEW nx1, NEW pv1,
         Joins(b, n, o, c, l, L, F, slot, h, nx, pv, nx1, pv1)
  PROVE  Chained(c, h, nx1, pv1)
<1> USE DEF Joins
<1> DEFINE i0 == o.index
<1>1. /\ IsBuffer(b, n) /\ IsBuffer(c, n + 1) /\ n \in Nat /\ Len(c) = n + 1
      /\ c[n + 1] = o /\ \A k \in 1..n : c[k] = b[k]
      /\ i0 \in Indexes
  BY DEF Grows, IsBuffer, Options
<1>2. L \in Nodes(b) /\ F \in Nodes(b) /\ L # slot /\ F # slot
  BY <1>1, NodeIsNode, NodesOnce, NodesDiffer
<1>3. /\ DOMAIN nx1 = Nodes(c) /\ DOMAIN pv1 = Nodes(c)
      /\ nx1[slot] = Link(F, TRUE) /\ pv1[slot] = Link(L, FALSE)
      /\ nx1[L] = Link(slot, FALSE) /\ pv1[F] = Link(slot, TRUE)
      /\ \A x \in Nodes(b) : x # slot /\ x # L => nx1[x] = nx[x]
      /\ \A x \in Nodes(b) : x # slot /\ x # F => pv1[x] = pv[x]
  <2>1. DOMAIN nx = Nodes(b) /\ DOMAIN pv = Nodes(b) BY DEF Chained
  <2>2. Nodes(c) = Nodes(b) \cup {slot} BY NewPlace
  <2>3. QED BY <1>2, <2>1, <2>2
<1>4. ASSUME NEW m \in Nodes(b), NEW x \in Nodes(b), m # slot, x # slot, m # L, x # F,
             NEW round, Linked(nx, pv, m, x, round)
      PROVE  Linked(nx1, pv1, m, x, round)
  BY <1>3, <1>4 DEF Linked
<1> HIDE DEF i0
<1>6. \A i \in Indexes : /\ HeadNode(i) \in Nodes(b) /\ HeadNode(i) # slot
                         /\ i # i0 => HeadNode(i) # F /\ HeadNode(i) # L
  <2>1. SUFFICES ASSUME NEW i \in Indexes
                 PROVE  /\ HeadNode(i) \in Nodes(b) /\ HeadNode(i) # slot
                        /\ i # i0 => HeadNode(i) # F /\ HeadNode(i) # L
    OBVIOUS
  <2>2. HeadNode(i) = L => i = i0 BY <1>1, NodesOnce DEF i0
  <2>3. HeadNode(i) = F => i = i0 BY NodesDiffer DEF i0
  <2>4. QED BY <2>2, <2>3, NodesDiffer DEF Nodes
<1>7. ASSUME NEW i \in Indexes, \A k \in 1..(n + 1) : c[k].index # i
      PROVE  h[i] = Unset /\ Linked(nx1, pv1, HeadNode(i), HeadNode(i), TRUE)
  <2>1. i # i0 BY <1>1, <1>7 DEF i0
  <2>2. \A k \in 1..n : b[k].index # i BY <1>1, <1>7
  <2>3. h[i] = Unset /\ Linked(nx, pv, HeadNode(i), HeadNode(i), TRUE)
    BY <1>1, <2>2 DEF Chained, IsBuffer
  <2>4. QED BY <1>4, <1>6, <2>1, <2>3
<1>8. ASSUME NEW k \in 1..(n + 1)
      PROVE  /\ Opens(c, k) => /\ h[c[k].index] = c[k]
                               /\ Linked(nx1, pv1, SlotNode(k), SlotNode(k), TRUE)
             /\ Closes(c, k) => Linked(nx1, pv1, NodeOf(c, k), HeadNode(c[k].index), TRUE)
  <2>1. CASE k = n + 1
    <3>1. ~Opens(c, k) /\ NodeOf(c, k) = slot /\ c[k] = o BY <1>1, <2>1, NewPlace
    <3>2. Linked(nx1, pv1, slot, F, TRUE) BY <1>3 DEF Linked
    <3>3. QED BY <3>1, <3>2
  <2>2. CASE k # n + 1
    <3>1. k \in 1..n BY <1>1, <2>2
    <3>2. /\ c[k] = b[k] /\ b[k].index \in Indexes
          /\ NodeOf(b, k) \in Nodes(b) /\ SlotNode(k) \in Nodes(b)
          /\ NodeOf(b, k) # slot /\ SlotNode(k) # slot /\ SlotNode(k) # F
      BY <1>1, <2>2, <3>1, NodeIsNode, NodesOnce, NodesDiffer
    <3>3. /\ Opens(c, k) => Opens(b, k)
          /\ Closes(c, k) => Closes(b, k) /\ b[k].index # i0
          /\ NodeOf(c, k) = NodeOf(b, k)
      BY <3>1, OldPlaces DEF i0
    <3>4. /\ Opens(b, k) => SlotNode(k) # L
          /\ b[k].index # i0 => NodeOf(b, k) # L
      BY <1>1, <3>1, NodesOnce DEF i0
    <3>5. /\ Opens(b, k) => /\ h[b[k].index] = b[k]
                            /\ Linked(nx, pv, SlotNode(k), SlotNode(k), TRUE)
          /\ Closes(b, k) => Linked(nx, pv, NodeOf(b, k), HeadNode(b[k].index), TRUE)
      BY <1>1, <3>1 DEF Chained, IsBuffer
    <3>6. Opens(c, k) => /\ h[c[k].index] = c[k]
                         /\ Linked(nx1, pv1, SlotNode(k), SlotNode(k), TRUE)
      BY <1>4, <3>2, <3>3, <3>4, <3>5
    <3>7. Closes(c, k) => Linked(nx1, pv1, NodeOf(c, k), HeadNode(c[k].index), TRUE)
      BY <1>4, <1>6, <3>2, <3>3, <3>4, <3>5
    <3>8. QED BY <3>6, <3>7
  <2>3. QED BY <2>1, <2>2
<1>9. ASSUME NEW j \in 1..(n + 1), NEW k \in 1..(n + 1), Succeeds(c, j, k)
      PROVE  Linked(nx1, pv1, NodeOf(c, j), NodeOf(c, k), FALSE)
  <2>1. j # n + 1 BY <1>9, NewPlace
  <2>2. j \in 1..n BY <1>1, <2>1
  <2>3. CASE k = n + 1
    <3>1. b[j].index = i0 /\ Closes(b, j) BY <1>9, <2>2, <2>3, NewPlace DEF i0
    <3>2. j = l
      <4>1. ~(l \in (j + 1)..n) /\ ~(j \in (l + 1)..n)
        BY <1>1, <3>1 DEF Closes, i0, IsBuffer
      <4>2. QED BY <1>1, <2>2, <4>1
    <3>3. NodeOf(c, j) = L BY <2>2, <3>2, OldPlaces
    <3>4. ~Opens(c, n + 1) BY NewPlace
    <3>5. NodeOf(c, k) = slot BY <2>3, <3>4, NewPlace
    <3>6. QED BY <1>3, <3>3, <3>5 DEF Linked
  <2>4. CASE k # n + 1
    <3>1. k \in 1..n BY <1>1, <2>4
    <3>2. Succeeds(b, j, k) /\ NodeOf(c, j) = NodeOf(b, j) /\ NodeOf(c, k) = NodeOf(b, k)
      BY <1>9, <2>2, <3>1, OldPlaces
    <3>3. Linked(nx, pv, NodeOf(b, j), NodeOf(b, k), FALSE)
      BY <1>1, <2>2, <3>1, <3>2 DEF Chained, IsBuffer
    <3>4. j # l
      <4>1. j < k /\ b[j].index = b[k].index BY <3>2 DEF Succeeds
      <4>2. k \in (j + 1)..n BY <1>1, <2>2, <3>1, <4>1
      <4>3. ~Closes(b, j) BY <1>1, <4>1, <4>2 DEF Closes, IsBuffer
      <4>4. QED BY <4>3
    <3>5. ~Opens(b, k)
      <4>1. j < k /\ b[j].index = b[k].index BY <3>2 DEF Succeeds
      <4>2. j \in 1..(k - 1) BY <1>1, <2>2, <3>1, <4>1
      <4>3. QED BY <4>1, <4>2 DEF Opens
    <3>6. NodeOf(b, j) # L /\ NodeOf(b, k) # F BY <1>1, <2>2, <3>1, <3>4, <3>5, NodesOnce
    <3>7. /\ NodeOf(b, j) \in Nodes(b) /\ NodeOf(b, k) \in Nodes(b)
          /\ NodeOf(b, j) # slot /\ NodeOf(b, k) # slot
      BY <1>1, <2>2, <3>1, NodeIsNode, NodesOnce
    <3>8. QED BY <1>4, <3>2, <3>3, <3>6, <3>7
  <2>5. QED BY <2>3, <2>4
<1>10. QED BY <1>1, <1>3, <1>7, <1>8, <1>9 DEF Chained

LEMMA PerformChains ==
  ASSUME StoreInv, ListInv, NEW o \in Options, Perform(o)
  PROVE  ListInv'
<1> DEFINE n == Len(buffer)
           slot == SlotNode(n + 1)
           i == o.index
<1>1. CASE UNCHANGED storeVars BY <1>1 DEF ListInv, storeVars
<1>2. ASSUME buffer' = Append(buffer, o),
             IF options[i] # Unset
             THEN AppendNode(HeadNode(i), slot) /\ UNCHANGED options
             ELSE /\ options' = [options EXCEPT ![i] = o]
                  /\ next_' = [x \in DOMAIN next_ \cup {slot} |->
                                 IF x = slot THEN Link(slot, TRUE) ELSE next_[x]]
                  /\ prev_' = [x \in DOMAIN prev_ \cup {slot} |->
                                 IF x = slot THEN Link(slot, TRUE) ELSE prev_[x]]
      PROVE  ListInv'
  <2>1. buffer \in Seq(Options) /\ options \in [Indexes -> {Unset} \cup ToSet(buffer)]
    BY DEF StoreInv
  <2>2. Grows(buffer, n, o, buffer') BY <1>2, <2>1, AppendGrows
  <2>3. IsBuffer(buffer, n) /\ n = Len(buffer) BY BufferIs
  <2>4. i \in Indexes BY DEF Options
  <2>5. Chained(buffer, options, next_, prev_) BY DEF ListInv
  <2> HIDE DEF n, slot, i
  <2>6. CASE options[i] = Unset
    <3>1. /\ options' = [options EXCEPT ![o.index] = o] /\ options[o.index] = Unset
          /\ slot = SlotNode(n + 1)
          /\ next_' = [x \in DOMAIN next_ \cup {slot} |->
                         IF x = slot THEN Link(slot, TRUE) ELSE next_[x]]
          /\ prev_' = [x \in DOMAIN prev_ \cup {slot} |->
                         IF x = slot THEN Link(slot, TRUE) ELSE prev_[x]]
      BY <1>2, <2>6 DEF i, slot
    <3>2. Begins(buffer, n, o, buffer', slot, options, next_, prev_, options', next_', prev_')
      BY <2>1, <2>2, <2>5, <3>1 DEF Begins
    <3>3. Chained(buffer', options', next_', prev_') BY <3>2, ChainBegins
    <3>4. QED BY <3>3 DEF ListInv
  <2>7. CASE options[i] # Unset
    <3>1. PICK k0 \in 1..n : buffer[k0].index = i BY <2>3, <2>4, <2>5, <2>7, HeadSet
    <3>2. PICK l \in 1..n : buffer[l].index = i /\ Closes(buffer, l)
      BY <2>3, <3>1, HasLast
    <3>3. PICK L, F : L = NodeOf(buffer, l) /\ F = HeadNode(i) OBVIOUS
    <3>4. last(HeadNode(i)) = L /\ first(HeadNode(i)) = F
      <4>1. last(HeadNode(buffer[l].index)) = NodeOf(buffer, l) BY <2>3, <3>2, LastIs
      <4>2. QED BY <2>4, <3>2, <3>3, <4>1, FirstIs
    <3>5. /\ options' = options /\ slot = SlotNode(n + 1) /\ F = HeadNode(o.index)
          /\ next_' = [x \in DOMAIN next_ \cup {slot} |->
                         IF x = slot THEN Link(F, TRUE)
                         ELSE IF x = L THEN Link(slot, FALSE) ELSE next_[x]]
          /\ prev_' = [x \in DOMAIN prev_ \cup {slot} |->
                         IF x = slot THEN Link(L, FALSE)
                         ELSE IF x = F THEN Link(slot, TRUE) ELSE prev_[x]]
      BY <1>2, <2>7, <3>3, <3>4 DEF AppendNode, i, slot
    <3>6. buffer[l].index = o.index /\ Closes(buffer, l) BY <3>2 DEF i
    <3>7. Joins(buffer, n, o, buffer', l, L, F, slot, options, next_, prev_, next_', prev_')
      BY <2>2, <2>5, <3>2, <3>3, <3>5, <3>6 DEF Joins
    <3>8. Chained(buffer', options, next_', prev_') BY <3>7, ChainGrows
    <3>9. QED BY <3>5, <3>8 DEF ListInv
  <2>8. QED BY <2>6, <2>7
<1>3. QED BY <1>1, <1>2 DEF Perform, CountOption, StoreOption

LEMMA InitChains == Init => ListInv
<1> SUFFICES ASSUME Init PROVE ListInv OBVIOUS
<1> DEFINE D == {HeadNode(i) : i \in Indexes}
<1>1. /\ buffer = <<>> /\ options = [i \in Indexes |-> Unset]
      /\ next_ = [n \in D |-> Link(n, TRUE)] /\ prev_ = next_
  BY DEF Init
<1>2. Len(buffer) = 0 /\ Nodes(buffer) = D BY <1>1 DEF Nodes
<1>3. DOMAIN next_ = D /\ DOMAIN prev_ = D BY <1>1
<1>4. ASSUME NEW i \in Indexes
      PROVE  options[i] = Unset /\ Linked(next_, prev_, HeadNode(i), HeadNode(i), TRUE)
  BY <1>1 DEF Linked
<1>5. \A k \in 1..Len(buffer) : FALSE BY <1>2
<1>6. QED BY <1>2, <1>3, <1>4, <1>5 DEF ListInv, Chained

LEMMA NextChains == ParseInv /\ ListInv /\ [Next]_vars => ListInv'
<1> SUFFICES ASSUME ParseInv, ListInv, [Next]_vars PROVE ListInv' OBVIOUS
<1>1. ParserInv /\ RestInv /\ StoreInv BY DEF ParseInv, ParserInv
<1>2. CASE UNCHANGED storeVars BY <1>2 DEF ListInv, storeVars
<1>3. CASE LongOption \/ ShortOption
  <2>1. Handles(OptionIn(Argument, Place, Following)) BY <1>1, <1>3, LongHandles, ShortHandles
  <2>2. UNCHANGED storeVars \/ \E o \in Options : Perform(o) BY <2>1 DEF Handles
  <2>3. QED BY <1>1, <1>2, <2>2, PerformChains
<1>4. CASE Word \/ Terminator \/ EndOfOptions \/ UNCHANGED vars
  BY <1>2, <1>4 DEF Word, Terminator, EndOfOptions, vars
<1>5. QED BY <1>3, <1>4 DEF Next

(* ListsRight: however many options of however many indexes are stored, in *)
(* whatever order, append keeps the ones of each index one chain in the    *)
(* order of the command line, and every member of it finds both its ends.  *)
THEOREM ListsChained == ParserSpec => []ListsRight
<1>1. ParserInv /\ ListInv => ListsRight
  <2> SUFFICES ASSUME ParserInv, ListInv, NEW i \in Indexes
               PROVE  LET places == {k \in DOMAIN buffer : buffer[k].index = i}
                          node(k) == IF k = Min(places) THEN HeadNode(i) ELSE SlotNode(k)
                          linked(m, n, round) ==
                            next_[m] = Link(n, round) /\ prev_[n] = Link(m, round)
                      IN IF places = {} THEN options[i] = Unset
                         ELSE /\ options[i] = buffer[Min(places)]
                              /\ linked(node(Max(places)), HeadNode(i), TRUE)
                              /\ \A j, k \in places :
                                   j < k /\ (\A m \in places : m <= j \/ k <= m) =>
                                     linked(node(j), node(k), FALSE)
                              /\ \A k \in places : /\ first(node(k)) = HeadNode(i)
                                                   /\ last(node(k)) = node(Max(places))
    BY DEF ListsRight
  <2> DEFINE n == Len(buffer)
             places == {k \in DOMAIN buffer : buffer[k].index = i}
             node(k) == IF k = Min(places) THEN HeadNode(i) ELSE SlotNode(k)
  <2>1. StoreInv /\ IsBuffer(buffer, n) BY BufferIs DEF ParserInv
  <2>2. n \in Nat /\ DOMAIN buffer = 1..n BY <2>1 DEF IsBuffer
  <2>3. Chained(buffer, options, next_, prev_) BY DEF ListInv
  <2>4. places = {k \in 1..n : buffer[k].index = i} BY <2>2
  <2> HIDE DEF n, places
  <2>5. CASE places = {}
    <3>1. options[i] = Unset BY <2>1, <2>3, <2>4, <2>5, HeadSet
    <3>2. QED BY <2>5, <3>1 DEF places
  <2>6. CASE places # {}
    <3> DEFINE f == Min(places)
               l == Max(places)
    <3>1. /\ f \in places /\ \A y \in places : f <= y
          /\ l \in places /\ \A y \in places : y <= l
      <4>1. places \in SUBSET Nat /\ places \in SUBSET (1..n) BY <2>4
      <4>2. QED BY <2>2, <2>6, <4>1, MinIsLeast, MaxIsGreatest
    <3> HIDE DEF f, l
    <3>2. ASSUME NEW k \in places PROVE (Opens(buffer, k) <=> k = f)
      <4>1. Opens(buffer, k) => k = f
        <5>1. f \in 1..n /\ buffer[f].index = buffer[k].index /\ f <= k /\ k \in 1..n
          BY <2>4, <3>1, <3>2
        <5>2. ASSUME Opens(buffer, k) PROVE ~(f \in 1..(k - 1)) BY <5>1, <5>2 DEF Opens
        <5>3. QED BY <2>2, <5>1, <5>2
      <4>2. ASSUME k = f, NEW m \in 1..(k - 1), buffer[m].index = buffer[k].index PROVE FALSE
        <5>1. k \in 1..n /\ buffer[k].index = i BY <2>4, <3>2
        <5>2. m \in 1..n /\ ~(k <= m) BY <2>2, <4>2, <5>1
        <5>3. m \in places BY <2>4, <4>2, <5>1, <5>2
        <5>4. QED BY <3>1, <4>2, <5>2, <5>3
      <4>3. QED BY <4>1, <4>2 DEF Opens
    <3>3. ASSUME NEW k \in places PROVE node(k) = NodeOf(buffer, k)
      BY <2>4, <3>2, <3>3 DEF NodeOf, f
    <3>4. Closes(buffer, l)
      <4>1. SUFFICES ASSUME NEW m \in (l + 1)..n, buffer[m].index = buffer[l].index PROVE FALSE
        BY DEF Closes, n
      <4>2. l \in 1..n /\ buffer[l].index = i BY <2>4, <3>1
      <4>3. m \in 1..n /\ ~(m <= l) BY <2>2, <4>1, <4>2
      <4>4. m \in places BY <2>4, <4>1, <4>2, <4>3
      <4>5. QED BY <3>1, <4>3, <4>4
    <3>5. options[i] = buffer[f]
      BY <2>3, <2>4, <3>1, <3>2 DEF Chained, n
    <3>6. next_[node(l)] = Link(HeadNode(i), TRUE) /\ prev_[HeadNode(i)] = Link(node(l), TRUE)
      <4>1. l \in 1..n /\ buffer[l].index = i BY <2>4, <3>1
      <4>2. Linked(next_, prev_, NodeOf(buffer, l), HeadNode(i), TRUE)
        BY <2>3, <3>4, <4>1 DEF Chained, n
      <4>3. node(l) = NodeOf(buffer, l) BY <3>1, <3>3
      <4> HIDE DEF node
      <4>4. QED BY <4>2, <4>3 DEF Linked
    <3>7. ASSUME NEW j \in places, NEW k \in places, j < k,
                 \A m \in places : m <= j \/ k <= m
          PROVE  next_[node(j)] = Link(node(k), FALSE) /\ prev_[node(k)] = Link(node(j), FALSE)
      <4>1. j \in 1..n /\ k \in 1..n /\ buffer[j].index = i /\ buffer[k].index = i
        BY <2>4, <3>7
      <4>2. ASSUME NEW m \in (j + 1)..(k - 1), buffer[m].index = i PROVE FALSE
        <5>1. m \in 1..n /\ ~(m <= j) /\ ~(k <= m) BY <2>2, <4>1, <4>2
        <5>2. m \in places BY <2>4, <4>2, <5>1
        <5>3. QED BY <3>7, <5>1, <5>2
      <4>3. Succeeds(buffer, j, k) BY <3>7, <4>1, <4>2 DEF Succeeds
      <4>4. Linked(next_, prev_, NodeOf(buffer, j), NodeOf(buffer, k), FALSE)
        BY <2>3, <4>1, <4>3 DEF Chained, n
      <4>5. node(j) = NodeOf(buffer, j) /\ node(k) = NodeOf(buffer, k) BY <3>3
      <4> HIDE DEF node
      <4>6. QED BY <4>4, <4>5 DEF Linked
    <3>8. ASSUME NEW k \in places PROVE first(node(k)) = HeadNode(i) /\ last(node(k)) = node(l)
      <4>1. /\ k \in 1..Len(buffer) /\ l \in 1..Len(buffer)
            /\ buffer[k].index = i /\ buffer[l].index = i
        BY <2>4, <3>1, <3>8 DEF n
      <4>2. node(k) = NodeOf(buffer, k) /\ node(l) = NodeOf(buffer, l) BY <3>1, <3>3
      <4> HIDE DEF node
      <4>3. first(NodeOf(buffer, k)) = HeadNode(i) BY <2>1, <4>1, FirstIs
      <4>4. last(NodeOf(buffer, k)) = NodeOf(buffer, l) BY <2>1, <3>4, <4>1, LastIs
      <4>5. QED BY <4>2, <4>3, <4>4
    <3>9. QED BY <2>6, <3>5, <3>6, <3>7, <3>8 DEF places, f, l
  <2>7. QED BY <2>5, <2>6
<1>2. ParserSpec => []ListInv BY InitChains, NextChains, RunInvariant, PTL DEF ParserSpec
<1>3. ParseInv => ParserInv BY DEF ParseInv
<1>4. QED BY <1>1, <1>2, <1>3, RunInvariant, PTL
=============================================================================
