----------------------------- MODULE OptionParser -----------------------------
(***************************************************************************)
(* The option parser of the C example (optionparser.h) as its main() uses  *)
(* it: Stats reads the whole command line to size two arrays, then Parser  *)
(* reads it again and stores every option in a buffer, chained with the    *)
(* others of its index into a circular list.  Both passes are the same     *)
(* "workhorse", which moves each option, with its value, in front of the   *)
(* words it has passed: the second pass reads what the first has moved.    *)
(* One action handles one argument, or one character of a group of short   *)
(* options.  Abbreviated and single-minus long names are off in this       *)
(* program and left out; so is printUsage, which is layout.                *)
(***************************************************************************)
EXTENDS CommandLine, SequencesExt

CONSTANTS CommandLines,   \* the argument vectors tried
          GnuModes,       \* a subset of BOOLEAN: may words come before options?
          Limits          \* values of bufmax, -1 for "large enough"

ASSUME ParseAssumption ==
  CommandLines \subseteq Seq(Arguments) /\ GnuModes \subseteq BOOLEAN /\ Limits \subseteq Int

VARIABLES
  gnu, bufmax, argv,      \* the parameters of the call
  pass,                   \* "count", "store", or how the parse ended
  order,                  \* args: the positions of argv as they now stand
  at, nonops,             \* index into args, words passed on the way
  rest,                   \* what is left of a group of short options
  buffer_max, options_max,\* Stats
  buffer, options,        \* Parser: options in order, first option of each index
  next_, prev_,           \* the links of the list nodes
  nonOptions              \* nonop_args, nonop_count

inputVars  == <<gnu, bufmax, argv>>
cursorVars == <<order, at, nonops, rest>>
statsVars  == <<buffer_max, options_max>>
storeVars  == <<buffer, options, next_, prev_>>
vars == <<inputVars, pass, cursorVars, statsVars, storeVars, nonOptions>>

\* A list node is the head kept in options[] or a slot of the buffer; a link says
\* which node it leads to and whether it is tagged as the wrap-around.
HeadNode(index) == <<"head", index>>
SlotNode(k) == <<"slot", k>>
Link(node, tagged) == [to |-> node, tagged |-> tagged]

Init ==
  /\ gnu \in GnuModes /\ bufmax \in Limits /\ argv \in CommandLines
  /\ pass = "count"
  /\ order = [i \in DOMAIN argv |-> i]
  /\ at = 1 /\ nonops = 0 /\ rest = <<>>
  /\ buffer_max = 1
  /\ options_max = Max(Indexes) + 2
  /\ buffer = <<>> /\ options = [i \in Indexes |-> Unset]
  /\ next_ = [n \in {HeadNode(i) : i \in Indexes} |-> Link(n, TRUE)]
  /\ prev_ = next_
  /\ nonOptions = <<>>

Reading == pass \in {"count", "store"}
Argument == argv[order[at]]
Following == IF at < Len(order) THEN DetachedValue(argv[order[at + 1]]) ELSE Null

BugSwap(args, i, count) ==
  [j \in DOMAIN args |-> IF j = i - count THEN args[i]
                         ELSE IF j = i THEN args[i - count] ELSE args[j]]
\* shift: the argument at position i moves in front of the words before it.
Shift(args, i, count) ==
  [j \in DOMAIN args |-> IF j = i - count THEN args[i]
                         ELSE IF j \in (i - count + 1)..i THEN args[j - 1]
                         ELSE args[j]]

(***************************************************************************)
(* Lists.                                                                  *)
(***************************************************************************)
first(node) ==
  LET back[n \in DOMAIN prev_] == IF prev_[n].tagged THEN n ELSE back[prev_[n].to]
  IN back[node]

last(node) == prev_[first(node)].to

BugOldLast(node, new) ==
  LET l == last(node)
      f == first(node)
  IN /\ next_' = [n \in DOMAIN next_ \cup {new} |->
                    IF n = new THEN Link(f, TRUE) ELSE IF n = l THEN Link(new, FALSE) ELSE next_[n]]
     /\ prev_' = [n \in DOMAIN prev_ \cup {new} |-> IF n = new THEN Link(l, FALSE) ELSE prev_[n]]
\* append: chain a new node behind the last one of the list of "node".
AppendNode(node, new) ==
  LET l == last(node)
      f == first(node)
  IN /\ next_' = [n \in DOMAIN next_ \cup {new} |->
                    IF n = new THEN Link(f, TRUE) ELSE IF n = l THEN Link(new, FALSE) ELSE next_[n]]
     /\ prev_' = [n \in DOMAIN prev_ \cup {new} |->
                    IF n = new THEN Link(l, FALSE) ELSE IF n = f THEN Link(new, TRUE) ELSE prev_[n]]

BugGroupIsOne == /\ buffer_max' = IF Len(rest) = 1 THEN buffer_max ELSE buffer_max + 1
                 /\ UNCHANGED <<options_max, storeVars>>

(***************************************************************************)
(* The two actions workhorse performs for an option.                       *)
(***************************************************************************)
CountOption == /\ buffer_max' = buffer_max + 1
               /\ UNCHANGED <<options_max, storeVars>>

StoreOption(option) ==
  /\ IF bufmax >= 0 /\ Len(buffer) >= bufmax
     THEN UNCHANGED storeVars
     ELSE LET slot == SlotNode(Len(buffer) + 1)
          IN /\ buffer' = Append(buffer, option)
             /\ IF options[option.index] # Unset
                THEN /\ AppendNode(HeadNode(option.index), slot)
                     /\ UNCHANGED options
                ELSE /\ options' = [options EXCEPT ![option.index] = option]
                     /\ next_' = [n \in DOMAIN next_ \cup {slot} |->
                                    IF n = slot THEN Link(slot, TRUE) ELSE next_[n]]
                     /\ prev_' = [n \in DOMAIN prev_ \cup {slot} |->
                                    IF n = slot THEN Link(slot, TRUE) ELSE prev_[n]]
  /\ UNCHANGED statsVars

Perform(option) == IF pass = "count" THEN CountOption ELSE StoreOption(option)

\* Stats ignores how workhorse ended; Parser starts again on the same array.
StartStore == pass' = "store" /\ at' = 1 /\ nonops' = 0 /\ rest' = <<>>

BugValueStays(group, took) ==
  IF group # <<>>
  THEN rest' = group /\ UNCHANGED <<order, at>>
  ELSE rest' = <<>> /\ at' = at + 1 + took /\ order' = Shift(order, at, nonops)

(***************************************************************************)
(* The body of workhorse for one option: look at the value, perform, and   *)
(* move on in the group or behind the argument and its value.              *)
(***************************************************************************)
Advance(group, took) ==
  IF group # <<>>
  THEN rest' = group /\ UNCHANGED <<order, at>>
  ELSE /\ rest' = <<>>
       /\ at' = at + 1 + took
       /\ order' = IF took = 0 THEN Shift(order, at, nonops)
                   ELSE Shift(Shift(order, at, nonops), at + 1, nonops)

Handle(found, value, attached, group) ==
  \/ /\ found = {}
     /\ Advance(group, 0)
     /\ UNCHANGED <<pass, nonops, statsVars, storeVars, nonOptions>>
  \/ \E d \in found : LET verdict == Check(d, value, attached) IN
       \/ /\ verdict = "throws"
          /\ pass' = "terminated"
          /\ UNCHANGED <<cursorVars, statsVars, storeVars, nonOptions>>
       \/ /\ verdict = "ILLEGAL"
          /\ IF pass = "count" THEN StartStore
             ELSE pass' = "error" /\ UNCHANGED <<at, nonops, rest>>
          /\ UNCHANGED <<order, statsVars, storeVars, nonOptions>>
       \/ /\ verdict \in {"NONE", "IGNORE", "OK"}
          /\ Perform(OptionOf(d, verdict, value))
          /\ IF verdict = "OK" THEN Advance(<<>>, IF attached THEN 0 ELSE 1) ELSE Advance(group, 0)
          /\ UNCHANGED <<pass, nonops, nonOptions>>

LongOption ==
  /\ Reading /\ at <= Len(order) /\ Argument.kind = "long"
  /\ LET attached == Argument.value # Null
     IN Handle(LongDescriptor(Argument.name),
               IF attached THEN Argument.value ELSE Following, attached, <<>>)
  /\ UNCHANGED inputVars

ShortOption ==
  /\ Reading /\ at <= Len(order) /\ Argument.kind = "short"
  /\ LET chars == IF rest # <<>> THEN rest ELSE Argument.chars
         attached == Len(chars) > 1
     IN Handle(ShortDescriptor(Head(chars)),
               IF attached THEN AttachedValue(Tail(chars)) ELSE Following, attached, Tail(chars))
  /\ UNCHANGED inputVars

BugWordTwice ==
  /\ Reading /\ at <= Len(order) /\ Argument.kind = "word" /\ gnu
  /\ nonops' = nonops + 2
  /\ at' = at + 1
  /\ UNCHANGED <<inputVars, pass, order, rest, statsVars, storeVars, nonOptions>>
\* A word: stepped over in GNU mode.
Word ==
  /\ Reading /\ at <= Len(order) /\ Argument.kind = "word" /\ gnu
  /\ nonops' = nonops + 1
  /\ at' = at + 1
  /\ UNCHANGED <<inputVars, pass, order, rest, statsVars, storeVars, nonOptions>>

\* finished: what is left, and the words passed, are the non-option arguments.
Finished(args, position) ==
  IF pass = "count"
  THEN StartStore /\ UNCHANGED nonOptions
  ELSE LET left == SubSeq(args, position - nonops, Len(args))
       IN /\ pass' = "done"
          /\ nonOptions' = IF left # <<>> THEN left ELSE nonOptions
          /\ UNCHANGED <<at, nonops, rest>>

\* "--" is moved like an option and ends the list.
Terminator ==
  /\ Reading /\ at <= Len(order) /\ Argument.kind = "terminator"
  /\ order' = Shift(order, at, nonops)
  /\ Finished(order', at + 1)
  /\ UNCHANGED <<inputVars, statsVars, storeVars>>

\* The end of the array, or in POSIX mode the first word.
EndOfOptions ==
  /\ Reading
  /\ at <= Len(order) => Argument.kind = "word" /\ ~gnu
  /\ Finished(order, at)
  /\ UNCHANGED <<inputVars, order, statsVars, storeVars>>

Next == LongOption \/ ShortOption \/ Word \/ Terminator \/ EndOfOptions

ParserSpec == Init /\ [][Next]_vars

(***************************************************************************)
(* Properties.                                                             *)
(***************************************************************************)
\* args stays a permutation of the arguments, the cursor in or just behind it, and
\* the stored options belong to the descriptors.
ParserTypeOK ==
  /\ pass \in {"count", "store", "done", "error", "terminated"}
  /\ Len(order) = Len(argv) /\ ToSet(order) = DOMAIN argv
  /\ at \in 1..(Len(argv) + 1) /\ nonops \in 0..(at - 1)
  /\ rest = <<>> \/ (at <= Len(order) /\ Argument.kind = "short" /\ Len(rest) < Len(Argument.chars))
  /\ buffer_max \in Nat \ {0} /\ options_max \in Nat \ {0, 1}
  /\ \A k \in DOMAIN buffer : buffer[k].index \in Indexes
  /\ options \in [Indexes -> {Unset} \cup ToSet(buffer)]
  /\ ToSet(nonOptions) \subseteq DOMAIN argv

\* The arrays main() allocates after Stats hold all the second pass stores, each with
\* its sentinel, although the second pass reads another order of the arguments.
ArraysSuffice ==
  pass \in {"store", "done", "error"} =>
    /\ Len(buffer) < buffer_max
    /\ \A k \in DOMAIN buffer : buffer[k].index + 1 < options_max
    /\ (pass # "store" /\ bufmax < 0) => buffer_max = Len(buffer) + 1

\* Moving options in front of words keeps the order of the options among themselves,
\* of the words passed, and of what has not been read: a value stays behind its option.
ArgumentsKeepOrder ==
  LET inOrder(places) == \A i, j \in places : i < j => order[i] < order[j]
  IN Reading =>
       /\ inOrder((at - nonops)..(at - 1))
       /\ inOrder({i \in DOMAIN order : argv[order[i]].kind = "long"})
       /\ pass = "count" =>
            /\ inOrder(1..(at - 1 - nonops))
            /\ \A i \in 1..(at - 1) : \A j \in at..Len(order) : order[i] < order[j]

\* The parse gives what the command line means read once from left to right: the same
\* options with the same values, the same words, the same verdict; a buffer with a
\* limit holds the first of them.
ParsedAsMeant ==
  LET meaning == Meaning(gnu, argv)
      kept == IF bufmax >= 0 /\ bufmax < Len(meaning.options)
              THEN SubSeq(meaning.options, 1, bufmax) ELSE meaning.options
  IN /\ pass = "done" => meaning.verdict = "ok" /\ buffer = kept /\ nonOptions = meaning.words
     /\ pass = "error" => meaning.verdict = "ILLEGAL"
     /\ pass = "terminated" => meaning.verdict = "throws"
     /\ pass = "store" => buffer = SubSeq(kept, 1, Len(buffer))

\* The options of an index are one chain in the order of the command line, linked both
\* ways and round the end: the first of them in options[index], the others in the buffer.
\* And "it doesn't matter which element you call append() on" (optionparser.h:783):
\* first() and last() find the ends of the chain from every member of it.
ListsRight ==
  \A i \in Indexes :
    LET places == {k \in DOMAIN buffer : buffer[k].index = i}
        node(k) == IF k = Min(places) THEN HeadNode(i) ELSE SlotNode(k)
        linked(m, n, round) == next_[m] = Link(n, round) /\ prev_[n] = Link(m, round)
    IN IF places = {} THEN options[i] = Unset
       ELSE /\ options[i] = buffer[Min(places)]
            /\ linked(node(Max(places)), HeadNode(i), TRUE)
            /\ \A j, k \in places :
                 j < k /\ (\A m \in places : m <= j \/ k <= m) =>
                   linked(node(j), node(k), FALSE)
            /\ \A k \in places :
                 first(node(k)) = HeadNode(i) /\ last(node(k)) = node(Max(places))
==============================================================================
