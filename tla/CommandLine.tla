----------------------------- MODULE CommandLine -----------------------------
(***************************************************************************)
(* What a command line means to the option parser of the C example         *)
(* (optionparser.h): descriptors, arguments, argument checks, and the      *)
(* options and words a command line stands for, read once from left to     *)
(* right with nothing moved.  OptionParser.tla does the same with the two  *)
(* passes and the in-place permutation of the code.                        *)
(*                                                                         *)
(* An argument is a record: a word (a lone "-" included), the terminator   *)
(* "--", a long option with an attached value or none, or a group of short *)
(* options.  A value is a member of Numbers (text that starts with a       *)
(* number stod can represent), or one of the classes below.                *)
(***************************************************************************)
EXTENDS Integers, Sequences, FiniteSetsExt

CONSTANTS Usage,    \* the descriptors, a sequence of [index, short, long, check]
          Numbers   \* values stod accepts, some of them also characters of a group

Null == "null"            \* no argument
Unset == [index |-> -1, arg |-> Null]   \* an option with desc == NULL

Checks == {"None", "Optional", "NonEmpty", "Required", "Numeric"}

\* A program that parses options has a descriptor.
ASSUME UsageAssumption ==
  /\ Usage \in Seq([index : Nat, short : SUBSET STRING, long : STRING, check : Checks])
  /\ Usage # <<>>
  /\ Null \notin Numbers

\* What argv may hold: a short group has a character, or it would be the word "-".
Arguments ==
  [kind : {"word"}, value : STRING] \cup [kind : {"terminator"}]
  \cup [kind : {"long"}, name : STRING, value : STRING]
  \cup [kind : {"short"}, chars : Seq(STRING) \ {<<>>}]

Indexes == {Usage[i].index : i \in DOMAIN Usage}

\* The check functions of struct Arg.  "throws": std::string of a null pointer,
\* or a number out of range, raises an exception that nothing catches.
Check(d, value, attached) ==
  LET ok(good) == IF good THEN "OK" ELSE "ILLEGAL"
  IN CASE d.check = "None"     -> "NONE"
       [] d.check = "Optional" -> IF attached THEN "OK" ELSE "IGNORE"
       [] d.check = "NonEmpty" -> ok(value \notin {Null, "empty"})
       [] d.check = "Required" -> ok(value # Null)
       [] d.check = "Numeric"  -> IF value \in {Null, "huge"} THEN "throws"
                                  ELSE ok(value \in Numbers \cup {"negative"})

\* The first descriptor of a set of positions in Usage, none if there is none.
FirstOf(positions) == IF positions = {} THEN {} ELSE {Usage[Min(positions)]}

\* Unknown options go to the first descriptor with neither name, if there is one.
Dummy == FirstOf({i \in DOMAIN Usage : Usage[i].short = {} /\ Usage[i].long = ""})

OrDummy(found) == IF found = {} THEN Dummy ELSE found

LongDescriptor(name) == OrDummy(FirstOf({i \in DOMAIN Usage : Usage[i].long = name}))

ShortDescriptor(char) == OrDummy(FirstOf({i \in DOMAIN Usage : char \in Usage[i].short}))

\* The rest of a group of short options, taken as the value of the option before it.
AttachedValue(chars) == IF Head(chars) \in Numbers THEN Head(chars) ELSE "text"

\* An argument taken as the value of the option before it: "-5" is a number too.
DetachedValue(argument) ==
  CASE argument.kind = "word"  -> argument.value
    [] argument.kind = "short" -> IF Head(argument.chars) \in Numbers THEN "negative" ELSE "text"
    [] OTHER                   -> "text"

\* How a parsed option is stored: an argument that was not accepted is dropped.
OptionOf(d, verdict, value) ==
  [index |-> d.index, arg |-> IF verdict = "OK" THEN value ELSE Null]

(***************************************************************************)
(* The options of one argument: what was found, whether the next argument  *)
(* was used up as a value, and the verdict of the last check.              *)
(***************************************************************************)
OneOption(found, value, attached) ==
  IF found = {} THEN [options |-> <<>>, took |-> 0, verdict |-> "NONE"]
  ELSE LET d == CHOOSE d \in found : TRUE
           verdict == Check(d, value, attached)
       IN [options |-> IF verdict \in {"ILLEGAL", "throws"} THEN <<>>
                       ELSE <<OptionOf(d, verdict, value)>>,
           took    |-> IF verdict = "OK" /\ ~attached THEN 1 ELSE 0,
           verdict |-> verdict]

\* The option at a place of an argument: a character of a group takes the rest of it.
Width(argument) == IF argument.kind = "long" THEN 1 ELSE Len(argument.chars)
OptionIn(argument, j, following) ==
  IF argument.kind = "long"
  THEN LET attached == argument.value # Null
       IN OneOption(LongDescriptor(argument.name),
                    IF attached THEN argument.value ELSE following, attached)
  ELSE LET n == Len(argument.chars)
       IN OneOption(ShortDescriptor(argument.chars[j]),
                    IF j < n THEN AttachedValue(SubSeq(argument.chars, j + 1, n)) ELSE following,
                    j < n)

\* What an argument gives from each of its places on; "later" does, behind place j.
ReadOption(argument, following, j, later) ==
  LET one == OptionIn(argument, j, following)
  IN IF j = Width(argument) \/ one.verdict \in {"OK", "ILLEGAL", "throws"} THEN one
     ELSE [later[j + 1] EXCEPT !.options = one.options \o @]

ArgumentOptions(argument, following) ==
  LET from[j \in 1..Width(argument)] == ReadOption(argument, following, j, from) IN from

\* The same for a command line from each argument on: the options, the positions of
\* the words, and how it ends.
FollowingAt(argv, i) == IF i < Len(argv) THEN DetachedValue(argv[i + 1]) ELSE Null
WordsFrom(argv, i) ==
  [options |-> <<>>, words |-> [k \in 1..(Len(argv) + 1 - i) |-> i + k - 1], verdict |-> "ok"]

ReadArgument(gnu, argv, i, later) ==
  IF i = Len(argv) + 1 THEN WordsFrom(argv, i)
  ELSE IF argv[i].kind = "terminator" THEN WordsFrom(argv, i + 1)
  ELSE IF argv[i].kind = "word"
  THEN IF gnu THEN [later[i + 1] EXCEPT !.words = <<i>> \o @] ELSE WordsFrom(argv, i)
  ELSE LET here == ArgumentOptions(argv[i], FollowingAt(argv, i))[1]
       IN IF here.verdict \in {"ILLEGAL", "throws"}
          THEN [options |-> here.options, words |-> <<>>, verdict |-> here.verdict]
          ELSE [later[i + 1 + here.took] EXCEPT !.options = here.options \o @]

Meanings(gnu, argv) ==
  LET from[i \in 1..(Len(argv) + 1)] == ReadArgument(gnu, argv, i, from) IN from

Meaning(gnu, argv) == Meanings(gnu, argv)[1]
==============================================================================
