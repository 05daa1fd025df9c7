---------------------------- MODULE MCOptionParser ----------------------------
(***************************************************************************)
(* Descriptors with every kind of check, an alias, a repeated index and    *)
(* the dummy of the C example; every command line of up to MaxArgs of the  *)
(* arguments below.                                                        *)
(***************************************************************************)
EXTENDS OptionParser

CONSTANT MaxArgs

Descriptor(index, short, long, check) ==
  [index |-> index, short |-> short, long |-> long, check |-> check]

AllChecks ==
  << Descriptor(0, {}, "", "None"),
     Descriptor(1, {"h"}, "help", "None"),
     Descriptor(2, {"s", "S"}, "samples", "Numeric"),
     Descriptor(3, {"o"}, "", "Optional"),
     Descriptor(4, {}, "file", "NonEmpty"),
     Descriptor(4, {"f"}, "output", "Required") >>

SomeNumbers == {"5", "1e3"}

Plain(value) == [kind |-> "word", value |-> value]
Long(name, value) == [kind |-> "long", name |-> name, value |-> value]
Short(chars) == [kind |-> "short", chars |-> chars]

SomeArguments ==
  { Plain("5"), Plain("text"), Plain("empty"), Plain("huge"), [kind |-> "terminator"],
    Long("help", Null), Long("samples", Null), Long("samples", "1e3"), Long("file", Null),
    Long("output", Null), Long("other", "text"),
    Short(<<"h", "x", "o">>), Short(<<"s">>), Short(<<"o", "5">>), Short(<<"5">>), Short(<<"h", "f">>) }

NoLimitOrTwo == {-1, 2}

AllCommandLines == UNION {[1..n -> SomeArguments] : n \in 0..MaxArgs}
==============================================================================
