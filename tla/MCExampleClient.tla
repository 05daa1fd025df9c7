--------------------------- MODULE MCExampleClient ---------------------------
(* A small instance of ExampleClient for TLC. *)
EXTENDS ExampleClient

Complete(n) ==
  [nbrBuffers |-> n, partialBuffer |-> FALSE, buffersPerRoundRobin |-> 0,
   bufferLen |-> 1, recordLength |-> 1]

(* As many buffers as the pool, and one more, so that a buffer goes round. *)
ExampleConfigs == {Complete(2), Complete(3)}

TypedNumbers == {"0", "1"}
AtoiOf ==
  [n \in TypedNumbers \cup {"negative"} |-> IF n = "0" THEN 0 ELSE IF n = "1" THEN 1 ELSE 3]

Long(name, value) == [kind |-> "long", name |-> name, value |-> value]
Plain(value) == [kind |-> "word", value |-> value]
MinusOne == [kind |-> "short", chars |-> <<"1">>]

TypedLines ==
  { <<>>, <<Long("help", Null)>>, <<Long("mode", "text")>>,
    <<Long("samples", Null)>>, <<Long("samples", "text")>>, <<Long("samples", "1")>>,
    <<Long("roundrobins", "0")>>, <<Long("samplingRate", "0")>>,
    <<Plain("text"), Long("mode", Null)>>,
    <<Long("timeout", "0"), Long("timeout", "1")>>, <<Long("timeout", Null), Plain("1")>>,
    <<Long("timeout", Null), MinusOne>> }
==============================================================================
