--------------------------- MODULE MCAcquisition ---------------------------
(* Small instances of Acquisition for TLC. *)
EXTENDS Acquisition, TLC

Complete(n, records) ==
  [nbrBuffers |-> n, partialBuffer |-> FALSE, buffersPerRoundRobin |-> 0,
   bufferLen |-> records, recordLength |-> 1]
Partial(rounds, perRound) ==
  [nbrBuffers |-> rounds * perRound, partialBuffer |-> TRUE,
   buffersPerRoundRobin |-> perRound, bufferLen |-> 1, recordLength |-> 1]

(* More buffers than the pool has, and one that is larger. *)
CompleteConfigs == {Complete(5, 1), Complete(1, 2)}
(* Round robins of two buffers, so that the pool wraps around. *)
PartialConfigs == {Partial(2, 2)}
BothConfigs == CompleteConfigs \cup PartialConfigs
(* One buffer more than a pool of two. *)
RobustConfigs == {Complete(3, 1), Complete(1, 1)}

BufferSymmetry == Permutations(Buffers)
=============================================================================
