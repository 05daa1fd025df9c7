------------------------ MODULE MCSocketTransmission ------------------------
(* A small instance of SocketTransmission for TLC. *)
EXTENDS SocketTransmission

(* One result more than the pool has buffers, in buffers of two records;   *)
(* and one result in a smaller buffer.                                     *)
SocketGeometry(nbr, len) ==
  [nbrBuffers |-> nbr, partialBuffer |-> FALSE, buffersPerRoundRobin |-> 0,
   bufferLen |-> len, recordLength |-> 1]
SocketConfigs == {SocketGeometry(3, 2), SocketGeometry(1, 1)}
==============================================================================
