-------------------------- MODULE MCConfigureBoard --------------------------
(* Small instances of ConfigureBoard for TLC. *)
EXTENDS ConfigureBoard

RequestsOf(lengths, segments, waveforms, roundRobins) ==
  [averager : BOOLEAN, recordLength : lengths, nbrSegments : segments,
   nbrWaveforms : waveforms, nbrRoundRobins : roundRobins]

(* With a recommended size of 24 and a maximum of 48: records that fit the *)
(* recommended size, one (30) that fits no buffer and one not aligned;     *)
(* round robins that go ten, five, two or one to a buffer, or take up to    *)
(* twelve buffers, or are too long to be assembled.                        *)
SmallRequests == RequestsOf({2, 5, 6, 12, 30}, {1, 3}, {1, 4}, {1, 10})
(* Records between the recommended and the maximum size too. *)
LongRecordRequests == RequestsOf({6, 16}, {1}, {2, 3, 4}, {1, 2})
(* The limits of the code in units of 64 samples: 2 GB and more per round  *)
(* robin.                                                                  *)
HugeRequests == RequestsOf({16}, {1024}, {1024, 2048}, {1})
=============================================================================
