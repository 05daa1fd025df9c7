-------------------------- MODULE MCProcessBuffer --------------------------
(* Small instances of ProcessBuffer for TLC. *)
EXTENDS ProcessBuffer

RequestsOf(modes, lengths, segments, waveforms, roundRobins) ==
  [averager : modes, recordLength : lengths, nbrSegments : segments,
   nbrWaveforms : waveforms, nbrRoundRobins : roundRobins]

(* Averaged round robins of two buffers; the work buffer is large enough   *)
(* because there is one waveform only.                                     *)
PartialAverageRequests == RequestsOf({TRUE}, {2}, {6}, {1}, {1, 2})
(* With a recommended size of 12 and a maximum of 24: one to four round     *)
(* robins in a buffer, or two buffers in a round robin; up to eight buffers *)
(* in an acquisition; ten round robins, of which six would fit but only     *)
(* five divide the ten; four records to a round robin, of which three would *)
(* fit but only two divide the four.                                        *)
DividedRequests ==
  RequestsOf({FALSE}, {1, 2}, {2}, {1, 3}, {1, 2, 4})
    \cup RequestsOf({TRUE}, {1}, {2}, {3}, {1, 2})
    \cup RequestsOf({TRUE}, {2}, {1}, {2}, {2})
    \cup RequestsOf({FALSE}, {1}, {1}, {1}, {10})
    \cup RequestsOf({FALSE}, {2}, {4}, {1}, {2})
(* Records that are too short, that fit no buffer, and round robins that    *)
(* are too long to be assembled.                                            *)
RefusedRequests ==
  RequestsOf(BOOLEAN, {0, 13}, {2}, {1}, {1}) \cup RequestsOf(BOOLEAN, {2}, {6}, {3}, {1})
MixedRequests == DividedRequests \cup PartialAverageRequests \cup RefusedRequests
=============================================================================
