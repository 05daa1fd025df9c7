---------------------------- MODULE BufferStream ----------------------------
(***************************************************************************)
(* What an acquisition promises to one consumer of its data (the           *)
(* application polling wait_for_acquisition, or the listener on one        *)
(* channel's socket): the results of an acquisition arrive one by one, in  *)
(* capture order, none lost, repeated or mixed up, never more than         *)
(* numberAcquisitions of them, and only while the acquisition is on.       *)
(***************************************************************************)
EXTENDS Integers

VARIABLES
  running,   \* an acquisition is on
  total,     \* its numberAcquisitions
  last       \* number of the last result delivered, -1 before the first

streamVars == <<running, total, last>>

Init == ~running /\ total = 0 /\ last = -1

Start ==
  /\ ~running
  /\ running' = TRUE
  /\ total' \in Nat
  /\ last' = -1

Deliver ==
  /\ running
  /\ last + 1 < total
  /\ last' = last + 1
  /\ UNCHANGED <<running, total>>

Stop ==
  /\ running
  /\ running' = FALSE
  /\ total' = 0
  /\ last' = -1

Next == Start \/ Deliver \/ Stop

Spec == Init /\ [][Next]_streamVars
=============================================================================
