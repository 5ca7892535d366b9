---------------------------- MODULE MCEventStream ----------------------------
(* Instances of EventStream for TLC: values the configurations give to constants. *)
EXTENDS EventStream

\* The second event of a session takes two bytes, the third does not fit a ring.
MixedSizes == [n \in Seqs |-> IF n = 2 THEN 2 ELSE IF n = 3 THEN 4 ELSE 1]

AllSmall == [n \in Seqs |-> 1]

=============================================================================
