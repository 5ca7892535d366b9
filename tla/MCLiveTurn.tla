------------------------------ MODULE MCLiveTurn ------------------------------
(* Instances of LiveTurn for TLC: values the configurations give constants. *)
EXTENDS LiveTurn, TLC

CONSTANTS r1, f1

\* Every prompt has a text of its own.
DistinctText == [t \in Turns |-> t]

\* Request r1 and the foreign prompt f1 are byte-identical.
SharedText == [t \in Turns |-> IF t = f1 THEN r1 ELSE t]
=============================================================================
