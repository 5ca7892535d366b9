--------------------------- MODULE MCProfileRouting ---------------------------
(* Instances of ProfileRouting for TLC: values the configurations give to constants. *)
EXTENDS ProfileRouting, TLC

CONSTANTS lane, r1, s1

\* Requests of either kind are made for one lane ...
OneLane == [r \in Requests \cup Prompts |-> lane]

\* ... and run_start names a session, or leaves it to Hermes.
FirstNamed == [r \in Requests |-> IF r = r1 THEN s1 ELSE None]

Symmetric == Permutations(Callers) \cup Permutations(Runtimes)
=============================================================================
