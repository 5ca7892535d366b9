----------------------------- MODULE MCDurableRun -----------------------------
(* Instances of DurableRun for TLC: values the configurations give to constants. *)
EXTENDS DurableRun, TLC

CONSTANTS a, b, s1, lane

OneLane == [p \in Payloads |-> lane]

\* No payload names a session ...
NoSessions == [p \in Payloads |-> NoSession]

\* ... or one of them does.
OneSession == [p \in Payloads |-> IF p = a THEN s1 ELSE NoSession]

\* Payloads with different sessions are not alike; requests, keys and callers are.
Symmetric == Permutations(Requests) \cup Permutations(Keys) \cup Permutations(Callers)
=============================================================================
