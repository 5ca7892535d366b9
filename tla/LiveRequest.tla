----------------------------- MODULE LiveRequest -----------------------------
(***************************************************************************)
(* What live_prompt, live_wait and live_reconcile promise about a          *)
(* request_id, without cursors, connections, turns or threads: LiveTurn    *)
(* implements this specification.                                          *)
(*                                                                         *)
(* A request is "open" while its outcome may still be found, in "recovery" *)
(* when only the durable history can tell, "over" when it is settled.      *)
(***************************************************************************)
EXTENDS Naturals

CONSTANT Requests

VARIABLES
  stage,        \* what the record of the request says
  submitting,   \* requests whose submitting call has not returned
  recovering,   \* requests a reconcile call is at work on
  sent          \* how often the gateway accepted the prompt

vars == <<stage, submitting, recovering, sent>>

Init ==
  /\ stage = [r \in Requests |-> "none"]
  /\ submitting = {}
  /\ recovering = {}
  /\ sent = [r \in Requests |-> 0]

Becomes(r, next) == stage' = [stage EXCEPT ![r] = next]

\* One caller gets to submit, ever.
Reserve(r) ==
  /\ stage[r] = "none"
  /\ Becomes(r, "open")
  /\ submitting' = submitting \cup {r}
  /\ UNCHANGED <<recovering, sent>>

Submit(r) ==
  /\ r \in submitting
  /\ sent[r] = 0
  /\ sent' = [sent EXCEPT ![r] = 1]
  /\ UNCHANGED <<stage, submitting, recovering>>

\* The submitting call records what it knows, whatever others have recorded
\* meanwhile: never a failure of a prompt that was accepted, nor an
\* acknowledgement of one that was not.
Report(r) ==
  /\ r \in submitting
  /\ \E next \in {"recovery", IF sent[r] = 1 THEN "open" ELSE "over"} : Becomes(r, next)
  /\ submitting' = submitting \ {r}
  /\ UNCHANGED <<recovering, sent>>

HandOver(r) ==
  /\ stage[r] = "open"
  /\ Becomes(r, "recovery")
  /\ UNCHANGED <<submitting, recovering, sent>>

\* A completion is attributed only to a prompt that was acknowledged.
Attribute(r) ==
  /\ sent[r] = 1
  /\ r \notin submitting
  /\ Becomes(r, "over")
  /\ UNCHANGED <<submitting, recovering, sent>>

Recover(r) ==
  /\ stage[r] = "recovery"
  /\ recovering' = recovering \cup {r}
  /\ UNCHANGED <<stage, submitting, sent>>

\* Settled by the durable history, or given up, while another call may be at it.
Reconcile(r) ==
  /\ r \in recovering
  /\ stage' \in {stage, [stage EXCEPT ![r] = "over"]}
  /\ recovering' \in {recovering, recovering \ {r}}
  /\ UNCHANGED <<submitting, sent>>

\* The bridge is restarted: its calls are gone.
Restart ==
  /\ submitting' = {}
  /\ recovering' = {}
  /\ UNCHANGED <<stage, sent>>

Next ==
  \/ \E r \in Requests :
       \/ Reserve(r)
       \/ Submit(r)
       \/ Report(r)
       \/ HandOver(r)
       \/ Attribute(r)
       \/ Recover(r)
       \/ Reconcile(r)
  \/ Restart

Spec == Init /\ [][Next]_vars
=============================================================================
