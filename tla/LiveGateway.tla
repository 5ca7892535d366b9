----------------------------- MODULE LiveGateway -----------------------------
(***************************************************************************)
(* The Hermes TUI gateway as the bridge depends on it: one shared live     *)
(* session in which the bridge and other attached clients (Desktop, TUI)   *)
(* submit prompts.  The gateway is not part of the repository; every rule  *)
(* below is one that live_service.py states or relies on:                  *)
(*   - turns are serial, a submit is claimed ("streaming") or queued;      *)
(*   - session.activate shows the prompt of the turn in flight;            *)
(*   - the in-flight snapshot is cleared BEFORE message.complete is        *)
(*     emitted, but a failed turn keeps it, marked as an error;            *)
(*   - session.history holds one durable, ordered row per user prompt;     *)
(*   - a new gateway process has a new replay epoch, new sequence numbers  *)
(*     and no runtime session until the stored session is resumed.         *)
(***************************************************************************)
EXTENDS Integers, Sequences

CONSTANTS
  Requests,        \* request_ids submitted through the bridge
  Foreign,         \* prompts submitted by other attached clients
  NoTurn,          \* "no turn"
  Text,            \* the prompt text of every turn
  Outcomes,        \* how turns end
  MaxGatewayRuns   \* bound: gateway processes, one replay epoch each

Turns == Requests \cup Foreign

ASSUME TurnsAssumption ==
  /\ Requests \cap Foreign = {}
  /\ NoTurn \notin Turns
ASSUME GatewayBoundAssumption == MaxGatewayRuns \in Nat \ {0}

VARIABLES
  gwRun,    \* the replay epoch: number of this gateway process
  live,     \* the runtime session the bridge addresses exists in it
  phase,    \* life of the active turn
  active,   \* the turn whose snapshot or completion is outstanding
  queue,    \* accepted prompts waiting for the busy gate
  log,      \* completions emitted in this process; index = sequence number
  hist      \* durable user rows; index = row_id

gatewayVars == <<gwRun, live, phase, active, queue, log, hist>>

Kinds == {"complete", "cancelled", "error"}

ASSUME OutcomesAssumption == Outcomes \subseteq Kinds

Phases == {"idle", "running", "ending", "failing", "failed"}

GatewayTypeOK ==
  /\ gwRun \in Nat
  /\ live \in BOOLEAN
  /\ phase \in Phases
  /\ active \in Turns \cup {NoTurn}
  /\ queue \in Seq(Turns)
  /\ log \in Seq([turn : Turns, kind : Kinds])
  /\ hist \in Seq(Turns)

GatewayInit ==
  /\ gwRun = 1
  /\ live = TRUE
  /\ phase = "idle"
  /\ active = NoTurn
  /\ queue = <<>>
  /\ log = <<>>
  /\ hist = <<>>

-----------------------------------------------------------------------------
(* What a reply shows.                                                     *)

Busy == phase \in {"running", "ending", "failing"}

Inflight == IF phase \in {"running", "failing", "failed"} THEN active ELSE NoTurn

(***************************************************************************)
(* The replies session.activate may give now.  `upto' counts the           *)
(* completions sent on the socket ahead of the reply.  No evidence at all  *)
(* (time-out, RPC error, lost connection) is always possible.              *)
(***************************************************************************)
NoSnapshot ==
  [ok |-> FALSE, running |-> FALSE, inflight |-> NoTurn, failed |-> FALSE, upto |-> 0]

Evidence ==
  {[ok |-> TRUE, running |-> b, inflight |-> Inflight,
    failed |-> phase \in {"failing", "failed"}, upto |-> Len(log)] :
      b \in IF phase = "ending" THEN BOOLEAN ELSE {Busy}}

\* Mutant of MatchingRows: the boundary row itself is counted.
MatchingRowsFromBoundary(r, boundary) ==
  {i \in 1 .. Len(hist) : i >= boundary /\ Text[hist[i]] = Text[r]}

\* The durable user rows after `boundary' whose text is that of request r.
MatchingRows(r, boundary) ==
  {i \in 1 .. Len(hist) : i > boundary /\ Text[hist[i]] = Text[r]}

-----------------------------------------------------------------------------
(* prompt.submit: claimed by an idle gateway, queued by a busy one.        *)

ClaimsNow == ~Busy /\ queue = <<>>

Begin(t) ==
  /\ phase' = "running"
  /\ active' = t
  /\ hist' = Append(hist, t)

Admit(t) ==
  /\ live
  /\ IF ClaimsNow THEN Begin(t) /\ UNCHANGED queue
                  ELSE queue' = Append(queue, t) /\ UNCHANGED <<phase, active, hist>>
  /\ UNCHANGED <<gwRun, live, log>>

\* Another attached client submits; each foreign prompt is submitted once.
ForeignSubmit(t) ==
  /\ \A i \in 1 .. Len(hist) : hist[i] # t
  /\ \A i \in 1 .. Len(queue) : queue[i] # t
  /\ Admit(t)

StartQueued ==
  /\ ~Busy
  /\ queue # <<>>
  /\ Begin(Head(queue))
  /\ queue' = Tail(queue)
  /\ UNCHANGED <<gwRun, live, log>>

ClearInflight ==
  /\ phase = "running"
  /\ phase' = "ending"
  /\ UNCHANGED <<gwRun, live, active, queue, log, hist>>

EmitCompletion(kind) ==
  /\ phase = "ending"
  /\ log' = Append(log, [turn |-> active, kind |-> kind])
  /\ phase' = "idle"
  /\ active' = NoTurn
  /\ UNCHANGED <<gwRun, live, queue, hist>>

FailTurn ==
  /\ "error" \in Outcomes
  /\ phase = "running"
  /\ phase' = "failing"
  /\ UNCHANGED <<gwRun, live, active, queue, log, hist>>

EmitFailure ==
  /\ phase = "failing"
  /\ log' = Append(log, [turn |-> active, kind |-> "error"])
  /\ phase' = "failed"
  /\ UNCHANGED <<gwRun, live, active, queue, hist>>

ForgetFailure ==
  /\ phase = "failed"
  /\ phase' = "idle"
  /\ active' = NoTurn
  /\ UNCHANGED <<gwRun, live, queue, log, hist>>

GatewayStep ==
  \/ \E t \in Foreign : ForeignSubmit(t)
  \/ StartQueued
  \/ ClearInflight
  \/ \E kind \in Outcomes \ {"error"} : EmitCompletion(kind)
  \/ FailTurn
  \/ EmitFailure
  \/ ForgetFailure

\* Process death: only the durable rows survive.
GatewayDies ==
  /\ gwRun < MaxGatewayRuns
  /\ gwRun' = gwRun + 1
  /\ live' = FALSE
  /\ phase' = "idle"
  /\ active' = NoTurn
  /\ queue' = <<>>
  /\ log' = <<>>
  /\ UNCHANGED hist

\* session.resume: the stored session has a runtime session again.
Resume ==
  /\ live' = TRUE
  /\ UNCHANGED <<gwRun, phase, active, queue, log, hist>>
=============================================================================
