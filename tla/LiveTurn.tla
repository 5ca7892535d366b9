------------------------------- MODULE LiveTurn -------------------------------
(***************************************************************************)
(* live_prompt, live_wait and live_reconcile on one shared live session    *)
(* (live_service.py, with the live_requests table of registry.py).         *)
(*                                                                         *)
(* The MCP server runs tool calls on worker threads, so calls interleave   *)
(* with each other, with the socket reader and with the gateway.  A call   *)
(* is a record with a `pc'; each action below is the code between two      *)
(* points where another actor can intervene: a gateway RPC, a read of the  *)
(* client's event state, a registry transaction.                           *)
(***************************************************************************)
EXTENDS LiveLink

CONSTANTS
  Prompters, Waiters, Reconcilers,   \* worker threads, by the tool they run
  MaxCrashes,                        \* bound: restarts of the bridge process
  MaxPrompts,                        \* bound: live_prompt calls
  NoRequest                          \* "no request"

ASSUME CallersAssumption ==
  /\ NoRequest \notin Requests
  /\ MaxCrashes \in Nat
  /\ MaxPrompts \in Nat

VARIABLES
  row,        \* live_requests, by request_id
  prompt,     \* live_prompt calls
  waiter,     \* live_wait calls
  recon,      \* live_reconcile calls
  crashes,    \* restarts so far
  prompts,    \* live_prompt calls so far
  \* Observers: what the calls did, read by properties only.
  submits,    \* prompts the gateway accepted, by request_id
  answers     \* outcomes live_wait attributed to a request

callVars == <<prompt, waiter, recon>>
observers == <<submits, answers>>
vars == <<gatewayVars, linkVars, row, callVars, crashes, prompts, observers>>

Terminal == {"completed", "failed", "interrupted", "reconciled"}
Statuses == {"absent", "pending", "streaming", "queued", "unknown"} \cup Terminal

NoBoundary == -1     \* the pre-submit durable boundary is not known

(***************************************************************************)
(* An ownership proof: seq, epoch and gen are the stored columns; the rest *)
(* observes the moment the cursor was read: on which connection, in which  *)
(* bridge process, with the turn still active in the gateway and its end   *)
(* not yet reported, with no replay going on.                              *)
(***************************************************************************)
NoProof == [seq |-> 0, epoch |-> 0, gen |-> 0,
            conn |-> 0, process |-> 0, running |-> FALSE, settled |-> FALSE]

Ended(r) == \E i \in 1 .. Len(log) : log[i].turn = r

CursorProof(r) == [seq |-> watermark, epoch |-> epoch, gen |-> gen,
                   conn |-> conn, process |-> crashes,
                   running |-> active = r /\ ~Ended(r),
                   settled |-> link = "open"]

AbsentRow == [status |-> "absent", claimed |-> FALSE, boundary |-> NoBoundary, proof |-> NoProof]

IdlePrompt == [pc |-> "idle", req |-> NoRequest, boundary |-> NoBoundary,
               snapshot |-> NoSnapshot, ack |-> "none", claimed |-> FALSE, proof |-> NoProof]

NoEvent == [seq |-> 0, turn |-> NoTurn, kind |-> "none"]

IdleWaiter == [pc |-> "idle", req |-> NoRequest, proof |-> NoProof, epoch |-> 0, gen |-> 0,
               snapshot |-> NoSnapshot, cursor |-> 0, event |-> NoEvent, admitted |-> 0]

IdleRecon == [pc |-> "idle", req |-> NoRequest, boundary |-> NoBoundary]

-----------------------------------------------------------------------------
Snapshot == [ok : BOOLEAN, running : BOOLEAN, inflight : Turns \cup {NoTurn},
             failed : BOOLEAN, upto : Nat]

Proof == [seq : Nat, epoch : Nat, gen : Nat,
          conn : Nat, process : Nat, running : BOOLEAN, settled : BOOLEAN]

Boundary == Nat \cup {NoBoundary}

Callee == Requests \cup {NoRequest}

Row == [status : Statuses, claimed : BOOLEAN, boundary : Boundary, proof : Proof]

PromptPc == {"idle", "reserve", "submit", "sent", "prove", "cursor", "generation", "ack",
             "failed", "unknown"}

Prompt == [pc : PromptPc, req : Callee, boundary : Boundary, snapshot : Snapshot,
           ack : {"none", "streaming", "queued"}, claimed : BOOLEAN, proof : Proof]

WaiterPc == {"idle", "check", "reprove", "recursor", "persist", "health", "block", "admit",
             "ask", "expired", "decide", "deliver", "mark"}

Waiter == [pc : WaiterPc, req : Callee, proof : Proof, epoch : Nat, gen : Nat,
           snapshot : Snapshot, cursor : Nat, event : Events \cup {NoEvent}, admitted : Nat]

Recon == [pc : {"idle", "open", "history", "write"}, req : Callee, boundary : Boundary]

Answer == [req : Requests, turn : Turns,
           conn : BOOLEAN, process : BOOLEAN, running : BOOLEAN, settled : BOOLEAN]

TypeOK ==
  /\ GatewayTypeOK
  /\ LinkTypeOK
  /\ row \in [Requests -> Row]
  /\ prompt \in [Prompters -> Prompt]
  /\ waiter \in [Waiters -> Waiter]
  /\ recon \in [Reconcilers -> Recon]
  /\ crashes \in Nat
  /\ prompts \in Nat
  /\ submits \in [Requests -> Nat]
  /\ answers \in SUBSET Answer

Init ==
  /\ GatewayInit
  /\ LinkInit
  /\ row = [r \in Requests |-> AbsentRow]
  /\ prompt = [p \in Prompters |-> IdlePrompt]
  /\ waiter = [w \in Waiters |-> IdleWaiter]
  /\ recon = [c \in Reconcilers |-> IdleRecon]
  /\ crashes = 0
  /\ prompts = 0
  /\ submits = [r \in Requests |-> 0]
  /\ answers = {}

\* The turn in flight shows request r's prompt; it is running and r's.
Shows(snapshot, r) == snapshot.inflight # NoTurn /\ Text[snapshot.inflight] = Text[r]

Owns(snapshot, r) == snapshot.ok /\ snapshot.running /\ Shows(snapshot, r)

-----------------------------------------------------------------------------
(* live_prompt                                                             *)

PromptAt(p, pc) == prompt[p].pc = pc

PromptFrame == UNCHANGED <<linkVars, waiter, recon, crashes, answers>>

PromptLocal == PromptFrame /\ UNCHANGED <<gatewayVars, row, prompts, submits>>

\* _capture_boundary: the highest user row_id, unless session.history fails.
PromptCapture(p, r) ==
  /\ PromptAt(p, "idle")
  /\ prompts < MaxPrompts
  /\ prompts' = prompts + 1
  /\ \E b \in {NoBoundary} \cup (IF Reachable THEN {Len(hist)} ELSE {}) :
       prompt' = [prompt EXCEPT ![p] = [IdlePrompt EXCEPT !.pc = "reserve", !.req = r, !.boundary = b]]
  /\ PromptFrame /\ UNCHANGED <<gatewayVars, row, submits>>

\* Mutant of PromptReserve: an existing record is reserved again.
PromptReserveAgain(p) ==
  LET r == prompt[p].req IN
  /\ PromptAt(p, "reserve")
  /\ row' = [row EXCEPT ![r] = [AbsentRow EXCEPT !.status = "pending", !.boundary = prompt[p].boundary]]
  /\ prompt' = [prompt EXCEPT ![p].pc = "submit"]
  /\ PromptFrame /\ UNCHANGED <<gatewayVars, prompts, submits>>

\* reserve_live_request wins the INSERT.
PromptReserve(p) ==
  LET r == prompt[p].req IN
  /\ PromptAt(p, "reserve")
  /\ row[r].status = "absent"
  /\ row' = [row EXCEPT ![r] = [AbsentRow EXCEPT !.status = "pending", !.boundary = prompt[p].boundary]]
  /\ prompt' = [prompt EXCEPT ![p].pc = "submit"]
  /\ PromptFrame /\ UNCHANGED <<gatewayVars, prompts, submits>>

\* It loses: the winner's record is replayed, nothing is submitted.
PromptReplay(p) ==
  /\ PromptAt(p, "reserve")
  /\ row[prompt[p].req].status # "absent"
  /\ prompt' = [prompt EXCEPT ![p] = IdlePrompt]
  /\ PromptLocal

\* The gateway accepts the prompt; its acknowledgement is on its way, or lost.
PromptSubmit(p) ==
  LET r == prompt[p].req
      acknowledged == [NoSnapshot EXCEPT !.ok = TRUE, !.upto = Len(log)]
  IN
  /\ PromptAt(p, "submit")
  /\ Connected
  /\ Admit(r)
  /\ submits' = [submits EXCEPT ![r] = @ + 1]
  /\ \E s \in {acknowledged, NoSnapshot} :
       prompt' = [prompt EXCEPT ![p] = [@ EXCEPT !.pc = "sent", !.snapshot = s,
                                          !.ack = IF ClaimsNow THEN "streaming" ELSE "queued"]]
  /\ PromptFrame /\ UNCHANGED <<row, prompts>>

\* Mutant of PromptReply: a lost acknowledgement counts as a failed submit.
PromptReplyOrFailed(p) ==
  LET c == prompt[p] IN
  /\ PromptAt(p, "sent")
  /\ Arrived(c.snapshot)
  /\ prompt' = [prompt EXCEPT ![p] =
       [c EXCEPT !.pc = IF ~c.snapshot.ok THEN "failed"
                        ELSE IF c.ack = "streaming" THEN "prove" ELSE "ack",
                 !.snapshot = NoSnapshot]]
  /\ PromptLocal

\* Only a "streaming" acknowledgement is followed by an ownership proof.
PromptReply(p) ==
  LET c == prompt[p] IN
  /\ PromptAt(p, "sent")
  /\ Arrived(c.snapshot)
  /\ prompt' = [prompt EXCEPT ![p] =
       [c EXCEPT !.pc = IF ~c.snapshot.ok THEN "unknown"
                        ELSE IF c.ack = "streaming" THEN "prove" ELSE "ack",
                 !.snapshot = NoSnapshot]]
  /\ PromptLocal

\* The prompt does not reach the gateway: LiveTransportUnknown, or an error
\* that says it was not accepted.
PromptNotAccepted(p) ==
  /\ PromptAt(p, "submit")
  /\ \E pc \in {"unknown", "failed"} : prompt' = [prompt EXCEPT ![p].pc = pc]
  /\ PromptLocal

\* _prove_running_claim: the turn-state RPC, then the cursor, then the
\* generation, each read when the previous one has been answered.
PromptAsk(p) ==
  /\ PromptAt(p, "prove")
  /\ \E s \in Snapshots : prompt' = [prompt EXCEPT ![p].pc = "cursor", ![p].snapshot = s]
  /\ PromptLocal

PromptCursor(p) ==
  LET c == prompt[p]
      proves == Owns(c.snapshot, c.req) /\ epoch # 0
  IN
  /\ PromptAt(p, "cursor")
  /\ Arrived(c.snapshot)
  /\ prompt' = [prompt EXCEPT ![p] =
       [c EXCEPT !.pc = IF proves THEN "generation" ELSE "ack",
                 !.snapshot = NoSnapshot,
                 !.proof = IF proves THEN CursorProof(c.req) ELSE NoProof]]
  /\ PromptLocal

PromptGeneration(p) ==
  /\ PromptAt(p, "generation")
  /\ prompt' = [prompt EXCEPT ![p] = [@ EXCEPT !.pc = "ack", !.claimed = TRUE, !.proof.gen = gen]]
  /\ PromptLocal

\* The acknowledged submit is recorded, whatever the row has become meanwhile.
PromptAck(p) ==
  LET c == prompt[p] IN
  /\ PromptAt(p, "ack")
  /\ row' = [row EXCEPT ![c.req] =
       [@ EXCEPT !.status = c.ack, !.claimed = c.claimed, !.proof = c.proof]]
  /\ prompt' = [prompt EXCEPT ![p] = IdlePrompt]
  /\ PromptFrame /\ UNCHANGED <<gatewayVars, prompts, submits>>

\* So is the failed one.
PromptError(p) ==
  LET c == prompt[p] IN
  /\ c.pc \in {"unknown", "failed"}
  /\ row' = [row EXCEPT ![c.req].status = c.pc]
  /\ prompt' = [prompt EXCEPT ![p] = IdlePrompt]
  /\ PromptFrame /\ UNCHANGED <<gatewayVars, prompts, submits>>

PromptStep(p) ==
  \/ \E r \in Requests : PromptCapture(p, r)
  \/ PromptReserve(p)
  \/ PromptReplay(p)
  \/ PromptSubmit(p)
  \/ PromptReply(p)
  \/ PromptNotAccepted(p)
  \/ PromptAsk(p)
  \/ PromptCursor(p)
  \/ PromptGeneration(p)
  \/ PromptAck(p)
  \/ PromptError(p)

-----------------------------------------------------------------------------
(* live_wait                                                               *)

WaiterAt(w, pc) == waiter[w].pc = pc

WaiterFrame == UNCHANGED <<gatewayVars, linkVars, prompt, recon, crashes, prompts, submits>>

WaiterMoves(w, call) ==
  /\ waiter' = [waiter EXCEPT ![w] = call]
  /\ WaiterFrame /\ UNCHANGED <<row, answers>>

WaiterGoes(w, pc) == WaiterMoves(w, [waiter[w] EXCEPT !.pc = pc])

\* Mutant of WaitStart: a request without a proof is left open.
WaitStartClaimed(w, r) ==
  /\ WaiterAt(w, "idle")
  /\ row[r].status \notin {"absent", "unknown"} \cup Terminal
  /\ row[r].claimed
  /\ WaiterMoves(w, [IdleWaiter EXCEPT !.pc = "check", !.req = r, !.proof = row[r].proof])

\* The row is read: unknown and terminal rows are replayed (no step); an
\* unclaimed one is handed to recovery; a claimed one carries a proof.
WaitStart(w, r) ==
  /\ WaiterAt(w, "idle")
  /\ row[r].status \notin {"absent", "unknown"} \cup Terminal
  /\ WaiterMoves(w, [IdleWaiter EXCEPT !.pc = IF row[r].claimed THEN "check" ELSE "mark",
                                       !.req = r, !.proof = row[r].proof])

\* The stored cursor holds only on the epoch and generation it was proven on.
WaitCheck(w) ==
  LET c == waiter[w]
      fresh == c.proof.epoch = epoch /\ c.proof.gen = gen
  IN
  /\ WaiterAt(w, "check")
  /\ WaiterMoves(w, [c EXCEPT !.pc = IF fresh THEN "health" ELSE "reprove",
                              !.cursor = IF fresh THEN c.proof.seq ELSE 0,
                              !.epoch = epoch, !.gen = gen])

WaitReprove(w) ==
  /\ WaiterAt(w, "reprove")
  /\ \E s \in Snapshots : WaiterMoves(w, [waiter[w] EXCEPT !.pc = "recursor", !.snapshot = s])

WaitRecursor(w) ==
  LET c == waiter[w]
      next == [c EXCEPT !.snapshot = NoSnapshot]
  IN
  /\ WaiterAt(w, "recursor")
  /\ Arrived(c.snapshot)
  /\ WaiterMoves(w, IF Owns(c.snapshot, c.req)
                      THEN [next EXCEPT !.pc = "persist", !.proof = CursorProof(c.req), !.cursor = watermark]
                      ELSE [next EXCEPT !.pc = "mark"])

\* The re-proven cursor is stored with the epoch and generation of this moment.
WaitPersist(w) ==
  LET c == waiter[w]
      proof == [c.proof EXCEPT !.epoch = epoch, !.gen = gen]
  IN
  /\ WaiterAt(w, "persist")
  /\ row' = [row EXCEPT ![c.req].proof = proof]
  /\ waiter' = [waiter EXCEPT ![w] = [c EXCEPT !.pc = "health", !.proof = proof]]
  /\ WaiterFrame /\ UNCHANGED answers

WaitHealth(w) ==
  /\ WaiterAt(w, "health")
  /\ WaiterGoes(w, IF degraded THEN "mark" ELSE "block")

\* next_completion finds a candidate ...
WaitCandidate(w) ==
  /\ WaiterAt(w, "block")
  /\ \E e \in Candidates(waiter[w].cursor) :
       WaiterMoves(w, [waiter[w] EXCEPT !.pc = "admit", !.event = e])

\* ... or the caller's time is over, in which case the ring is not looked at.
WaitExpires(w) ==
  /\ WaiterAt(w, "block")
  /\ WaiterGoes(w, "admit")

\* After every blocking read: is this still the connection the proof is for,
\* and has the ring kept everything after the cursor?  (`admitted' observes
\* the connection on which that was answered.)
WaitAdmit(w) ==
  LET c == waiter[w]
      reopened == c.gen # gen \/ c.epoch # epoch
      lost == c.event # NoEvent /\ Truncated(c.cursor)
  IN
  /\ WaiterAt(w, "admit")
  /\ WaiterMoves(w, [c EXCEPT !.pc = IF reopened \/ lost THEN "mark" ELSE "ask",
                              !.admitted = conn])

WaitAsk(w) ==
  LET c == waiter[w] IN
  /\ WaiterAt(w, "ask")
  /\ \E s \in Snapshots :
       WaiterMoves(w, [c EXCEPT !.pc = IF c.event = NoEvent THEN "expired" ELSE "decide",
                                !.snapshot = s])

\* Mutant of WaitExpired: no evidence is taken for an idle gateway.
WaitExpiredUnproven(w) ==
  LET s == waiter[w].snapshot
      over == ~s.running /\ s.inflight = NoTurn
  IN
  /\ WaiterAt(w, "expired")
  /\ Arrived(s)
  /\ WaiterMoves(w, IF over THEN [waiter[w] EXCEPT !.pc = "mark", !.snapshot = NoSnapshot]
                            ELSE IdleWaiter)

\* Timed out: still running as far as known, or over without a completion.
WaitExpired(w) ==
  LET s == waiter[w].snapshot
      over == s.ok /\ ~s.running /\ s.inflight = NoTurn
  IN
  /\ WaiterAt(w, "expired")
  /\ Arrived(s)
  /\ WaiterMoves(w, IF over THEN [waiter[w] EXCEPT !.pc = "mark", !.snapshot = NoSnapshot]
                            ELSE IdleWaiter)

(***************************************************************************)
(* Whose completion is the candidate?  Without evidence the call returns;  *)
(* a degraded replay, a foreign turn in flight, or our failed turn under a *)
(* candidate that is no failure hand over; our healthy turn in flight      *)
(* means the candidate is another's and is skipped; otherwise it is ours.  *)
(***************************************************************************)
WaitDecide(w) ==
  LET c == waiter[w]
      s == c.snapshot
      own == Shows(s, c.req)
      next == [c EXCEPT !.snapshot = NoSnapshot]
      handover == [next EXCEPT !.pc = "mark"]
      deliver == [next EXCEPT !.pc = "deliver"]
      skip == [next EXCEPT !.pc = "block", !.cursor = c.event.seq, !.event = NoEvent]
  IN
  /\ WaiterAt(w, "decide")
  /\ Arrived(s)
  /\ WaiterMoves(w,
       CASE ~s.ok                                             -> IdleWaiter
         [] s.ok /\ degraded                                  -> handover
         [] s.ok /\ ~degraded /\ s.inflight = NoTurn          -> deliver
         [] s.ok /\ ~degraded /\ own /\ ~s.failed             -> skip
         [] s.ok /\ ~degraded /\ own /\ s.failed              ->
              IF c.event.kind = "error" THEN deliver ELSE handover
         [] OTHER                                             -> handover)

\* Mutant of Outcome: the event's own word is stored.
OutcomeVerbatim(kind) == kind

Outcome(kind) == CASE kind = "complete" -> "completed"
                   [] kind = "error" -> "failed"
                   [] kind = "cancelled" -> "interrupted"

\* The outcome is stored, whatever the row has become meanwhile, and returned.
WaitDeliver(w) ==
  LET c == waiter[w] IN
  /\ WaiterAt(w, "deliver")
  /\ row' = [row EXCEPT ![c.req].status = Outcome(c.event.kind)]
  /\ answers' = answers \cup
       {[req |-> c.req, turn |-> c.event.turn,
         conn |-> c.proof.conn = c.admitted, process |-> c.proof.process = crashes,
         running |-> c.proof.running, settled |-> c.proof.settled]}
  /\ waiter' = [waiter EXCEPT ![w] = IdleWaiter]
  /\ WaiterFrame

\* Mutant of WaitMark: a stored outcome is not looked for.
WaitMarkOverwrites(w) ==
  /\ WaiterAt(w, "mark")
  /\ row' = [row EXCEPT ![waiter[w].req].status = "unknown"]
  /\ waiter' = [waiter EXCEPT ![w] = IdleWaiter]
  /\ WaiterFrame /\ UNCHANGED answers

\* _mark_awaiting_recovery: unknown, unless a terminal outcome is stored,
\* which is then replayed.
WaitMark(w) ==
  LET r == waiter[w].req
      preserved == row[r].status \in Terminal
  IN
  /\ WaiterAt(w, "mark")
  /\ row' = IF preserved THEN row ELSE [row EXCEPT ![r].status = "unknown"]
  /\ waiter' = [waiter EXCEPT ![w] = IdleWaiter]
  /\ WaiterFrame /\ UNCHANGED answers

WaiterStep(w) ==
  \/ \E r \in Requests : WaitStart(w, r)
  \/ WaitCheck(w)
  \/ WaitReprove(w)
  \/ WaitRecursor(w)
  \/ WaitPersist(w)
  \/ WaitHealth(w)
  \/ WaitCandidate(w)
  \/ WaitExpires(w)
  \/ WaitAdmit(w)
  \/ WaitAsk(w)
  \/ WaitExpired(w)
  \/ WaitDecide(w)
  \/ WaitDeliver(w)
  \/ WaitMark(w)

-----------------------------------------------------------------------------
(* live_reconcile                                                          *)

ReconAt(c, pc) == recon[c].pc = pc

ReconFrame == UNCHANGED <<linkVars, prompt, waiter, crashes, prompts, observers>>

ReconGoes(c, call) == recon' = [recon EXCEPT ![c] = call]

\* Only an unknown row is reconciled; any other is replayed (no step).
ReconStart(c, r) ==
  /\ ReconAt(c, "idle")
  /\ row[r].status = "unknown"
  /\ ReconGoes(c, [pc |-> "open", req |-> r, boundary |-> row[r].boundary])
  /\ ReconFrame /\ UNCHANGED <<gatewayVars, row>>

\* open(): the lane's stored session is resumed, or the call gives up.
ReconOpen(c) ==
  /\ ReconAt(c, "open")
  /\ \/ Connected /\ Resume /\ ReconGoes(c, [recon[c] EXCEPT !.pc = "history"])
     \/ UNCHANGED gatewayVars /\ ReconGoes(c, IdleRecon)
  /\ ReconFrame /\ UNCHANGED row

\* One durable row after the boundary is proof; none, several, an unknown
\* boundary or a failed session.history leave the request as it is.
ReconHistory(c) ==
  LET call == recon[c]
      matches == MatchingRows(call.req, call.boundary)
      proven == call.boundary # NoBoundary /\ \E i \in matches : matches = {i}
  IN
  /\ ReconAt(c, "history")
  /\ \/ Reachable /\ proven /\ ReconGoes(c, [call EXCEPT !.pc = "write"])
     \/ ReconGoes(c, IdleRecon)
  /\ ReconFrame /\ UNCHANGED <<gatewayVars, row>>

ReconWrite(c) ==
  /\ ReconAt(c, "write")
  /\ row' = [row EXCEPT ![recon[c].req].status = "reconciled"]
  /\ ReconGoes(c, IdleRecon)
  /\ ReconFrame /\ UNCHANGED gatewayVars

ReconStep(c) ==
  \/ \E r \in Requests : ReconStart(c, r)
  \/ ReconOpen(c)
  \/ ReconHistory(c)
  \/ ReconWrite(c)

-----------------------------------------------------------------------------
(* The environment of the calls.                                           *)

\* Every RPC still waiting for its reply fails when the socket closes.
FailPending ==
  /\ prompt' = [p \in Prompters |-> [prompt[p] EXCEPT !.snapshot = AfterDrop(@)]]
  /\ waiter' = [w \in Waiters |-> [waiter[w] EXCEPT !.snapshot = AfterDrop(@)]]

LinkDrops ==
  /\ Drop
  /\ FailPending
  /\ UNCHANGED <<gatewayVars, row, recon, crashes, prompts, observers>>

LinkOpens ==
  /\ Reopen
  /\ UNCHANGED <<gatewayVars, row, callVars, crashes, prompts, observers>>

LinkMoves == LinkStep /\ UNCHANGED <<gatewayVars, row, callVars, crashes, prompts, observers>>

GatewayMoves == GatewayStep /\ UNCHANGED <<linkVars, row, callVars, crashes, prompts, observers>>

\* The gateway process dies and takes the socket with it.
GatewayRestarts ==
  /\ GatewayDies
  /\ IF Connected THEN Drop /\ FailPending ELSE UNCHANGED <<linkVars, prompt, waiter>>
  /\ UNCHANGED <<row, recon, crashes, prompts, observers>>

\* live_session_open: the stored session is resumed in the new process.
SessionOpen ==
  /\ Connected
  /\ ~live
  /\ Resume
  /\ UNCHANGED <<linkVars, row, callVars, crashes, prompts, observers>>

\* The bridge process is killed and restarted: only the registry survives.
Crash ==
  /\ crashes < MaxCrashes
  /\ crashes' = crashes + 1
  /\ LinkReset
  /\ prompt' = [p \in Prompters |-> IdlePrompt]
  /\ waiter' = [w \in Waiters |-> IdleWaiter]
  /\ recon' = [c \in Reconcilers |-> IdleRecon]
  /\ UNCHANGED <<gatewayVars, row, prompts, observers>>

Next ==
  \/ \E p \in Prompters : PromptStep(p)
  \/ \E w \in Waiters : WaiterStep(w)
  \/ \E c \in Reconcilers : ReconStep(c)
  \/ GatewayMoves
  \/ LinkMoves
  \/ LinkDrops
  \/ LinkOpens
  \/ GatewayRestarts
  \/ SessionOpen
  \/ Crash

Spec == Init /\ [][Next]_vars

-----------------------------------------------------------------------------
(* Properties.                                                             *)

(***************************************************************************)
(* reserve_live_request: "at most one gateway mutation per request_id,     *)
(* including when two callers race with the same ID" - and when the        *)
(* bridge is restarted, acknowledgements are lost or callers retry.        *)
(***************************************************************************)
AtMostOneSubmit == \A r \in Requests : submits[r] <= 1

(***************************************************************************)
(* The argument live_wait ends with ("so this candidate is the local       *)
(* completion"): an outcome attributed on the connection the cursor was    *)
(* read on, when the turn was still the gateway's and no replay was in     *)
(* progress at that reading, is the outcome of the request's own turn -    *)
(* whatever foreign turns, evictions, drops and restarts happened around.  *)
(***************************************************************************)
SoundProofOwnOutcome ==
  \A a \in answers : a.conn /\ a.running /\ a.settled => a.turn = a.req

\* The call that submitted r is still between its reservation and its last write.
SubmitterActive(r) ==
  \E p \in Prompters : prompt[p].req = r /\ prompt[p].pc \notin {"idle", "reserve"}

(***************************************************************************)
(* CHANGELOG "Conservative live_wait recovery now leaves the request in a  *)
(* state accepted by live_reconcile without overwriting terminal           *)
(* outcomes": once the submitting call has returned, no wait, reconcile,   *)
(* lost race or restart takes a request handed to recovery back to an      *)
(* open status, or a terminal one back to a status that is not.            *)
(***************************************************************************)
Stage(status) == CASE status = "absent" -> 0
                   [] status \in {"pending", "streaming", "queued"} -> 1
                   [] status = "unknown" -> 2
                   [] status \in Terminal -> 3

StatusOnlyAdvances ==
  [][\A r \in Requests :
       ~SubmitterActive(r) => Stage(row'[r].status) >= Stage(row[r].status)]_vars

(***************************************************************************)
(* CHANGELOG "Reconciliation no longer treats older identical prompts as   *)
(* evidence": a reconciled request really has its own durable row, unless  *)
(* another writer submitted the identical text after the boundary (the     *)
(* limitation docs/UPSTREAM-HERMES.md documents).                          *)
(***************************************************************************)
ReconciledIsDurable ==
  \A r \in Requests : row[r].status = "reconciled" =>
    \E i \in 1 .. Len(hist) :
      hist[i] = r \/ (i > row[r].boundary /\ Text[hist[i]] = Text[r])

(***************************************************************************)
(* "Do not turn an ordinary bounded wait_timeout into unknown merely       *)
(* because the turn is still running" (Stage 2.2 brief): a wait whose time *)
(* is over never hands over a request whose turn the gateway is running.   *)
(***************************************************************************)
ExpiryKeepsRunningTurn ==
  [][\A w \in Waiters :
       waiter[w].pc = "expired" /\ waiter'[w].pc = "mark" =>
         ~(active = waiter[w].req /\ phase = "running")]_vars

(***************************************************************************)
(* Through races, lost replies, drops and restarts, every step of the      *)
(* three tools is a step LiveRequest allows or changes nothing it speaks   *)
(* of: the second prompt of a request is never sent, a prompt that was     *)
(* accepted is never recorded as failed nor one that was not as running,   *)
(* outcomes are attributed to acknowledged prompts only, and nobody but    *)
(* the submitting call reopens a request.                                  *)
(***************************************************************************)
StageOf(status) == CASE status = "absent" -> "none"
                     [] status \in {"pending", "streaming", "queued"} -> "open"
                     [] status = "unknown" -> "recovery"
                     [] status \in Terminal -> "over"

Reconciling(r) == \E c \in Reconcilers : recon[c].req = r /\ recon[c].pc # "idle"

Promised == INSTANCE LiveRequest WITH
  stage <- [r \in Requests |-> StageOf(row[r].status)],
  submitting <- {r \in Requests : SubmitterActive(r)},
  recovering <- {r \in Requests : Reconciling(r)},
  sent <- submits

KeepsPromise == Promised!Spec

(***************************************************************************)
(* What the repository says and the code does not keep.                    *)
(***************************************************************************)

\* mcp_server.py on live_wait: "unprovable or foreign-turn cases return
\* conservative states instead of another client's answer".  Checked without
\* reconnects or restarts: the cursor of a proof is read after the snapshot it
\* belongs to, so it may already lie behind our own completion.
OnlyOwnOutcome == \A a \in answers : a.turn = a.req

\* README: "reconnect/replay never proves ownership of a foreign completion by
\* itself".  Late cursors set aside: while a replay is outstanding live events
\* are parked and the watermark a proof takes is older than its snapshot.
ReplayProvesNothing == \A a \in answers : a.conn /\ a.running => a.turn = a.req

\* live_client.py on _generation: "Ownership proofs captured on an older
\* generation lost their event-stream continuity and must be re-proven".
\* Generations restart with the process while the stored proofs do not.
OldProofIsReproven == \A a \in answers : a.process

(***************************************************************************)
(* Liveness.  The gateway finishes its turns and the socket reader and the *)
(* worker threads are scheduled; a caller keeps waiting, with time enough  *)
(* to look at the ring and to be answered once in a while.                 *)
(***************************************************************************)
TurnEnds ==
  /\ StartQueued \/ ClearInflight \/ (\E kind \in Outcomes \ {"error"} : EmitCompletion(kind))
       \/ EmitFailure \/ ForgetFailure
  /\ UNCHANGED <<linkVars, row, callVars, crashes, prompts, observers>>

WaitIsAnswered(w) == WaitAsk(w) /\ waiter'[w].snapshot.ok

Fairness ==
  /\ WF_vars(TurnEnds)
  /\ WF_vars(LinkMoves)
  /\ \A p \in Prompters : WF_vars(PromptStep(p))
  /\ \A w \in Waiters : /\ WF_vars(WaiterStep(w))
                        /\ SF_vars(WaitCandidate(w))
                        /\ SF_vars(WaitIsAnswered(w))

FairSpec == Spec /\ Fairness

(***************************************************************************)
(* No request stays open for ever: while a caller keeps waiting on a       *)
(* connection that stays up, a recorded request reaches an outcome or is   *)
(* handed to recovery - also one orphaned by a crash before its            *)
(* acknowledgement was recorded.                                           *)
(***************************************************************************)
OpenRequestSettles ==
  <>[]Connected =>
    \A r \in Requests : row[r].status \in {"pending", "streaming", "queued"}
                          ~> row[r].status \in {"unknown"} \cup Terminal
=============================================================================
