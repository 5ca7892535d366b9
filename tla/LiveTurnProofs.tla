---------------------------- MODULE LiveTurnProofs ----------------------------
(***************************************************************************)
(* Theorems about LiveTurn, for every number of callers, requests, foreign *)
(* prompts, restarts, reconnects and gateway processes.                    *)
(*                                                                         *)
(* Types are not inductive by themselves.  TypeInv adds what the program   *)
(* counter of a call says of its other fields, and that a gateway which is *)
(* not idle has a turn.                                                    *)
(***************************************************************************)
EXTENDS LiveTurn, SequenceTheorems, TLAPS

\* A call in progress has a request; an acknowledged prompt has its
\* acknowledgement; live_wait decides about and delivers real completions.
CallOf(kind) == {c \in kind : c.pc # "idle" => c.req \in Requests}

PromptCall ==
  {c \in CallOf(Prompt) :
     c.pc \in {"sent", "prove", "cursor", "generation", "ack"} => c.ack # "none"}

WaiterCall ==
  {c \in CallOf(Waiter) : c.pc \in {"decide", "deliver"} => c.event \in Events}

ReconCall == CallOf(Recon)

\* A gateway that is not idle has a turn to speak of.
GatewayInv == GatewayTypeOK /\ (phase # "idle" => active \in Turns)

TypeInv ==
  /\ GatewayInv
  /\ LinkTypeOK
  /\ row \in [Requests -> Row]
  /\ prompt \in [Prompters -> PromptCall]
  /\ waiter \in [Waiters -> WaiterCall]
  /\ recon \in [Reconcilers -> ReconCall]
  /\ crashes \in Nat
  /\ prompts \in Nat
  /\ submits \in [Requests -> Nat]
  /\ answers \in SUBSET Answer

LEMMA TypeInvImpliesTypeOK == TypeInv => TypeOK
BY DEF TypeInv, TypeOK, GatewayInv, PromptCall, WaiterCall, ReconCall, CallOf

-----------------------------------------------------------------------------
(* The values calls and rows start from.                                   *)

LEMMA StartValues ==
  /\ NoSnapshot \in Snapshot
  /\ NoProof \in Proof
  /\ AbsentRow \in Row
  /\ IdlePrompt \in PromptCall
  /\ IdleWaiter \in WaiterCall
  /\ IdleRecon \in ReconCall
<1>1. NoSnapshot \in Snapshot
  BY DEF NoSnapshot, Snapshot
<1>2. NoProof \in Proof
  BY DEF NoProof, Proof
<1>3. AbsentRow \in Row
  BY <1>2 DEF AbsentRow, Row, Boundary, NoBoundary, Statuses
<1>4. IdlePrompt \in PromptCall
  BY <1>1, <1>2 DEF IdlePrompt, PromptCall, CallOf, Prompt, PromptPc, Callee, Boundary, NoBoundary
<1>5. IdleWaiter \in WaiterCall
  BY <1>1, <1>2 DEF IdleWaiter, WaiterCall, CallOf, Waiter, WaiterPc, Callee
<1>6. IdleRecon \in ReconCall
  BY DEF IdleRecon, ReconCall, CallOf, Recon, Callee, Boundary, NoBoundary
<1> QED
  BY <1>1, <1>2, <1>3, <1>4, <1>5, <1>6

LEMMA InitTypeInv == Init => TypeInv
<1> SUFFICES ASSUME Init PROVE TypeInv
  OBVIOUS
<1>1. GatewayInv
  BY DEF Init, GatewayInit, GatewayInv, GatewayTypeOK, Phases
<1>2. LinkTypeOK
  BY DEF Init, LinkInit, LinkTypeOK
<1> QED
  BY <1>1, <1>2, StartValues DEF TypeInv, Init

-----------------------------------------------------------------------------
(* Steps of the gateway and of the connection keep the types.              *)

LEMMA AdmitTypes ==
  ASSUME GatewayInv, NEW t \in Turns, Admit(t)
  PROVE  GatewayInv'
<1>1. CASE ClaimsNow
  BY <1>1 DEF GatewayInv, GatewayTypeOK, Admit, Begin, Phases
<1>2. CASE ~ClaimsNow
  BY <1>2 DEF GatewayInv, GatewayTypeOK, Admit
<1> QED
  BY <1>1, <1>2

LEMMA GatewayStepTypes ==
  ASSUME GatewayInv, GatewayStep
  PROVE  GatewayInv'
<1>1. ASSUME NEW t \in Foreign, ForeignSubmit(t) PROVE GatewayInv'
  BY <1>1, AdmitTypes DEF ForeignSubmit, Turns
<1>2. CASE StartQueued
  BY <1>2 DEF StartQueued, Begin, GatewayInv, GatewayTypeOK, Phases
<1>3. CASE ClearInflight
  BY <1>3 DEF ClearInflight, GatewayInv, GatewayTypeOK, Phases
<1>4. ASSUME NEW kind \in Outcomes \ {"error"}, EmitCompletion(kind) PROVE GatewayInv'
  BY <1>4, OutcomesAssumption DEF EmitCompletion, GatewayInv, GatewayTypeOK, Phases
<1>5. CASE FailTurn
  BY <1>5 DEF FailTurn, GatewayInv, GatewayTypeOK, Phases
<1>6. CASE EmitFailure
  BY <1>6 DEF EmitFailure, GatewayInv, GatewayTypeOK, Phases, Kinds
<1>7. CASE ForgetFailure
  BY <1>7 DEF ForgetFailure, GatewayInv, GatewayTypeOK, Phases
<1> QED
  BY <1>1, <1>2, <1>3, <1>4, <1>5, <1>6, <1>7 DEF GatewayStep

LEMMA GatewayDiesTypes ==
  ASSUME GatewayInv, GatewayDies
  PROVE  GatewayInv'
<1>1. gwRun' \in Nat /\ hist' \in Seq(Turns)
  BY DEF GatewayInv, GatewayTypeOK, GatewayDies
<1>2. live' \in BOOLEAN
  BY DEF GatewayDies
<1>3. phase' = "idle" /\ active' = NoTurn
  BY DEF GatewayDies
<1>4. queue' \in Seq(Turns) /\ log' \in Seq([turn : Turns, kind : Kinds])
  BY DEF GatewayDies
<1> QED
  BY <1>1, <1>2, <1>3, <1>4 DEF GatewayInv, GatewayTypeOK, Phases

LEMMA ResumeTypes ==
  ASSUME GatewayInv, Resume
  PROVE  GatewayInv'
BY DEF GatewayInv, GatewayTypeOK, Resume

\* A completion of the log is an event of the stream.
LEMMA EventTypes ==
  ASSUME GatewayTypeOK, NEW i \in 1 .. Len(log)
  PROVE  Event(i) \in Events
<1>1. log[i] \in [turn : Turns, kind : Kinds]
  BY ElementOfSeq DEF GatewayTypeOK
<1> QED
  BY <1>1 DEF Event, Events

\* The parts of LinkTypeOK: numbers, truth values, the rest.
LinkNumbers == {conn, gen, epoch, received, watermark, evictedTo} \subseteq Nat

LinkTruths == {slot, gapAllowed, degraded, nextDegraded} \subseteq BOOLEAN

LinkRest == link \in {"down", "holding", "settling", "open"} /\ ring \subseteq Events

LEMMA LinkParts == LinkTypeOK <=> LinkNumbers /\ LinkTruths /\ LinkRest
<1>1. LinkNumbers <=> /\ conn \in Nat /\ gen \in Nat /\ epoch \in Nat
                      /\ received \in Nat /\ watermark \in Nat /\ evictedTo \in Nat
  BY DEF LinkNumbers
<1>2. LinkTruths <=> /\ slot \in BOOLEAN /\ gapAllowed \in BOOLEAN
                     /\ degraded \in BOOLEAN /\ nextDegraded \in BOOLEAN
  BY DEF LinkTruths
<1> QED
  BY <1>1, <1>2 DEF LinkTypeOK, LinkRest

\* The same of the next state.
LEMMA LinkWhole ==
  ASSUME LinkNumbers', LinkTruths', LinkRest'
  PROVE  LinkTypeOK'
<1>1. /\ conn' \in Nat /\ gen' \in Nat /\ epoch' \in Nat
      /\ received' \in Nat /\ watermark' \in Nat /\ evictedTo' \in Nat
  BY DEF LinkNumbers
<1>2. /\ slot' \in BOOLEAN /\ gapAllowed' \in BOOLEAN
      /\ degraded' \in BOOLEAN /\ nextDegraded' \in BOOLEAN
  BY DEF LinkTruths
<1> QED
  BY <1>1, <1>2 DEF LinkTypeOK, LinkRest

LEMMA LinkStepTypes ==
  ASSUME GatewayTypeOK, LinkTypeOK, LinkStep
  PROVE  LinkTypeOK'
<1>1. Len(log) \in Nat
  BY DEF GatewayTypeOK
<1>2. LinkNumbers /\ LinkTruths /\ LinkRest
  BY LinkParts
<1>3. LinkTruths'
  BY <1>2 DEF LinkTruths, LinkStep, ReplayWhole, ReplayTruncated, ReplayFails, Settle, Deliver,
              FirstEvent, RingPressure, ringVars
<1>4. LinkNumbers' /\ LinkRest'
  <2>1. CASE ReplayWhole
    <3>1. PICK n \in received .. Len(log) :
            /\ ring' = ring \cup EventsIn(watermark + 1, n)
            /\ watermark' = IF n > watermark THEN n ELSE watermark
            /\ received' = n
      BY <2>1 DEF ReplayWhole
    <3>2. EventsIn(watermark + 1, n) \subseteq Events
      BY <1>1, <1>2, EventTypes DEF EventsIn, LinkNumbers
    <3> QED
      BY <1>1, <1>2, <2>1, <3>1, <3>2 DEF ReplayWhole, LinkNumbers, LinkRest
  <2>2. CASE ReplayTruncated
    <3>1. PICK n \in received .. Len(log) : \E k \in watermark .. n :
            /\ ring' = ring \cup EventsIn(k + 1, n)
            /\ watermark' = IF k < n THEN n ELSE watermark
            /\ received' = n
      BY <2>2 DEF ReplayTruncated
    <3>2. PICK k \in watermark .. n :
            /\ ring' = ring \cup EventsIn(k + 1, n)
            /\ watermark' = IF k < n THEN n ELSE watermark
            /\ received' = n
      BY <3>1
    <3>3. EventsIn(k + 1, n) \subseteq Events
      BY <1>1, <1>2, EventTypes DEF EventsIn, LinkNumbers
    <3> QED
      BY <1>1, <1>2, <2>2, <3>2, <3>3 DEF ReplayTruncated, LinkNumbers, LinkRest
  <2>3. CASE ReplayFails
    BY <1>1, <1>2, <2>3 DEF ReplayFails, ringVars, LinkNumbers, LinkRest
  <2>4. CASE Settle
    BY <1>2, <2>4 DEF Settle, ringVars, LinkNumbers, LinkRest
  <2>5. CASE Deliver
    <3>1. Event(received + 1) \in Events
      BY <1>1, <1>2, <2>5, EventTypes DEF Deliver, LinkNumbers
    <3> QED
      BY <1>2, <2>5, <3>1 DEF Deliver, LinkNumbers, LinkRest
  <2>6. CASE FirstEvent
    BY <1>2, <2>6 DEF FirstEvent, LinkNumbers, LinkRest
  <2>7. CASE RingPressure
    BY <1>2, <2>7 DEF RingPressure, Events, LinkNumbers, LinkRest
  <2> QED
    BY <2>1, <2>2, <2>3, <2>4, <2>5, <2>6, <2>7 DEF LinkStep
<1> QED
  BY <1>3, <1>4, LinkWhole

LEMMA ReopenTypes ==
  ASSUME GatewayTypeOK, LinkTypeOK, Reopen
  PROVE  LinkTypeOK'
<1>1. Len(log) \in Nat /\ gwRun \in Nat
  BY DEF GatewayTypeOK
<1>2. LinkNumbers /\ LinkTruths /\ LinkRest
  BY LinkParts
<1>3. LinkTruths'
  BY <1>2 DEF LinkTruths, Reopen, ringVars, EpochChanged
<1>4. LinkNumbers' /\ LinkRest'
  BY <1>1, <1>2 DEF LinkNumbers, LinkRest, Reopen, ringVars
<1> QED
  BY <1>3, <1>4, LinkWhole

LEMMA DropTypes ==
  ASSUME LinkTypeOK, Drop
  PROVE  LinkTypeOK'
BY DEF LinkTypeOK, Drop, ringVars

LEMMA LinkResetTypes ==
  ASSUME LinkTypeOK, LinkReset
  PROVE  LinkTypeOK'
BY DEF LinkTypeOK, LinkReset

-----------------------------------------------------------------------------
(* What calls read is of the right kind.                                   *)

LEMMA CursorProofTypes ==
  ASSUME LinkTypeOK, crashes \in Nat, NEW r
  PROVE  CursorProof(r) \in Proof
<1>1. Ended(r) \in BOOLEAN
  BY DEF Ended
<1>2. (link = "open") \in BOOLEAN
  OBVIOUS
<1> QED
  BY <1>1, <1>2 DEF CursorProof, Proof, LinkTypeOK

LEMMA SnapshotTypes ==
  ASSUME GatewayInv, NEW s \in Snapshots
  PROVE  s \in Snapshot
<1>1. CASE s = NoSnapshot
  BY <1>1, StartValues
<1>2. ASSUME s \in Evidence PROVE s \in Snapshot
  <2>1. PICK b \in BOOLEAN :
          s = [ok |-> TRUE, running |-> b, inflight |-> Inflight,
               failed |-> phase \in {"failing", "failed"}, upto |-> Len(log)]
    <3>1. Busy \in BOOLEAN
      BY DEF Busy
    <3> QED
      BY <1>2, <3>1 DEF Evidence
  <2>2. Inflight \in Turns \cup {NoTurn}
    BY DEF Inflight, GatewayInv, GatewayTypeOK
  <2>3. Len(log) \in Nat
    BY LenProperties DEF GatewayInv, GatewayTypeOK
  <2>4. (phase \in {"failing", "failed"}) \in BOOLEAN
    OBVIOUS
  <2> QED
    BY <2>1, <2>2, <2>3, <2>4 DEF Snapshot
<1> QED
  BY <1>1, <1>2 DEF Snapshots

LEMMA AfterDropTypes ==
  ASSUME NEW s \in Snapshot
  PROVE  AfterDrop(s) \in Snapshot
BY StartValues DEF AfterDrop, Snapshot

-----------------------------------------------------------------------------
(* Every action keeps TypeInv.                                             *)

LEMMA PromptStepTypes ==
  ASSUME TypeInv, NEW p \in Prompters, PromptStep(p)
  PROVE  TypeInv'
<1> DEFINE c == prompt[p]
<1>1. c \in PromptCall /\ c \in Prompt /\ (c.pc # "idle" => c.req \in Requests)
  BY DEF TypeInv, PromptCall, CallOf
<1>2. LinkTypeOK' /\ waiter' \in [Waiters -> WaiterCall] /\ recon' \in [Reconcilers -> ReconCall]
      /\ crashes' \in Nat /\ answers' \in SUBSET Answer
  BY DEF TypeInv, LinkTypeOK, linkVars, PromptStep, PromptFrame, PromptLocal, PromptCapture,
         PromptReserve, PromptReplay, PromptSubmit, PromptReply, PromptNotAccepted, PromptAsk,
         PromptCursor, PromptGeneration, PromptAck, PromptError
<1> DEFINE Rest == /\ GatewayInv'
                   /\ row' \in [Requests -> Row]
                   /\ prompt' \in [Prompters -> PromptCall]
                   /\ prompts' \in Nat
                   /\ submits' \in [Requests -> Nat]
<1> SUFFICES Rest
  BY <1>2 DEF TypeInv
<1>3. ASSUME UNCHANGED <<gatewayVars, row, submits>>
      PROVE  GatewayInv' /\ row' \in [Requests -> Row] /\ submits' \in [Requests -> Nat]
  BY <1>3 DEF TypeInv, GatewayInv, GatewayTypeOK, gatewayVars
<1>4. ASSUME NEW r \in Requests, PromptCapture(p, r) PROVE Rest
  <2>1. PICK b \in {NoBoundary} \cup (IF Reachable THEN {Len(hist)} ELSE {}) :
          prompt' = [prompt EXCEPT ![p] =
                       [IdlePrompt EXCEPT !.pc = "reserve", !.req = r, !.boundary = b]]
    BY <1>4 DEF PromptCapture
  <2>2. b \in Boundary
    BY LenProperties DEF TypeInv, GatewayInv, GatewayTypeOK, Boundary
  <2>3. [IdlePrompt EXCEPT !.pc = "reserve", !.req = r, !.boundary = b] \in PromptCall
    BY <2>2, StartValues DEF PromptCall, CallOf, Prompt, PromptPc, Callee
  <2>4. prompts' \in Nat
    BY <1>4 DEF PromptCapture, TypeInv
  <2> QED
    BY <1>3, <1>4, <2>1, <2>3, <2>4 DEF PromptCapture, TypeInv
<1>5. CASE PromptReserve(p)
  <2>1. [AbsentRow EXCEPT !.status = "pending", !.boundary = c.boundary] \in Row
    BY <1>1, StartValues DEF Row, Prompt, Statuses
  <2>2. [c EXCEPT !.pc = "submit"] \in PromptCall
    BY <1>1, <1>5 DEF PromptReserve, PromptAt, PromptCall, CallOf, Prompt, PromptPc
  <2> QED
    BY <1>3, <1>5, <2>1, <2>2 DEF PromptReserve, TypeInv, GatewayInv, GatewayTypeOK, gatewayVars
<1>6. CASE PromptReplay(p)
  BY <1>3, <1>6, StartValues DEF PromptReplay, PromptLocal, TypeInv
<1>7. CASE PromptSubmit(p)
  <2>1. c.req \in Requests
    BY <1>1, <1>7 DEF PromptSubmit, PromptAt
  <2>2. GatewayInv'
    BY <1>7, <2>1, AdmitTypes DEF PromptSubmit, TypeInv, Turns
  <2> DEFINE acknowledged == [NoSnapshot EXCEPT !.ok = TRUE, !.upto = Len(log)]
             ack == IF ClaimsNow THEN "streaming" ELSE "queued"
  <2>3. PICK s \in {acknowledged, NoSnapshot} :
          prompt' = [prompt EXCEPT ![p] = [@ EXCEPT !.pc = "sent", !.snapshot = s, !.ack = ack]]
    BY <1>7 DEF PromptSubmit
  <2>4. Len(log) \in Nat
    BY LenProperties DEF TypeInv, GatewayInv, GatewayTypeOK
  <2>5. s \in Snapshot
    BY <2>4, StartValues DEF Snapshot
  <2>6. ack \in {"streaming", "queued"}
    OBVIOUS
  <2> HIDE DEF acknowledged, ack
  <2>7. [c EXCEPT !.pc = "sent", !.snapshot = s, !.ack = ack] \in PromptCall
    BY <1>1, <2>1, <2>5, <2>6 DEF PromptCall, CallOf, Prompt, PromptPc
  <2> QED
    BY <1>7, <2>1, <2>2, <2>3, <2>7 DEF PromptSubmit, TypeInv
<1>8. CASE PromptReply(p)
  <2> DEFINE pc == IF ~c.snapshot.ok THEN "unknown"
                   ELSE IF c.ack = "streaming" THEN "prove" ELSE "ack"
  <2>1. pc \in {"unknown", "prove", "ack"}
    OBVIOUS
  <2>2. prompt' = [prompt EXCEPT ![p] = [c EXCEPT !.pc = pc, !.snapshot = NoSnapshot]]
    BY <1>8 DEF PromptReply
  <2> HIDE DEF pc
  <2>3. [c EXCEPT !.pc = pc, !.snapshot = NoSnapshot] \in PromptCall
    BY <1>1, <1>8, <2>1, StartValues DEF PromptReply, PromptAt, PromptCall, CallOf, Prompt, PromptPc
  <2> QED
    BY <1>3, <1>8, <2>2, <2>3 DEF PromptReply, PromptLocal, TypeInv
<1>9. CASE PromptNotAccepted(p)
  <2>1. \A pc \in {"unknown", "failed"} : [c EXCEPT !.pc = pc] \in PromptCall
    BY <1>1, <1>9 DEF PromptNotAccepted, PromptAt, PromptCall, CallOf, Prompt, PromptPc
  <2> QED
    BY <1>3, <1>9, <2>1 DEF PromptNotAccepted, PromptLocal, TypeInv
<1>10. CASE PromptAsk(p)
  <2>1. PICK s \in Snapshots : prompt' = [prompt EXCEPT ![p].pc = "cursor", ![p].snapshot = s]
    BY <1>10 DEF PromptAsk
  <2>2. [c EXCEPT !.pc = "cursor", !.snapshot = s] \in PromptCall
    BY <1>1, <1>10, SnapshotTypes
    DEF TypeInv, PromptAsk, PromptAt, PromptCall, CallOf, Prompt, PromptPc
  <2>3. prompt' = [prompt EXCEPT ![p] = [c EXCEPT !.pc = "cursor", !.snapshot = s]]
    BY <2>1 DEF TypeInv
  <2> QED
    BY <1>3, <1>10, <2>2, <2>3 DEF PromptAsk, PromptLocal, TypeInv
<1>11. CASE PromptCursor(p)
  <2> DEFINE proves == Owns(c.snapshot, c.req) /\ epoch # 0
             pc == IF proves THEN "generation" ELSE "ack"
             proof == IF proves THEN CursorProof(c.req) ELSE NoProof
  <2>1. pc \in {"generation", "ack"}
    OBVIOUS
  <2>2. proof \in Proof
    BY CursorProofTypes, StartValues DEF TypeInv
  <2>3. prompt' = [prompt EXCEPT ![p] = [c EXCEPT !.pc = pc, !.snapshot = NoSnapshot, !.proof = proof]]
    BY <1>11 DEF PromptCursor
  <2> HIDE DEF proves, pc, proof
  <2>4. [c EXCEPT !.pc = pc, !.snapshot = NoSnapshot, !.proof = proof] \in PromptCall
    BY <1>1, <1>11, <2>1, <2>2, StartValues
    DEF PromptCursor, PromptAt, PromptCall, CallOf, Prompt, PromptPc
  <2> QED
    BY <1>3, <1>11, <2>3, <2>4 DEF PromptCursor, PromptLocal, TypeInv
<1>12. CASE PromptGeneration(p)
  <2>1. gen \in Nat
    BY DEF TypeInv, LinkTypeOK
  <2>2. [c EXCEPT !.pc = "ack", !.claimed = TRUE, !.proof.gen = gen] \in PromptCall
    BY <1>1, <1>12, <2>1
    DEF PromptGeneration, PromptAt, PromptCall, CallOf, Prompt, PromptPc, Proof
  <2> QED
    BY <1>3, <1>12, <2>2 DEF PromptGeneration, PromptLocal, TypeInv
<1>13. CASE PromptAck(p)
  <2>1. c.ack \in {"streaming", "queued"}
    BY <1>1, <1>13 DEF PromptAck, PromptAt, PromptCall, Prompt
  <2>2. c.req \in Requests /\ row[c.req] \in Row
    BY <1>1, <1>13 DEF PromptAck, PromptAt, TypeInv
  <2>3. [row[c.req] EXCEPT !.status = c.ack, !.claimed = c.claimed, !.proof = c.proof] \in Row
    BY <1>1, <2>1, <2>2 DEF Row, Prompt, Statuses
  <2> QED
    BY <1>13, <2>3, StartValues DEF PromptAck, TypeInv, GatewayInv, GatewayTypeOK, gatewayVars
<1>14. CASE PromptError(p)
  <2>1. c.req \in Requests /\ row[c.req] \in Row
    BY <1>1, <1>14 DEF PromptError, TypeInv
  <2>2. [row[c.req] EXCEPT !.status = c.pc] \in Row
    BY <1>14, <2>1 DEF PromptError, Row, Statuses, Terminal
  <2> QED
    BY <1>14, <2>2, StartValues DEF PromptError, TypeInv, GatewayInv, GatewayTypeOK, gatewayVars
<1> QED
  BY <1>4, <1>5, <1>6, <1>7, <1>8, <1>9, <1>10, <1>11, <1>12, <1>13, <1>14 DEF PromptStep

\* A step of live_wait that changes only the call.
LEMMA WaiterMovesTypes ==
  ASSUME TypeInv, NEW w \in Waiters, NEW call \in WaiterCall, WaiterMoves(w, call)
  PROVE  TypeInv'
BY DEF TypeInv, WaiterMoves, WaiterFrame, GatewayInv, GatewayTypeOK, gatewayVars, LinkTypeOK, linkVars

\* A request keeps its place in a call that goes on without a decision.
LEMMA WaiterGoesOn ==
  ASSUME NEW call \in WaiterCall, call.pc # "idle",
         NEW pc \in WaiterPc \ {"decide", "deliver"}
  PROVE  [call EXCEPT !.pc = pc] \in WaiterCall
BY DEF WaiterCall, CallOf, Waiter

LEMMA WaiterStepTypes ==
  ASSUME TypeInv, NEW w \in Waiters, WaiterStep(w)
  PROVE  TypeInv'
<1> DEFINE c == waiter[w]
<1>1. c \in WaiterCall /\ c \in Waiter /\ (c.pc # "idle" => c.req \in Requests)
  BY DEF TypeInv, WaiterCall, CallOf
<1>2. gen \in Nat /\ epoch \in Nat /\ watermark \in Nat /\ conn \in Nat
  BY DEF TypeInv, LinkTypeOK
<1>3. ASSUME NEW r \in Requests, WaitStart(w, r) PROVE TypeInv'
  <2> DEFINE pc == IF row[r].claimed THEN "check" ELSE "mark"
  <2>1. pc \in {"check", "mark"}
    OBVIOUS
  <2>2. row[r].proof \in Proof
    BY DEF TypeInv, Row
  <2>3. WaiterMoves(w, [IdleWaiter EXCEPT !.pc = pc, !.req = r, !.proof = row[r].proof])
    BY <1>3 DEF WaitStart
  <2> HIDE DEF pc
  <2>4. [IdleWaiter EXCEPT !.pc = pc, !.req = r, !.proof = row[r].proof] \in WaiterCall
    BY <2>1, <2>2, StartValues DEF WaiterCall, CallOf, Waiter, WaiterPc, Callee
  <2> QED
    BY <2>3, <2>4, WaiterMovesTypes
<1>4. CASE WaitCheck(w)
  <2> DEFINE fresh == c.proof.epoch = epoch /\ c.proof.gen = gen
             pc == IF fresh THEN "health" ELSE "reprove"
             cursor == IF fresh THEN c.proof.seq ELSE 0
             next == [c EXCEPT !.pc = pc, !.cursor = cursor, !.epoch = epoch, !.gen = gen]
  <2>1. pc \in {"health", "reprove"}
    OBVIOUS
  <2>2. cursor \in Nat
    BY <1>1 DEF Waiter, Proof
  <2>3. WaiterMoves(w, next)
    BY <1>4 DEF WaitCheck
  <2> HIDE DEF pc, cursor
  <2>4. next \in WaiterCall
    BY <1>1, <1>2, <1>4, <2>1, <2>2 DEF WaitCheck, WaiterAt, WaiterCall, CallOf, Waiter, WaiterPc
  <2> QED
    BY <2>3, <2>4, WaiterMovesTypes
<1>5. CASE WaitReprove(w)
  <2>1. PICK s \in Snapshots : WaiterMoves(w, [c EXCEPT !.pc = "recursor", !.snapshot = s])
    BY <1>5 DEF WaitReprove
  <2>2. [c EXCEPT !.pc = "recursor", !.snapshot = s] \in WaiterCall
    BY <1>1, <1>5, SnapshotTypes
    DEF TypeInv, WaitReprove, WaiterAt, WaiterCall, CallOf, Waiter, WaiterPc
  <2> QED
    BY <2>1, <2>2, WaiterMovesTypes
<1>6. CASE WaitRecursor(w)
  <2> DEFINE next == [c EXCEPT !.snapshot = NoSnapshot]
             proven == [next EXCEPT !.pc = "persist", !.proof = CursorProof(c.req), !.cursor = watermark]
             unproven == [next EXCEPT !.pc = "mark"]
  <2>1. WaiterMoves(w, IF Owns(c.snapshot, c.req) THEN proven ELSE unproven)
    BY <1>6 DEF WaitRecursor
  <2>2. next \in Waiter /\ next.req \in Requests
    BY <1>1, <1>6, StartValues DEF WaitRecursor, WaiterAt, Waiter
  <2> HIDE DEF next
  <2>3. proven \in WaiterCall
    BY <1>2, <2>2, CursorProofTypes DEF TypeInv, WaiterCall, CallOf, Waiter, WaiterPc
  <2>4. unproven \in WaiterCall
    BY <2>2 DEF WaiterCall, CallOf, Waiter, WaiterPc
  <2> HIDE DEF proven, unproven
  <2> QED
    BY <2>1, <2>3, <2>4, WaiterMovesTypes
<1>7. CASE WaitPersist(w)
  <2> DEFINE proof == [c.proof EXCEPT !.epoch = epoch, !.gen = gen]
  <2>1. proof \in Proof
    BY <1>1, <1>2 DEF Waiter, Proof
  <2>2. /\ row' = [row EXCEPT ![c.req].proof = proof]
        /\ waiter' = [waiter EXCEPT ![w] = [c EXCEPT !.pc = "health", !.proof = proof]]
    BY <1>7 DEF WaitPersist
  <2> HIDE DEF proof
  <2>3. [c EXCEPT !.pc = "health", !.proof = proof] \in WaiterCall
    BY <1>1, <1>7, <2>1 DEF WaitPersist, WaiterAt, WaiterCall, CallOf, Waiter, WaiterPc
  <2>4. c.req \in Requests /\ [row[c.req] EXCEPT !.proof = proof] \in Row
    BY <1>1, <1>7, <2>1 DEF WaitPersist, WaiterAt, TypeInv, Row
  <2>5. row' = [row EXCEPT ![c.req] = [row[c.req] EXCEPT !.proof = proof]]
    BY <2>2, <2>4 DEF TypeInv
  <2> QED
    BY <1>7, <2>2, <2>3, <2>4, <2>5 DEF WaitPersist, WaiterFrame, TypeInv, GatewayInv, GatewayTypeOK,
       gatewayVars, LinkTypeOK, linkVars
<1>8. CASE WaitHealth(w)
  <2> DEFINE pc == IF degraded THEN "mark" ELSE "block"
  <2>1. pc \in WaiterPc \ {"decide", "deliver"}
    BY DEF WaiterPc
  <2>2. WaiterMoves(w, [c EXCEPT !.pc = pc])
    BY <1>8 DEF WaitHealth, WaiterGoes
  <2> HIDE DEF pc
  <2> QED
    BY <1>1, <1>8, <2>1, <2>2, WaiterGoesOn, WaiterMovesTypes DEF WaitHealth, WaiterAt
<1>9. CASE WaitCandidate(w)
  <2>1. PICK e \in Candidates(c.cursor) : WaiterMoves(w, [c EXCEPT !.pc = "admit", !.event = e])
    BY <1>9 DEF WaitCandidate
  <2>2. e \in Events
    BY DEF Candidates, TypeInv, LinkTypeOK
  <2>3. [c EXCEPT !.pc = "admit", !.event = e] \in WaiterCall
    BY <1>1, <1>9, <2>2 DEF WaitCandidate, WaiterAt, WaiterCall, CallOf, Waiter, WaiterPc
  <2> QED
    BY <2>1, <2>3, WaiterMovesTypes
<1>10. CASE WaitExpires(w)
  BY <1>1, <1>10, WaiterGoesOn, WaiterMovesTypes DEF WaitExpires, WaiterGoes, WaiterAt, WaiterPc
<1>11. CASE WaitAdmit(w)
  <2> DEFINE reopened == c.gen # gen \/ c.epoch # epoch
             lost == c.event # NoEvent /\ Truncated(c.cursor)
             pc == IF reopened \/ lost THEN "mark" ELSE "ask"
  <2>1. pc \in {"mark", "ask"}
    OBVIOUS
  <2>2. WaiterMoves(w, [c EXCEPT !.pc = pc, !.admitted = conn])
    BY <1>11 DEF WaitAdmit
  <2> HIDE DEF pc
  <2>3. [c EXCEPT !.pc = pc, !.admitted = conn] \in WaiterCall
    BY <1>1, <1>2, <1>11, <2>1 DEF WaitAdmit, WaiterAt, WaiterCall, CallOf, Waiter, WaiterPc
  <2> QED
    BY <2>2, <2>3, WaiterMovesTypes
<1>12. CASE WaitAsk(w)
  <2> DEFINE pc == IF c.event = NoEvent THEN "expired" ELSE "decide"
  <2>1. PICK s \in Snapshots : WaiterMoves(w, [c EXCEPT !.pc = pc, !.snapshot = s])
    BY <1>12 DEF WaitAsk
  <2>2. pc \in {"expired", "decide"} /\ (pc = "decide" => c.event \in Events)
    BY <1>1 DEF Waiter
  <2>3. s \in Snapshot
    BY SnapshotTypes DEF TypeInv
  <2> HIDE DEF pc
  <2>4. [c EXCEPT !.pc = pc, !.snapshot = s] \in WaiterCall
    BY <1>1, <1>12, <2>2, <2>3 DEF WaitAsk, WaiterAt, WaiterCall, CallOf, Waiter, WaiterPc
  <2> QED
    BY <2>1, <2>4, WaiterMovesTypes
<1>13. CASE WaitExpired(w)
  <2> DEFINE marked == [c EXCEPT !.pc = "mark", !.snapshot = NoSnapshot]
  <2>1. WaiterMoves(w, marked) \/ WaiterMoves(w, IdleWaiter)
    BY <1>13 DEF WaitExpired
  <2>2. marked \in WaiterCall
    BY <1>1, <1>13, StartValues DEF WaitExpired, WaiterAt, WaiterCall, CallOf, Waiter, WaiterPc
  <2> HIDE DEF marked
  <2> QED
    BY <2>1, <2>2, StartValues, WaiterMovesTypes
<1>14. CASE WaitDecide(w)
  <2> DEFINE next == [c EXCEPT !.snapshot = NoSnapshot]
             handover == [next EXCEPT !.pc = "mark"]
             deliver == [next EXCEPT !.pc = "deliver"]
             skip == [next EXCEPT !.pc = "block", !.cursor = c.event.seq, !.event = NoEvent]
  <2>1. \/ WaiterMoves(w, IdleWaiter) \/ WaiterMoves(w, handover)
        \/ WaiterMoves(w, deliver) \/ WaiterMoves(w, skip)
    BY <1>14 DEF WaitDecide
  <2>2. next \in Waiter /\ next.req \in Requests /\ next.event \in Events /\ c.event.seq \in Nat
    BY <1>1, <1>14, StartValues DEF WaitDecide, WaiterAt, WaiterCall, Waiter, Events
  <2> HIDE DEF next
  <2>3. handover \in WaiterCall /\ deliver \in WaiterCall
    BY <2>2 DEF WaiterCall, CallOf, Waiter, WaiterPc
  <2>4. skip \in WaiterCall
    BY <2>2 DEF WaiterCall, CallOf, Waiter, WaiterPc
  <2> HIDE DEF handover, deliver, skip
  <2> QED
    BY <2>1, <2>3, <2>4, StartValues, WaiterMovesTypes
<1>15. CASE WaitDeliver(w)
  <2> DEFINE answer ==
        [req |-> c.req, turn |-> c.event.turn,
         conn |-> c.proof.conn = c.admitted, process |-> c.proof.process = crashes,
         running |-> c.proof.running, settled |-> c.proof.settled]
  <2>1. c.req \in Requests /\ c.event \in Events
    BY <1>1, <1>15 DEF WaitDeliver, WaiterAt, WaiterCall
  <2>2. Outcome(c.event.kind) \in Statuses
    BY <2>1 DEF Events, Kinds, Outcome, Statuses, Terminal
  <2>3. [row[c.req] EXCEPT !.status = Outcome(c.event.kind)] \in Row
    BY <2>1, <2>2 DEF TypeInv, Row
  <2>4. answer \in Answer
    <3>1. (c.proof.conn = c.admitted) \in BOOLEAN /\ (c.proof.process = crashes) \in BOOLEAN
      OBVIOUS
    <3>2. c.proof.running \in BOOLEAN /\ c.proof.settled \in BOOLEAN
      BY <1>1 DEF Waiter, Proof
    <3>3. c.event.turn \in Turns
      BY <2>1 DEF Events
    <3> QED
      BY <2>1, <3>1, <3>2, <3>3 DEF Answer
  <2>5. /\ row' = [row EXCEPT ![c.req] = [row[c.req] EXCEPT !.status = Outcome(c.event.kind)]]
        /\ answers' = answers \cup {answer}
        /\ waiter' = [waiter EXCEPT ![w] = IdleWaiter]
    BY <1>15 DEF WaitDeliver, TypeInv
  <2> HIDE DEF answer
  <2> QED
    BY <1>15, <2>1, <2>3, <2>4, <2>5, StartValues
    DEF WaitDeliver, WaiterFrame, TypeInv, GatewayInv, GatewayTypeOK, gatewayVars, LinkTypeOK, linkVars
<1>16. CASE WaitMark(w)
  <2>1. c.req \in Requests /\ [row[c.req] EXCEPT !.status = "unknown"] \in Row
    BY <1>1, <1>16 DEF WaitMark, WaiterAt, TypeInv, Row, Statuses
  <2>2. row' \in [Requests -> Row]
    BY <1>16, <2>1 DEF WaitMark, TypeInv
  <2> QED
    BY <1>16, <2>2, StartValues
    DEF WaitMark, WaiterFrame, TypeInv, GatewayInv, GatewayTypeOK, gatewayVars, LinkTypeOK, linkVars
<1> QED
  BY <1>3, <1>4, <1>5, <1>6, <1>7, <1>8, <1>9, <1>10, <1>11, <1>12, <1>13, <1>14, <1>15, <1>16
  DEF WaiterStep

LEMMA ReconStepTypes ==
  ASSUME TypeInv, NEW c \in Reconcilers, ReconStep(c)
  PROVE  TypeInv'
<1> DEFINE call == recon[c]
<1>1. call \in ReconCall /\ call \in Recon /\ (call.pc # "idle" => call.req \in Requests)
  BY DEF TypeInv, ReconCall, CallOf
<1>2. ASSUME recon' \in [Reconcilers -> ReconCall], row' \in [Requests -> Row], GatewayInv', ReconFrame
      PROVE  TypeInv'
  BY <1>2 DEF TypeInv, ReconFrame, LinkTypeOK, linkVars, observers
<1>3. ASSUME UNCHANGED gatewayVars PROVE GatewayInv'
  BY <1>3 DEF TypeInv, GatewayInv, GatewayTypeOK, gatewayVars
<1>4. ASSUME NEW r \in Requests, ReconStart(c, r) PROVE TypeInv'
  <2>1. [pc |-> "open", req |-> r, boundary |-> row[r].boundary] \in ReconCall
    BY DEF TypeInv, Row, ReconCall, CallOf, Recon, Callee
  <2> QED
    BY <1>2, <1>3, <1>4, <2>1 DEF ReconStart, ReconGoes, TypeInv
<1>5. CASE ReconOpen(c)
  <2>1. [call EXCEPT !.pc = "history"] \in ReconCall
    BY <1>1, <1>5 DEF ReconOpen, ReconAt, ReconCall, CallOf, Recon
  <2>2. GatewayInv'
    BY <1>3, <1>5, ResumeTypes DEF ReconOpen, TypeInv
  <2> QED
    BY <1>2, <1>5, <2>1, <2>2, StartValues DEF ReconOpen, ReconGoes, TypeInv
<1>6. CASE ReconHistory(c)
  <2>1. [call EXCEPT !.pc = "write"] \in ReconCall
    BY <1>1, <1>6 DEF ReconHistory, ReconAt, ReconCall, CallOf, Recon
  <2> QED
    BY <1>2, <1>3, <1>6, <2>1, StartValues DEF ReconHistory, ReconGoes, TypeInv
<1>7. CASE ReconWrite(c)
  <2>1. call.req \in Requests /\ [row[call.req] EXCEPT !.status = "reconciled"] \in Row
    BY <1>1, <1>7 DEF ReconWrite, ReconAt, TypeInv, Row, Statuses, Terminal
  <2> QED
    BY <1>2, <1>3, <1>7, <2>1, StartValues DEF ReconWrite, ReconGoes, TypeInv
<1> QED
  BY <1>4, <1>5, <1>6, <1>7 DEF ReconStep

LEMMA FailPendingTypes ==
  ASSUME TypeInv, FailPending
  PROVE  prompt' \in [Prompters -> PromptCall] /\ waiter' \in [Waiters -> WaiterCall]
<1>1. ASSUME NEW p \in Prompters
      PROVE  [prompt[p] EXCEPT !.snapshot = AfterDrop(prompt[p].snapshot)] \in PromptCall
  BY AfterDropTypes DEF TypeInv, PromptCall, CallOf, Prompt
<1>2. ASSUME NEW w \in Waiters
      PROVE  [waiter[w] EXCEPT !.snapshot = AfterDrop(waiter[w].snapshot)] \in WaiterCall
  BY AfterDropTypes DEF TypeInv, WaiterCall, CallOf, Waiter
<1> QED
  BY <1>1, <1>2 DEF FailPending

LEMMA NextTypeInv == TypeInv /\ [Next]_vars => TypeInv'
<1> SUFFICES ASSUME TypeInv, [Next]_vars PROVE TypeInv'
  OBVIOUS
<1> USE DEF TypeInv
<1>1. ASSUME UNCHANGED gatewayVars PROVE GatewayInv'
  BY <1>1 DEF GatewayInv, GatewayTypeOK, gatewayVars
<1>2. ASSUME UNCHANGED linkVars PROVE LinkTypeOK'
  BY <1>2 DEF LinkTypeOK, linkVars
<1>3. ASSUME NEW p \in Prompters, PromptStep(p) PROVE TypeInv'
  BY <1>3, PromptStepTypes
<1>4. ASSUME NEW w \in Waiters, WaiterStep(w) PROVE TypeInv'
  BY <1>4, WaiterStepTypes
<1>5. ASSUME NEW c \in Reconcilers, ReconStep(c) PROVE TypeInv'
  BY <1>5, ReconStepTypes
<1>6. CASE GatewayMoves
  BY <1>2, <1>6, GatewayStepTypes DEF GatewayMoves, callVars, observers
<1>7. CASE LinkMoves
  BY <1>1, <1>7, LinkStepTypes DEF LinkMoves, callVars, observers, GatewayInv
<1>8. CASE LinkDrops
  BY <1>1, <1>8, DropTypes, FailPendingTypes DEF LinkDrops, observers
<1>9. CASE LinkOpens
  BY <1>1, <1>9, ReopenTypes DEF LinkOpens, callVars, observers, GatewayInv
<1>10. CASE GatewayRestarts
  <2>1. GatewayInv'
    BY <1>10, GatewayDiesTypes DEF GatewayRestarts
  <2>2. LinkTypeOK' /\ prompt' \in [Prompters -> PromptCall] /\ waiter' \in [Waiters -> WaiterCall]
    BY <1>2, <1>10, DropTypes, FailPendingTypes DEF GatewayRestarts
  <2> QED
    BY <1>10, <2>1, <2>2 DEF GatewayRestarts, observers
<1>11. CASE SessionOpen
  BY <1>2, <1>11, ResumeTypes DEF SessionOpen, callVars, observers
<1>12. CASE Crash
  <2>1. crashes' \in Nat
    BY <1>12 DEF Crash
  <2> QED
    BY <1>1, <1>12, <2>1, LinkResetTypes, StartValues DEF Crash, observers
<1>13. CASE UNCHANGED vars
  BY <1>1, <1>2, <1>13 DEF vars, callVars, observers
<1> QED
  BY <1>3, <1>4, <1>5, <1>6, <1>7, <1>8, <1>9, <1>10, <1>11, <1>12, <1>13 DEF Next

(***************************************************************************)
(* The model is well typed: every record, cursor, ring entry and status    *)
(* stays of its kind whatever the callers, the socket and the gateway do.  *)
(***************************************************************************)
THEOREM TypesAlwaysHold == Spec => []TypeInv
BY InitTypeInv, NextTypeInv, PTL DEF Spec

\* In particular every variable keeps the type the model declares for it.
THEOREM TypeCorrect == Spec => []TypeOK
BY TypesAlwaysHold, TypeInvImpliesTypeOK, PTL

-----------------------------------------------------------------------------
(* At most one submit per request.  A prompt is submitted only by the call *)
(* whose reservation inserted the record, a record is never forgotten, and *)
(* the reservation is refused while a record exists.                       *)

SubmitsRecorded ==
  /\ \A r \in Requests : submits[r] <= 1 /\ (submits[r] # 0 => row[r].status # "absent")
  /\ \A p \in Prompters : PromptAt(p, "submit") =>
       submits[prompt[p].req] = 0 /\ row[prompt[p].req].status # "absent"
  /\ \A p, q \in Prompters :
       PromptAt(p, "submit") /\ PromptAt(q, "submit") /\ prompt[p].req = prompt[q].req => p = q

\* What most steps do to it: nothing is submitted, nobody comes to submit and
\* no record is forgotten.
RecordsKept == \A r \in Requests : row[r].status # "absent" => row'[r].status # "absent"

NobodyElseSubmits ==
  \A p \in Prompters :
    prompt'[p].pc = "submit" => PromptAt(p, "submit") /\ prompt'[p].req = prompt[p].req

LEMMA QuietStep ==
  ASSUME TypeInv, SubmitsRecorded, UNCHANGED submits, NobodyElseSubmits, RecordsKept
  PROVE  SubmitsRecorded'
BY DEF TypeInv, PromptCall, CallOf, SubmitsRecorded, NobodyElseSubmits, RecordsKept, PromptAt

LEMMA PromptStepRecordsKept ==
  ASSUME TypeInv, NEW p \in Prompters, PromptStep(p)
  PROVE  RecordsKept
<1>1. ASSUME NEW r \in Requests, PromptCapture(p, r) PROVE RecordsKept
  BY <1>1 DEF PromptCapture, RecordsKept
<1>2. CASE PromptReserve(p)
  BY <1>2 DEF PromptReserve, RecordsKept, TypeInv, Row, AbsentRow
<1>3. CASE PromptReplay(p) \/ PromptReply(p) \/ PromptNotAccepted(p) \/ PromptAsk(p)
           \/ PromptCursor(p) \/ PromptGeneration(p)
  BY <1>3 DEF PromptReplay, PromptReply, PromptNotAccepted, PromptAsk, PromptCursor,
              PromptGeneration, PromptLocal, RecordsKept
<1>4. CASE PromptSubmit(p)
  BY <1>4 DEF PromptSubmit, RecordsKept
<1>5. CASE PromptAck(p)
  <2>1. prompt[p].ack # "absent"
    BY DEF TypeInv, PromptCall, CallOf, Prompt
  <2> QED
    BY <1>5, <2>1 DEF PromptAck, RecordsKept, TypeInv, Row
<1>6. CASE PromptError(p)
  BY <1>6 DEF PromptError, RecordsKept, TypeInv, Row
<1> QED
  BY <1>1, <1>2, <1>3, <1>4, <1>5, <1>6 DEF PromptStep

LEMMA PromptStepSubmits ==
  ASSUME TypeInv, SubmitsRecorded, NEW p \in Prompters, PromptStep(p)
  PROVE  SubmitsRecorded'
<1> DEFINE c == prompt[p]
<1>1. c \in PromptCall /\ (c.pc # "idle" => c.req \in Requests)
  BY DEF TypeInv, PromptCall, CallOf
<1>2. RecordsKept
  BY PromptStepRecordsKept
<1>3. ASSUME NEW r \in Requests, PromptCapture(p, r) PROVE SubmitsRecorded'
  <2>1. NobodyElseSubmits
    BY <1>3 DEF PromptCapture, NobodyElseSubmits, PromptAt, TypeInv, IdlePrompt
  <2> QED
    BY <1>2, <1>3, <2>1, QuietStep DEF PromptCapture
<1>4. CASE PromptReserve(p)
  <2>1. c.req \in Requests /\ row[c.req].status = "absent" /\ submits[c.req] = 0
    BY <1>1, <1>4 DEF PromptReserve, PromptAt, SubmitsRecorded
  <2>2. \A q \in Prompters : PromptAt(q, "submit") => prompt[q].req # c.req
    BY <2>1 DEF SubmitsRecorded
  <2>3. row'[c.req].status = "pending" /\ prompt'[p].req = c.req
    BY <1>4, <2>1 DEF PromptReserve, TypeInv, AbsentRow, PromptCall, CallOf, Prompt
  <2>4. \A q \in Prompters \ {p} : prompt'[q] = prompt[q]
    BY <1>4 DEF PromptReserve, TypeInv
  <2>5. UNCHANGED submits
    BY <1>4 DEF PromptReserve
  <2>6. \A q \in Prompters : prompt'[q].pc = "submit" => prompt'[q].req \in Requests
    BY <1>1, <1>4, <2>1, <2>3, <2>4 DEF PromptAt, TypeInv, PromptCall, CallOf
  <2>7. (\A r \in Requests : submits[r] <= 1 /\ (submits[r] # 0 => row[r].status # "absent"))'
    BY <1>2, <2>5 DEF SubmitsRecorded, RecordsKept
  <2>8. (\A q \in Prompters : PromptAt(q, "submit") =>
           submits[prompt[q].req] = 0 /\ row[prompt[q].req].status # "absent")'
    BY <1>2, <2>1, <2>3, <2>4, <2>5, <2>6 DEF SubmitsRecorded, RecordsKept, PromptAt
  <2>9. (\A q, o \in Prompters :
           PromptAt(q, "submit") /\ PromptAt(o, "submit") /\ prompt[q].req = prompt[o].req => q = o)'
    BY <2>2, <2>3, <2>4 DEF SubmitsRecorded, PromptAt
  <2> QED
    BY <2>7, <2>8, <2>9 DEF SubmitsRecorded
<1>5. CASE PromptReplay(p) \/ PromptReply(p) \/ PromptNotAccepted(p) \/ PromptAsk(p)
           \/ PromptCursor(p) \/ PromptGeneration(p)
  <2>1. UNCHANGED submits
    BY <1>5 DEF PromptReplay, PromptReply, PromptNotAccepted, PromptAsk, PromptCursor,
                PromptGeneration, PromptLocal
  <2>2. prompt'[p].pc # "submit"
    <3>1. CASE PromptReplay(p)
      BY <3>1 DEF PromptReplay, TypeInv, IdlePrompt
    <3>2. CASE PromptReply(p)
      BY <1>1, <3>2 DEF PromptReply, TypeInv, PromptCall, CallOf, Prompt
    <3>3. CASE PromptNotAccepted(p) \/ PromptAsk(p)
      BY <1>1, <3>3 DEF PromptNotAccepted, PromptAsk, TypeInv, PromptCall, CallOf, Prompt
    <3>4. CASE PromptCursor(p)
      <4> DEFINE proves == Owns(c.snapshot, c.req) /\ epoch # 0
                 pc == IF proves THEN "generation" ELSE "ack"
                 proof == IF proves THEN CursorProof(c.req) ELSE NoProof
      <4>1. prompt' = [prompt EXCEPT ![p] = [c EXCEPT !.pc = pc, !.snapshot = NoSnapshot, !.proof = proof]]
        BY <3>4 DEF PromptCursor
      <4>2. pc # "submit"
        OBVIOUS
      <4> HIDE DEF proves, pc, proof
      <4> QED
        BY <1>1, <4>1, <4>2 DEF TypeInv, PromptCall, CallOf, Prompt
    <3>5. CASE PromptGeneration(p)
      BY <1>1, <3>5 DEF PromptGeneration, TypeInv, PromptCall, CallOf, Prompt
    <3> QED
      BY <1>5, <3>1, <3>2, <3>3, <3>4, <3>5
  <2>3. \A q \in Prompters \ {p} : prompt'[q] = prompt[q]
    BY <1>5 DEF PromptReplay, PromptReply, PromptNotAccepted, PromptAsk, PromptCursor,
                PromptGeneration, TypeInv
  <2> QED
    BY <1>2, <2>1, <2>2, <2>3, QuietStep DEF NobodyElseSubmits, PromptAt
<1>6. CASE PromptSubmit(p)
  <2>1. c.req \in Requests /\ submits[c.req] = 0 /\ row[c.req].status # "absent"
    BY <1>1, <1>6 DEF PromptSubmit, PromptAt, SubmitsRecorded
  <2>2. row' = row /\ submits' = [submits EXCEPT ![c.req] = 1]
    BY <1>6, <2>1 DEF PromptSubmit, TypeInv
  <2>3. prompt'[p].pc # "submit"
    BY <1>1, <1>6 DEF PromptSubmit, TypeInv, PromptCall, CallOf, Prompt
  <2>4. \A q \in Prompters \ {p} : prompt'[q] = prompt[q]
    BY <1>6 DEF PromptSubmit, TypeInv
  <2>5. \A q \in Prompters \ {p} : PromptAt(q, "submit") => prompt[q].req \in Requests \ {c.req}
    BY <1>6 DEF PromptSubmit, SubmitsRecorded, PromptAt, TypeInv, PromptCall, CallOf
  <2>6. (\A r \in Requests : submits[r] <= 1 /\ (submits[r] # 0 => row[r].status # "absent"))'
    BY <2>1, <2>2 DEF SubmitsRecorded, TypeInv
  <2>7. (\A q \in Prompters : PromptAt(q, "submit") =>
           submits[prompt[q].req] = 0 /\ row[prompt[q].req].status # "absent")'
    BY <2>2, <2>3, <2>4, <2>5 DEF SubmitsRecorded, PromptAt, TypeInv
  <2>8. (\A q, o \in Prompters :
           PromptAt(q, "submit") /\ PromptAt(o, "submit") /\ prompt[q].req = prompt[o].req => q = o)'
    BY <2>3, <2>4 DEF SubmitsRecorded, PromptAt
  <2> QED
    BY <2>6, <2>7, <2>8 DEF SubmitsRecorded
<1>7. CASE PromptAck(p) \/ PromptError(p)
  <2>1. NobodyElseSubmits
    BY <1>7 DEF PromptAck, PromptError, NobodyElseSubmits, PromptAt, TypeInv, IdlePrompt
  <2> QED
    BY <1>2, <1>7, <2>1, QuietStep DEF PromptAck, PromptError
<1> QED
  BY <1>3, <1>4, <1>5, <1>6, <1>7 DEF PromptStep

LEMMA WaiterStepSubmits ==
  ASSUME TypeInv, SubmitsRecorded, NEW w \in Waiters, WaiterStep(w)
  PROVE  SubmitsRecorded'
<1>1. UNCHANGED <<prompt, submits>>
  BY DEF WaiterStep, WaitStart, WaitCheck, WaitReprove, WaitRecursor, WaitPersist, WaitHealth,
         WaitCandidate, WaitExpires, WaitAdmit, WaitAsk, WaitExpired, WaitDecide, WaitDeliver,
         WaitMark, WaiterGoes, WaiterMoves, WaiterFrame
<1>2. RecordsKept
  <2>1. CASE WaitPersist(w)
    BY <2>1 DEF WaitPersist, RecordsKept, TypeInv, Row
  <2>2. CASE WaitDeliver(w)
    <3>1. Outcome(waiter[w].event.kind) # "absent"
      BY <2>2 DEF WaitDeliver, WaiterAt, TypeInv, WaiterCall, Events, Kinds, Outcome
    <3> QED
      BY <2>2, <3>1 DEF WaitDeliver, RecordsKept, TypeInv, Row
  <2>3. CASE WaitMark(w)
    BY <2>3 DEF WaitMark, RecordsKept, TypeInv, Row
  <2>4. CASE row' = row
    BY <2>4 DEF RecordsKept
  <2> QED
    BY <2>1, <2>2, <2>3, <2>4 DEF WaiterStep, WaitStart, WaitCheck, WaitReprove, WaitRecursor,
       WaitHealth, WaitCandidate, WaitExpires, WaitAdmit, WaitAsk, WaitExpired, WaitDecide,
       WaiterGoes, WaiterMoves
<1> QED
  BY <1>1, <1>2, QuietStep DEF NobodyElseSubmits, PromptAt

LEMMA ReconStepSubmits ==
  ASSUME TypeInv, SubmitsRecorded, NEW c \in Reconcilers, ReconStep(c)
  PROVE  SubmitsRecorded'
<1>1. UNCHANGED <<prompt, submits>>
  BY DEF ReconStep, ReconStart, ReconOpen, ReconHistory, ReconWrite, ReconFrame, observers
<1>2. RecordsKept
  BY DEF ReconStep, ReconStart, ReconOpen, ReconHistory, ReconWrite, RecordsKept, TypeInv, Row
<1> QED
  BY <1>1, <1>2, QuietStep DEF NobodyElseSubmits, PromptAt

LEMMA NextSubmits == TypeInv /\ SubmitsRecorded /\ [Next]_vars => SubmitsRecorded'
<1> SUFFICES ASSUME TypeInv, SubmitsRecorded, [Next]_vars PROVE SubmitsRecorded'
  OBVIOUS
<1>1. ASSUME UNCHANGED <<row, prompt, submits>> PROVE SubmitsRecorded'
  BY <1>1 DEF SubmitsRecorded, PromptAt
<1>2. ASSUME UNCHANGED <<row, submits>>, FailPending PROVE SubmitsRecorded'
  <2>1. NobodyElseSubmits
    BY <1>2 DEF FailPending, NobodyElseSubmits, PromptAt, TypeInv, PromptCall, CallOf, Prompt
  <2> QED
    BY <1>2, <2>1, QuietStep DEF RecordsKept
<1>3. ASSUME NEW p \in Prompters, PromptStep(p) PROVE SubmitsRecorded'
  BY <1>3, PromptStepSubmits
<1>4. ASSUME NEW w \in Waiters, WaiterStep(w) PROVE SubmitsRecorded'
  BY <1>4, WaiterStepSubmits
<1>5. ASSUME NEW c \in Reconcilers, ReconStep(c) PROVE SubmitsRecorded'
  BY <1>5, ReconStepSubmits
<1>6. CASE GatewayMoves \/ LinkMoves \/ LinkOpens \/ SessionOpen \/ UNCHANGED vars
  BY <1>1, <1>6 DEF GatewayMoves, LinkMoves, LinkOpens, SessionOpen, vars, callVars, observers
<1>7. CASE LinkDrops \/ GatewayRestarts
  BY <1>1, <1>2, <1>7 DEF LinkDrops, GatewayRestarts, observers
<1>8. CASE Crash
  <2>1. NobodyElseSubmits
    BY <1>8 DEF Crash, NobodyElseSubmits, IdlePrompt
  <2> QED
    BY <1>8, <2>1, QuietStep DEF Crash, RecordsKept, observers
<1> QED
  BY <1>3, <1>4, <1>5, <1>6, <1>7, <1>8 DEF Next

(***************************************************************************)
(* However many callers race on a request_id, retry it, lose its           *)
(* acknowledgement or are killed with the bridge, the gateway accepts the  *)
(* prompt at most once.                                                    *)
(***************************************************************************)
THEOREM SubmittedAtMostOnce == Spec => []AtMostOneSubmit
<1>1. Init => SubmitsRecorded
  BY DEF Init, SubmitsRecorded, PromptAt, IdlePrompt
<1>2. SubmitsRecorded => AtMostOneSubmit
  BY DEF SubmitsRecorded, AtMostOneSubmit
<1> QED
  BY <1>1, <1>2, NextSubmits, TypesAlwaysHold, PTL DEF Spec

-----------------------------------------------------------------------------
(* Statuses only advance.                                                  *)

StatusAdvancesStep ==
  \A r \in Requests : ~SubmitterActive(r) => Stage(row'[r].status) >= Stage(row[r].status)

LEMMA StageBounds ==
  ASSUME NEW s \in Statuses
  PROVE  Stage(s) \in 0 .. 3 /\ (Stage(s) = 3 <=> s \in Terminal)
BY DEF Stage, Statuses, Terminal

LEMMA SameStatus ==
  ASSUME TypeInv, \A r \in Requests : row'[r].status = row[r].status
  PROVE  StatusAdvancesStep
<1>1. \A r \in Requests : Stage(row[r].status) \in 0 .. 3
  BY StageBounds DEF TypeInv, Row
<1> QED
  BY <1>1 DEF StatusAdvancesStep

\* One status changes, to one not behind it.
LEMMA NextStatus ==
  ASSUME TypeInv, NEW o \in Requests, NEW s \in Statuses,
         row' = [row EXCEPT ![o].status = s],
         SubmitterActive(o) \/ Stage(s) >= Stage(row[o].status)
  PROVE  StatusAdvancesStep
<1>1. \A r \in Requests : Stage(row[r].status) \in 0 .. 3
  BY StageBounds DEF TypeInv, Row
<1>2. row'[o].status = s /\ \A r \in Requests \ {o} : row'[r] = row[r]
  BY DEF TypeInv, Row
<1> QED
  BY <1>1, <1>2 DEF StatusAdvancesStep

LEMMA NextStatusAdvances == TypeInv /\ [Next]_vars => StatusAdvancesStep
<1> SUFFICES ASSUME TypeInv, [Next]_vars PROVE StatusAdvancesStep
  OBVIOUS
<1>1. CASE row' = row
  BY <1>1, SameStatus
<1>2. ASSUME NEW p \in Prompters, PromptReserve(p) PROVE StatusAdvancesStep
  <2> DEFINE o == prompt[p].req
  <2>1. o \in Requests /\ row[o].status = "absent"
    BY <1>2 DEF PromptReserve, PromptAt, TypeInv, PromptCall, CallOf
  <2>2. row'[o].status = "pending" /\ \A r \in Requests \ {o} : row'[r] = row[r]
    BY <1>2, <2>1 DEF PromptReserve, TypeInv, AbsentRow
  <2>3. Stage("absent") = 0 /\ Stage("pending") = 1
    BY DEF Stage, Terminal
  <2>4. \A r \in Requests : Stage(row[r].status) \in 0 .. 3
    BY StageBounds DEF TypeInv, Row
  <2> QED
    BY <2>1, <2>2, <2>3, <2>4 DEF StatusAdvancesStep
<1>3. ASSUME NEW p \in Prompters, PromptAck(p) \/ PromptError(p) PROVE StatusAdvancesStep
  <2> DEFINE o == prompt[p].req
  <2>1. o \in Requests /\ SubmitterActive(o)
    BY <1>3 DEF PromptAck, PromptError, PromptAt, TypeInv, PromptCall, CallOf, SubmitterActive
  <2>2. \A r \in Requests \ {o} : row'[r] = row[r]
    BY <1>3 DEF PromptAck, PromptError, TypeInv
  <2>3. \A r \in Requests : Stage(row[r].status) \in 0 .. 3
    BY StageBounds DEF TypeInv, Row
  <2> QED
    BY <2>1, <2>2, <2>3 DEF StatusAdvancesStep
<1>4. ASSUME NEW w \in Waiters, WaitPersist(w) PROVE StatusAdvancesStep
  BY <1>4, SameStatus DEF WaitPersist, TypeInv, Row
<1>5. ASSUME NEW w \in Waiters, WaitDeliver(w) PROVE StatusAdvancesStep
  <2> DEFINE o == waiter[w].req
             s == Outcome(waiter[w].event.kind)
  <2>1. o \in Requests /\ waiter[w].event \in Events
    BY <1>5 DEF WaitDeliver, WaiterAt, TypeInv, WaiterCall, CallOf
  <2>2. s \in Terminal
    BY <2>1 DEF Events, Kinds, Outcome, Terminal
  <2>3. row' = [row EXCEPT ![o].status = s]
    BY <1>5 DEF WaitDeliver
  <2>4. row[o].status \in Statuses
    BY <2>1 DEF TypeInv, Row
  <2> HIDE DEF o, s
  <2>5. s \in Statuses
    BY <2>2 DEF Statuses
  <2>6. Stage(s) = 3 /\ Stage(row[o].status) \in 0 .. 3
    BY <2>2, <2>4, <2>5, StageBounds
  <2>7. Stage(s) >= Stage(row[o].status)
    BY <2>6
  <2> QED
    BY <2>1, <2>3, <2>5, <2>7, NextStatus
<1>6. ASSUME NEW w \in Waiters, WaitMark(w), row' # row PROVE StatusAdvancesStep
  <2> DEFINE o == waiter[w].req
  <2>1. o \in Requests /\ row[o].status \in Statuses \ Terminal
    BY <1>6 DEF WaitMark, WaiterAt, TypeInv, WaiterCall, CallOf, Row
  <2>2. Stage("unknown") = 2
    BY DEF Stage, Terminal
  <2>3. Stage(row[o].status) \in 0 .. 2
    BY <2>1, StageBounds
  <2> QED
    BY <1>6, <2>1, <2>2, <2>3, NextStatus DEF WaitMark, Statuses
<1>7. ASSUME NEW c \in Reconcilers, ReconWrite(c) PROVE StatusAdvancesStep
  <2> DEFINE o == recon[c].req
  <2>1. o \in Requests
    BY <1>7 DEF ReconWrite, ReconAt, TypeInv, ReconCall, CallOf
  <2>2. row' = [row EXCEPT ![o].status = "reconciled"]
    BY <1>7 DEF ReconWrite
  <2>3. row[o].status \in Statuses
    BY <2>1 DEF TypeInv, Row
  <2>4. "reconciled" \in Terminal /\ "reconciled" \in Statuses
    BY DEF Statuses, Terminal
  <2> HIDE DEF o
  <2>5. Stage("reconciled") >= Stage(row[o].status)
    BY <2>3, <2>4, StageBounds
  <2> QED
    BY <2>1, <2>2, <2>4, <2>5, NextStatus
<1>8. ASSUME NEW p \in Prompters, PromptStep(p) PROVE StatusAdvancesStep
  BY <1>1, <1>2, <1>3, <1>8 DEF PromptStep, PromptCapture, PromptReplay, PromptSubmit, PromptReply,
     PromptNotAccepted, PromptAsk, PromptCursor, PromptGeneration, PromptLocal
<1>9. ASSUME NEW w \in Waiters, WaiterStep(w) PROVE StatusAdvancesStep
  BY <1>1, <1>4, <1>5, <1>6, <1>9 DEF WaiterStep, WaitStart, WaitCheck, WaitReprove, WaitRecursor,
     WaitHealth, WaitCandidate, WaitExpires, WaitAdmit, WaitAsk, WaitExpired, WaitDecide,
     WaiterGoes, WaiterMoves
<1>10. ASSUME NEW c \in Reconcilers, ReconStep(c) PROVE StatusAdvancesStep
  BY <1>1, <1>7, <1>10 DEF ReconStep, ReconStart, ReconOpen, ReconHistory
<1>11. CASE GatewayMoves \/ LinkMoves \/ LinkDrops \/ LinkOpens \/ GatewayRestarts \/ SessionOpen
            \/ Crash \/ UNCHANGED vars
  BY <1>1, <1>11 DEF GatewayMoves, LinkMoves, LinkDrops, LinkOpens, GatewayRestarts, SessionOpen,
     Crash, vars
<1> QED
  BY <1>8, <1>9, <1>10, <1>11 DEF Next

(***************************************************************************)
(* Once the submitting call has returned, no wait, reconcile, race or      *)
(* restart reopens a request or takes a terminal outcome back.             *)
(***************************************************************************)
THEOREM StatusesOnlyAdvance == Spec => StatusOnlyAdvances
BY NextStatusAdvances, TypesAlwaysHold, PTL DEF Spec, StatusOnlyAdvances, StatusAdvancesStep

-----------------------------------------------------------------------------
(* A reconciled request is in the durable history.  The inductive          *)
(* invariant follows a reconciliation from the record it read to the row   *)
(* it found: the record's boundary does not change any more, and the       *)
(* durable history only grows.                                             *)

\* The history has r's own row, or one with its text after the boundary.
InHistory(r, boundary) ==
  \E i \in 1 .. Len(hist) : hist[i] = r \/ (i > boundary /\ Text[hist[i]] = Text[r])

ReconciledFollowsHistory ==
  /\ \A r \in Requests : row[r].status = "reconciled" => InHistory(r, row[r].boundary)
  /\ \A c \in Reconcilers :
       /\ recon[c].pc # "idle" => /\ row[recon[c].req].status # "absent"
                                  /\ recon[c].boundary = row[recon[c].req].boundary
       /\ recon[c].pc = "write" => InHistory(recon[c].req, recon[c].boundary)

\* What every step but those of live_reconcile does.
HistoryGrows ==
  /\ Len(hist) <= Len(hist')
  /\ \A i \in 1 .. Len(hist) : hist'[i] = hist[i]

BoundariesKept ==
  \A r \in Requests : row[r].status # "absent" =>
    row'[r].status # "absent" /\ row'[r].boundary = row[r].boundary

NobodyElseReconciles ==
  \A r \in Requests : row'[r].status = "reconciled" => row[r].status = "reconciled"

LEMMA InHistoryStays ==
  ASSUME GatewayTypeOK, GatewayTypeOK', HistoryGrows, NEW r, NEW b, InHistory(r, b)
  PROVE  InHistory(r, b)'
<1>1. Len(hist) \in Nat /\ Len(hist') \in Nat
  BY LenProperties DEF GatewayTypeOK
<1> QED
  BY <1>1 DEF InHistory, HistoryGrows

-----------------------------------------------------------------------------
(* The history only grows.                                                 *)

LEMMA AppendGrows ==
  ASSUME GatewayTypeOK, NEW t \in Turns, hist' = Append(hist, t)
  PROVE  HistoryGrows
BY AppendProperties, LenProperties DEF GatewayTypeOK, HistoryGrows

LEMMA SameHistory ==
  ASSUME GatewayTypeOK, hist' = hist
  PROVE  HistoryGrows
BY LenProperties DEF GatewayTypeOK, HistoryGrows

LEMMA AdmitGrows ==
  ASSUME GatewayTypeOK, NEW t \in Turns, Admit(t)
  PROVE  HistoryGrows
<1>1. CASE hist' = hist
  BY <1>1, SameHistory
<1>2. CASE hist' = Append(hist, t)
  BY <1>2, AppendGrows
<1> QED
  BY <1>1, <1>2 DEF Admit, Begin

LEMMA GatewayStepGrows ==
  ASSUME GatewayTypeOK, GatewayStep
  PROVE  HistoryGrows
<1>1. ASSUME NEW t \in Foreign, ForeignSubmit(t) PROVE HistoryGrows
  BY <1>1, AdmitGrows DEF ForeignSubmit, Turns
<1>2. CASE StartQueued
  <2>1. Head(queue) \in Turns
    BY <1>2, HeadTailProperties DEF StartQueued, GatewayTypeOK
  <2> QED
    BY <1>2, <2>1, AppendGrows DEF StartQueued, Begin
<1>3. CASE ClearInflight \/ FailTurn \/ EmitFailure \/ ForgetFailure
           \/ \E kind \in Outcomes \ {"error"} : EmitCompletion(kind)
  BY <1>3, SameHistory DEF ClearInflight, FailTurn, EmitFailure, ForgetFailure, EmitCompletion
<1> QED
  BY <1>1, <1>2, <1>3 DEF GatewayStep

LEMMA NextHistoryGrows ==
  ASSUME TypeInv, [Next]_vars
  PROVE  HistoryGrows
<1>1. GatewayTypeOK
  BY DEF TypeInv, GatewayInv
<1>2. ASSUME NEW p \in Prompters, PromptSubmit(p) PROVE HistoryGrows
  <2>1. prompt[p].req \in Turns
    BY <1>2 DEF PromptSubmit, PromptAt, TypeInv, PromptCall, CallOf, Turns
  <2> QED
    BY <1>1, <1>2, <2>1, AdmitGrows DEF PromptSubmit
<1>3. ASSUME NEW p \in Prompters, PromptStep(p), ~PromptSubmit(p) PROVE HistoryGrows
  BY <1>1, <1>3, SameHistory DEF PromptStep, PromptCapture, PromptReserve, PromptReplay,
     PromptReply, PromptNotAccepted, PromptAsk, PromptCursor, PromptGeneration, PromptAck,
     PromptError, PromptLocal, gatewayVars
<1>4. ASSUME NEW w \in Waiters, WaiterStep(w) PROVE HistoryGrows
  BY <1>1, <1>4, SameHistory DEF WaiterStep, WaitStart, WaitCheck, WaitReprove, WaitRecursor,
     WaitPersist, WaitHealth, WaitCandidate, WaitExpires, WaitAdmit, WaitAsk, WaitExpired,
     WaitDecide, WaitDeliver, WaitMark, WaiterGoes, WaiterMoves, WaiterFrame, gatewayVars
<1>5. ASSUME NEW c \in Reconcilers, ReconStep(c) PROVE HistoryGrows
  BY <1>1, <1>5, SameHistory DEF ReconStep, ReconStart, ReconOpen, ReconHistory, ReconWrite,
     Resume, gatewayVars
<1>6. CASE GatewayMoves
  BY <1>1, <1>6, GatewayStepGrows DEF GatewayMoves
<1>7. CASE LinkMoves \/ LinkDrops \/ LinkOpens \/ GatewayRestarts \/ SessionOpen \/ Crash
           \/ UNCHANGED vars
  BY <1>1, <1>7, SameHistory DEF LinkMoves, LinkDrops, LinkOpens, GatewayRestarts, GatewayDies,
     SessionOpen, Resume, Crash, vars, gatewayVars
<1> QED
  BY <1>2, <1>3, <1>4, <1>5, <1>6, <1>7 DEF Next

-----------------------------------------------------------------------------
(* Nobody else touches a boundary or reconciles.                           *)

LEMMA PromptStepKeeps ==
  ASSUME TypeInv, NEW p \in Prompters, PromptStep(p)
  PROVE  BoundariesKept /\ NobodyElseReconciles
<1> USE DEF BoundariesKept, NobodyElseReconciles
<1>1. CASE row' = row
  BY <1>1
<1>2. CASE PromptReserve(p)
  BY <1>2 DEF PromptReserve, TypeInv, Row, AbsentRow
<1>3. CASE PromptAck(p)
  <2>1. prompt[p].ack \notin {"absent", "reconciled"}
    BY DEF TypeInv, PromptCall, CallOf, Prompt
  <2> QED
    BY <1>3, <2>1 DEF PromptAck, TypeInv, Row
<1>4. CASE PromptError(p)
  BY <1>4 DEF PromptError, TypeInv, Row
<1> QED
  BY <1>1, <1>2, <1>3, <1>4 DEF PromptStep, PromptCapture, PromptReplay, PromptSubmit, PromptReply,
     PromptNotAccepted, PromptAsk, PromptCursor, PromptGeneration, PromptLocal

LEMMA WaiterStepKeeps ==
  ASSUME TypeInv, NEW w \in Waiters, WaiterStep(w)
  PROVE  BoundariesKept /\ NobodyElseReconciles
<1> USE DEF BoundariesKept, NobodyElseReconciles
<1>1. CASE row' = row
  BY <1>1
<1>2. CASE WaitPersist(w)
  BY <1>2 DEF WaitPersist, TypeInv, Row
<1>3. CASE WaitDeliver(w)
  <2>1. Outcome(waiter[w].event.kind) \notin {"absent", "reconciled"}
    BY <1>3 DEF WaitDeliver, WaiterAt, TypeInv, WaiterCall, Events, Kinds, Outcome
  <2> QED
    BY <1>3, <2>1 DEF WaitDeliver, TypeInv, Row
<1>4. CASE WaitMark(w)
  BY <1>4 DEF WaitMark, TypeInv, Row
<1> QED
  BY <1>1, <1>2, <1>3, <1>4 DEF WaiterStep, WaitStart, WaitCheck, WaitReprove, WaitRecursor,
     WaitHealth, WaitCandidate, WaitExpires, WaitAdmit, WaitAsk, WaitExpired, WaitDecide,
     WaiterGoes, WaiterMoves

-----------------------------------------------------------------------------
(* Preservation.                                                           *)

LEMMA ElsewhereKeeps ==
  ASSUME TypeInv, TypeInv', ReconciledFollowsHistory, HistoryGrows, BoundariesKept,
         NobodyElseReconciles, \A c \in Reconcilers : recon'[c] = recon[c] \/ recon'[c] = IdleRecon
  PROVE  ReconciledFollowsHistory'
<1>1. GatewayTypeOK /\ GatewayTypeOK'
  BY DEF TypeInv, GatewayInv
<1>2. (\A r \in Requests : row[r].status = "reconciled" => InHistory(r, row[r].boundary))'
  BY <1>1, InHistoryStays DEF ReconciledFollowsHistory, BoundariesKept, NobodyElseReconciles
<1>3. ASSUME NEW c \in Reconcilers, recon'[c].pc # "idle"
      PROVE  recon'[c] = recon[c] /\ recon[c].req \in Requests
  BY <1>3 DEF IdleRecon, TypeInv, ReconCall, CallOf
<1>4. (\A c \in Reconcilers :
         /\ recon[c].pc # "idle" => /\ row[recon[c].req].status # "absent"
                                    /\ recon[c].boundary = row[recon[c].req].boundary
         /\ recon[c].pc = "write" => InHistory(recon[c].req, recon[c].boundary))'
  BY <1>1, <1>3, InHistoryStays DEF ReconciledFollowsHistory, BoundariesKept
<1> QED
  BY <1>2, <1>4 DEF ReconciledFollowsHistory

LEMMA ReconStepFollowsHistory ==
  ASSUME TypeInv, ReconciledFollowsHistory, HistoryGrows, NEW c \in Reconcilers, ReconStep(c)
  PROVE  ReconciledFollowsHistory'
<1> DEFINE call == recon[c]
<1>1. hist' = hist /\ \A d \in Reconcilers \ {c} : recon'[d] = recon[d]
  BY DEF ReconStep, ReconStart, ReconOpen, ReconHistory, ReconWrite, ReconGoes, Resume, gatewayVars,
         TypeInv
<1>2. \A r, b : InHistory(r, b)' <=> InHistory(r, b)
  BY <1>1 DEF InHistory
<1>3. \A d \in Reconcilers : recon[d].pc # "idle" => recon[d].req \in Requests
  BY DEF TypeInv, ReconCall, CallOf
<1>4. ASSUME row' = row,
             recon'[c].pc # "idle" => /\ row[recon'[c].req].status # "absent"
                                      /\ recon'[c].boundary = row[recon'[c].req].boundary,
             recon'[c].pc = "write" => InHistory(recon'[c].req, recon'[c].boundary)
      PROVE  ReconciledFollowsHistory'
  BY <1>1, <1>2, <1>4 DEF ReconciledFollowsHistory
<1>5. ASSUME NEW r \in Requests, ReconStart(c, r) PROVE ReconciledFollowsHistory'
  <2>1. recon'[c] = [pc |-> "open", req |-> r, boundary |-> row[r].boundary]
    BY <1>5 DEF ReconStart, ReconGoes, TypeInv
  <2> QED
    BY <1>4, <1>5, <2>1 DEF ReconStart
<1>6. CASE ReconOpen(c)
  <2>1. recon'[c] = [call EXCEPT !.pc = "history"] \/ recon'[c] = IdleRecon
    BY <1>6 DEF ReconOpen, ReconGoes, TypeInv
  <2>2. recon'[c].pc # "write"
        /\ (recon'[c].pc # "idle" => recon'[c].req = call.req /\ recon'[c].boundary = call.boundary)
    BY <2>1 DEF IdleRecon, TypeInv, ReconCall, CallOf, Recon
  <2> QED
    BY <1>4, <1>6, <2>2 DEF ReconOpen, ReconAt, ReconciledFollowsHistory
<1>7. CASE ReconHistory(c)
  <2> DEFINE proven == call.boundary # NoBoundary
                       /\ \E i \in MatchingRows(call.req, call.boundary) :
                            MatchingRows(call.req, call.boundary) = {i}
  <2>1. (proven /\ recon'[c] = [call EXCEPT !.pc = "write"]) \/ recon'[c] = IdleRecon
    BY <1>7 DEF ReconHistory, ReconGoes, TypeInv
  <2>2. proven => InHistory(call.req, call.boundary)
    BY DEF MatchingRows, InHistory
  <2> HIDE DEF proven
  <2>3. recon'[c].pc # "idle" =>
          proven /\ recon'[c].req = call.req /\ recon'[c].boundary = call.boundary
    BY <2>1 DEF IdleRecon, TypeInv, ReconCall, CallOf, Recon
  <2> QED
    BY <1>4, <1>7, <2>2, <2>3 DEF ReconHistory, ReconAt, ReconciledFollowsHistory
<1>8. CASE ReconWrite(c)
  <2>1. call.req \in Requests /\ InHistory(call.req, row[call.req].boundary)
    BY <1>3, <1>8 DEF ReconWrite, ReconAt, ReconciledFollowsHistory
  <2>2. recon'[c] = IdleRecon
    BY <1>8 DEF ReconWrite, ReconGoes, TypeInv
  <2>3. \A r \in Requests : /\ row'[r].boundary = row[r].boundary
                            /\ row[r].status # "absent" => row'[r].status # "absent"
                            /\ row'[r].status = "reconciled" =>
                                 row[r].status = "reconciled" \/ r = call.req
    BY <1>8 DEF ReconWrite, TypeInv, Row
  <2> QED
    BY <1>1, <1>2, <1>3, <2>1, <2>2, <2>3 DEF ReconciledFollowsHistory, IdleRecon
<1> QED
  BY <1>5, <1>6, <1>7, <1>8 DEF ReconStep

LEMMA NextFollowsHistory ==
  TypeInv /\ TypeInv' /\ ReconciledFollowsHistory /\ [Next]_vars => ReconciledFollowsHistory'
<1> SUFFICES ASSUME TypeInv, TypeInv', ReconciledFollowsHistory, [Next]_vars
             PROVE  ReconciledFollowsHistory'
  OBVIOUS
<1>1. HistoryGrows
  BY NextHistoryGrows
<1>2. ASSUME NEW p \in Prompters, PromptStep(p) PROVE ReconciledFollowsHistory'
  <2>1. UNCHANGED recon
    BY <1>2 DEF PromptStep, PromptCapture, PromptReserve, PromptReplay, PromptSubmit, PromptReply,
       PromptNotAccepted, PromptAsk, PromptCursor, PromptGeneration, PromptAck, PromptError,
       PromptLocal, PromptFrame
  <2> QED
    BY <1>1, <1>2, <2>1, PromptStepKeeps, ElsewhereKeeps
<1>3. ASSUME NEW w \in Waiters, WaiterStep(w) PROVE ReconciledFollowsHistory'
  <2>1. UNCHANGED recon
    BY <1>3 DEF WaiterStep, WaitStart, WaitCheck, WaitReprove, WaitRecursor, WaitPersist,
       WaitHealth, WaitCandidate, WaitExpires, WaitAdmit, WaitAsk, WaitExpired, WaitDecide,
       WaitDeliver, WaitMark, WaiterGoes, WaiterMoves, WaiterFrame
  <2> QED
    BY <1>1, <1>3, <2>1, WaiterStepKeeps, ElsewhereKeeps
<1>4. ASSUME NEW c \in Reconcilers, ReconStep(c) PROVE ReconciledFollowsHistory'
  BY <1>1, <1>4, ReconStepFollowsHistory
<1>5. CASE GatewayMoves \/ LinkMoves \/ LinkDrops \/ LinkOpens \/ GatewayRestarts \/ SessionOpen
           \/ Crash \/ UNCHANGED vars
  <2>1. UNCHANGED row /\ \A c \in Reconcilers : recon'[c] = recon[c] \/ recon'[c] = IdleRecon
    BY <1>5 DEF GatewayMoves, LinkMoves, LinkDrops, LinkOpens, GatewayRestarts, SessionOpen, Crash,
       vars, callVars
  <2> QED
    BY <1>1, <2>1, ElsewhereKeeps DEF BoundariesKept, NobodyElseReconciles
<1> QED
  BY <1>2, <1>3, <1>4, <1>5 DEF Next

(***************************************************************************)
(* live_reconcile reports a request as reconciled only if the durable      *)
(* history has it - or has another prompt with the very same text after    *)
(* the boundary, which the evidence cannot tell apart.                     *)
(***************************************************************************)
THEOREM ReconciledRequestIsDurable == Spec => []ReconciledIsDurable
<1>1. Init => ReconciledFollowsHistory
  BY DEF Init, ReconciledFollowsHistory, AbsentRow, IdleRecon
<1>2. ReconciledFollowsHistory => ReconciledIsDurable
  BY DEF ReconciledFollowsHistory, ReconciledIsDurable, InHistory
<1> QED
  BY <1>1, <1>2, NextFollowsHistory, TypesAlwaysHold, PTL DEF Spec
=============================================================================
