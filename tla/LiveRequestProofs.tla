--------------------------- MODULE LiveRequestProofs ---------------------------
(***************************************************************************)
(* LiveTurn implements LiveRequest.                                        *)
(*                                                                         *)
(* The inductive invariant says who is at work on a request: at most one   *)
(* submitting call, which alone decides whether the prompt was accepted    *)
(* and whether the row is claimed, and waits that go on only where the row *)
(* is claimed - and with it the prompt accepted and its call over.         *)
(***************************************************************************)
EXTENDS LiveTurnProofs

InHand(p) == prompt[p].pc \notin {"idle", "reserve"}

\* The program counters at which the prompt is known not to have been
\* accepted, or to have been.
Unsent == {"submit", "failed"}
Acknowledged == {"sent", "prove", "cursor", "generation", "ack"}

OneHand ==
  \A p, q \in Prompters : InHand(p) /\ InHand(q) /\ prompt[p].req = prompt[q].req => p = q

HandsMatch ==
  \A p \in Prompters : InHand(p) =>
    /\ row[prompt[p].req].status # "absent"
    /\ ~row[prompt[p].req].claimed
    /\ prompt[p].pc \in Unsent => submits[prompt[p].req] = 0
    /\ prompt[p].pc \in Acknowledged => submits[prompt[p].req] = 1

RowsMatch ==
  \A r \in Requests :
    /\ submits[r] \in {0, 1}
    /\ row[r].status = "absent" => submits[r] = 0 /\ ~row[r].claimed
    /\ row[r].claimed => submits[r] = 1

WaitsMatch ==
  \A w \in Waiters : waiter[w].pc # "idle" =>
    /\ row[waiter[w].req].status # "absent"
    /\ waiter[w].pc # "mark" => row[waiter[w].req].claimed

HandsInv == OneHand /\ HandsMatch /\ RowsMatch /\ WaitsMatch

\* A request whose row is absent or claimed is in nobody's hand.
LEMMA HandsFree ==
  ASSUME HandsInv, NEW r \in Requests, row[r].status = "absent" \/ row[r].claimed
  PROVE  ~SubmitterActive(r)
BY DEF HandsInv, HandsMatch, InHand, SubmitterActive

-----------------------------------------------------------------------------
(* When nothing LiveRequest speaks of changes.                             *)

SameHands == \A r \in Requests : SubmitterActive(r)' <=> SubmitterActive(r)

SameRecoveries == \A r \in Requests : Reconciling(r)' <=> Reconciling(r)

SameStages == \A r \in Requests : StageOf(row'[r].status) = StageOf(row[r].status)

LEMMA Stutters ==
  ASSUME SameStages, SameHands, SameRecoveries, submits' = submits
  PROVE  UNCHANGED Promised!vars
BY DEF SameStages, SameHands, SameRecoveries, Promised!vars

\* The row of one request gets another status.
LEMMA OneStage ==
  ASSUME TypeInv, NEW o \in Requests, \A r \in Requests \ {o} : row'[r].status = row[r].status
  PROVE  [r \in Requests |-> StageOf(row'[r].status)]
           = [[r \in Requests |-> StageOf(row[r].status)] EXCEPT ![o] = StageOf(row'[o].status)]
OBVIOUS

LEMMA StageValues ==
  /\ StageOf("absent") = "none"
  /\ StageOf("pending") = "open" /\ StageOf("streaming") = "open" /\ StageOf("queued") = "open"
  /\ StageOf("unknown") = "recovery"
  /\ \A s \in Terminal : StageOf(s) = "over"
  /\ \A s \in Statuses : StageOf(s) = "none" <=> s = "absent"
BY DEF StageOf, Terminal, Statuses

-----------------------------------------------------------------------------
(* live_prompt.                                                            *)

LEMMA Handled ==
  ASSUME TypeInv, NEW p \in Prompters
  PROVE  prompt[p] \in Prompt /\ (prompt[p].pc # "idle" => prompt[p].req \in Requests)
BY DEF TypeInv, PromptCall, CallOf

\* A call that is not in hand, before or after, or stays in hand of its request.
LEMMA HandStays ==
  ASSUME TypeInv, HandsInv, NEW p \in Prompters,
         \A q \in Prompters \ {p} : prompt'[q] = prompt[q],
         UNCHANGED <<row, submits, waiter>>,
         \/ ~InHand(p) /\ prompt'[p].pc \in {"idle", "reserve"}
         \/ /\ InHand(p)
            /\ prompt'[p].pc \notin {"idle", "reserve"}
            /\ prompt'[p].req = prompt[p].req
            /\ prompt'[p].pc \in Unsent => prompt[p].pc \in Unsent
            /\ prompt'[p].pc \in Acknowledged => prompt[p].pc \in Acknowledged
  PROVE  HandsInv' /\ SameHands
<1>1. \A q \in Prompters : /\ InHand(q)' <=> InHand(q)
                           /\ InHand(q) => prompt'[q].req = prompt[q].req
  BY DEF InHand
<1>2. SameHands
  BY <1>1 DEF SameHands, SubmitterActive, InHand
<1>3. OneHand'
  BY <1>1 DEF HandsInv, OneHand
<1>4. HandsMatch'
  <2> SUFFICES ASSUME NEW q \in Prompters, InHand(q)'
               PROVE  /\ row[prompt'[q].req].status # "absent"
                      /\ ~row[prompt'[q].req].claimed
                      /\ prompt'[q].pc \in Unsent => submits[prompt'[q].req] = 0
                      /\ prompt'[q].pc \in Acknowledged => submits[prompt'[q].req] = 1
    BY DEF HandsMatch
  <2>1. InHand(q) /\ prompt'[q].req = prompt[q].req
    BY <1>1
  <2> QED
    BY <2>1 DEF HandsInv, HandsMatch
<1> QED
  BY <1>2, <1>3, <1>4 DEF HandsInv, RowsMatch, WaitsMatch

\* The call lets go of its request; nobody else has it.
LEMMA HandLeaves ==
  ASSUME TypeInv, HandsInv, NEW p \in Prompters, NEW o \in Requests,
         InHand(p), prompt[p].req = o,
         \A q \in Prompters \ {p} : prompt'[q] = prompt[q],
         prompt'[p].pc = "idle"
  PROVE  /\ \A q \in Prompters : InHand(q)' => q # p /\ InHand(q) /\ prompt[q].req # o
         /\ {r \in Requests : SubmitterActive(r)'} = {r \in Requests : SubmitterActive(r)} \ {o}
<1>1. \A q \in Prompters : InHand(q)' => q # p /\ InHand(q) /\ prompt[q].req # o
  BY DEF InHand, HandsInv, OneHand
<1>2. ASSUME NEW r \in Requests, r # o PROVE SubmitterActive(r)' <=> SubmitterActive(r)
  BY <1>2 DEF SubmitterActive
<1>3. ~SubmitterActive(o)'
  BY <1>1 DEF SubmitterActive, InHand
<1> QED
  BY <1>1, <1>2, <1>3

LEMMA ReserveStep ==
  ASSUME TypeInv, HandsInv, NEW p \in Prompters, PromptReserve(p)
  PROVE  HandsInv' /\ Promised!Next
<1> PICK o \in Requests : o = prompt[p].req
  BY Handled DEF PromptReserve, PromptAt
<1>1. row[o].status = "absent" /\ prompt[p].pc = "reserve" /\ prompt[p] \in Prompt
  BY Handled DEF PromptReserve, PromptAt
<1>2. row'[o].status = "pending" /\ ~row'[o].claimed /\ (\A r \in Requests \ {o} : row'[r] = row[r])
  BY <1>1 DEF PromptReserve, TypeInv, AbsentRow
<1>3. prompt'[p].pc = "submit" /\ prompt'[p].req = o
  BY <1>1 DEF PromptReserve, TypeInv, Prompt
<1>4. \A q \in Prompters \ {p} : prompt'[q] = prompt[q]
  BY DEF PromptReserve, TypeInv
<1>5. UNCHANGED <<submits, waiter, recon>> /\ submits[o] = 0
  BY <1>1 DEF PromptReserve, PromptFrame, HandsInv, RowsMatch
<1>6. ~SubmitterActive(o)
  BY <1>1, HandsFree
<1>7. \A q \in Prompters \ {p} : InHand(q) => prompt[q].req \in Requests \ {o}
  BY <1>6, Handled DEF InHand, SubmitterActive
<1>8. HandsInv'
  <2>1. OneHand'
    BY <1>3, <1>4, <1>7 DEF HandsInv, OneHand, InHand
  <2>2. HandsMatch'
    BY <1>1, <1>2, <1>3, <1>4, <1>5, <1>7 DEF HandsInv, HandsMatch, InHand, Unsent, Acknowledged
  <2>3. RowsMatch'
    BY <1>1, <1>2, <1>5 DEF HandsInv, RowsMatch
  <2>4. WaitsMatch'
    <3>1. \A w \in Waiters : waiter[w].pc # "idle" => waiter[w].req \in Requests \ {o}
      BY <1>1 DEF HandsInv, WaitsMatch, TypeInv, WaiterCall, CallOf
    <3> QED
      BY <1>2, <1>5, <3>1 DEF HandsInv, WaitsMatch
  <2> QED
    BY <2>1, <2>2, <2>3, <2>4 DEF HandsInv
<1>9. {r \in Requests : SubmitterActive(r)'} = {r \in Requests : SubmitterActive(r)} \cup {o}
  <2>1. ASSUME NEW r \in Requests, r # o PROVE SubmitterActive(r)' <=> SubmitterActive(r)
    BY <1>1, <1>3, <1>4, <2>1 DEF SubmitterActive
  <2>2. SubmitterActive(o)'
    BY <1>3 DEF SubmitterActive
  <2> QED
    BY <1>1, <2>1, <2>2
<1>10. SameRecoveries
  BY <1>5 DEF SameRecoveries, Reconciling
<1>11. Promised!Reserve(o)
  <2>1. [r \in Requests |-> StageOf(row'[r].status)]
          = [[r \in Requests |-> StageOf(row[r].status)] EXCEPT ![o] = "open"]
    BY <1>1, <1>2, OneStage, StageValues
  <2> QED
    BY <1>1, <1>5, <1>9, <1>10, <2>1, StageValues
    DEF Promised!Reserve, Promised!Becomes, SameRecoveries
<1> QED
  BY <1>1, <1>8, <1>11 DEF Promised!Next

\* The steps between the reservation and the last write, but for the submit.
LEMMA QuietPromptStep ==
  ASSUME TypeInv, HandsInv, NEW p \in Prompters,
         \/ \E r \in Requests : PromptCapture(p, r)
         \/ PromptReplay(p) \/ PromptReply(p) \/ PromptNotAccepted(p) \/ PromptAsk(p)
         \/ PromptCursor(p) \/ PromptGeneration(p)
  PROVE  HandsInv' /\ UNCHANGED Promised!vars
<1> DEFINE c == prompt[p]
<1>1. c \in Prompt
  BY Handled
<1>2. UNCHANGED <<row, submits, waiter, recon>> /\ \A q \in Prompters \ {p} : prompt'[q] = prompt[q]
  BY DEF PromptCapture, PromptReplay, PromptReply, PromptNotAccepted, PromptAsk, PromptCursor,
         PromptGeneration, PromptLocal, PromptFrame, TypeInv
<1>3. \/ ~InHand(p) /\ prompt'[p].pc \in {"idle", "reserve"}
      \/ /\ InHand(p)
         /\ prompt'[p].pc \notin {"idle", "reserve"}
         /\ prompt'[p].req = prompt[p].req
         /\ prompt'[p].pc \in Unsent => prompt[p].pc \in Unsent
         /\ prompt'[p].pc \in Acknowledged => prompt[p].pc \in Acknowledged
  <2> USE DEF InHand, PromptAt, Unsent, Acknowledged
  <2>1. ASSUME NEW r \in Requests, PromptCapture(p, r)
             PROVE  ~InHand(p) /\ prompt'[p].pc = "reserve"
    BY <2>1 DEF PromptCapture, TypeInv, IdlePrompt
  <2>2. CASE PromptReplay(p)
    BY <2>2 DEF PromptReplay, TypeInv, IdlePrompt
  <2>3. CASE PromptReply(p)
    BY <1>1, <2>3 DEF PromptReply, TypeInv, Prompt
  <2>4. CASE PromptNotAccepted(p) \/ PromptAsk(p)
    BY <1>1, <2>4 DEF PromptNotAccepted, PromptAsk, TypeInv, Prompt
  <2>5. CASE PromptCursor(p)
    <3> DEFINE proves == Owns(c.snapshot, c.req) /\ epoch # 0
               pc == IF proves THEN "generation" ELSE "ack"
               proof == IF proves THEN CursorProof(c.req) ELSE NoProof
    <3>1. prompt' = [prompt EXCEPT ![p] = [c EXCEPT !.pc = pc, !.snapshot = NoSnapshot, !.proof = proof]]
      BY <2>5 DEF PromptCursor
    <3>2. pc \in {"generation", "ack"} /\ c.pc = "cursor"
      BY <2>5 DEF PromptCursor
    <3> HIDE DEF proves, pc, proof
    <3>3. prompt'[p].pc = pc /\ prompt'[p].req = c.req
      BY <1>1, <3>1 DEF TypeInv, Prompt
    <3> QED
      BY <3>2, <3>3
  <2>6. CASE PromptGeneration(p)
    BY <1>1, <2>6 DEF PromptGeneration, TypeInv, Prompt
  <2> QED
    BY <2>1, <2>2, <2>3, <2>4, <2>5, <2>6
<1>4. HandsInv' /\ SameHands
  BY <1>2, <1>3, HandStays
<1>5. SameStages /\ SameRecoveries
  BY <1>2 DEF SameStages, SameRecoveries, Reconciling
<1> QED
  BY <1>2, <1>4, <1>5, Stutters

LEMMA SubmitStep ==
  ASSUME TypeInv, HandsInv, NEW p \in Prompters, PromptSubmit(p)
  PROVE  HandsInv' /\ Promised!Next
<1> PICK o \in Requests : o = prompt[p].req
  BY Handled DEF PromptSubmit, PromptAt
<1>1. prompt[p] \in Prompt /\ prompt[p].pc = "submit" /\ InHand(p)
  BY Handled DEF PromptSubmit, PromptAt, InHand
<1>2. submits[o] = 0 /\ row[o].status # "absent" /\ ~row[o].claimed
  BY <1>1 DEF HandsInv, HandsMatch, Unsent
<1>3. UNCHANGED <<row, waiter, recon>> /\ \A q \in Prompters \ {p} : prompt'[q] = prompt[q]
  BY DEF PromptSubmit, PromptFrame, TypeInv
<1>4. submits' = [submits EXCEPT ![o] = 1]
  BY <1>2 DEF PromptSubmit, TypeInv
<1>5. prompt'[p].pc = "sent" /\ prompt'[p].req = o
  BY <1>1 DEF PromptSubmit, TypeInv, Prompt
<1>6. \A q \in Prompters \ {p} : InHand(q) => prompt[q].req \in Requests \ {o}
  BY <1>1, Handled DEF HandsInv, OneHand, InHand
<1>7. HandsInv'
  <2>1. OneHand'
    BY <1>1, <1>3, <1>5 DEF HandsInv, OneHand, InHand
  <2>2. HandsMatch'
    BY <1>2, <1>3, <1>4, <1>5, <1>6 DEF HandsInv, HandsMatch, InHand, Unsent, Acknowledged, TypeInv
  <2>3. RowsMatch'
    BY <1>2, <1>3, <1>4 DEF HandsInv, RowsMatch, TypeInv
  <2> QED
    BY <1>3, <2>1, <2>2, <2>3 DEF HandsInv, WaitsMatch
<1>8. SameHands
  <2>1. \A q \in Prompters : /\ InHand(q)' <=> InHand(q)
                             /\ prompt'[q].req = prompt[q].req
    BY <1>1, <1>3, <1>5 DEF InHand
  <2> QED
    BY <2>1 DEF SameHands, SubmitterActive, InHand
<1>9. SameStages /\ SameRecoveries
  BY <1>3 DEF SameStages, SameRecoveries, Reconciling
<1>10. SubmitterActive(o)
  BY <1>1 DEF SubmitterActive, InHand
<1>11. Promised!Submit(o)
  BY <1>2, <1>4, <1>8, <1>9, <1>10 DEF Promised!Submit, SameHands, SameStages, SameRecoveries
<1> QED
  BY <1>7, <1>11 DEF Promised!Next

\* The last write of the submitting call.
LEMMA ReportStep ==
  ASSUME TypeInv, HandsInv, NEW p \in Prompters, PromptAck(p) \/ PromptError(p)
  PROVE  HandsInv' /\ Promised!Next
<1> PICK o \in Requests : o = prompt[p].req
  BY Handled DEF PromptAck, PromptError, PromptAt
<1> DEFINE s == row'[o].status
<1>1. /\ prompt[p] \in Prompt /\ prompt[p].pc \in {"ack", "failed", "unknown"} /\ InHand(p)
      /\ PromptAck(p) => prompt[p].pc = "ack" /\ prompt[p].ack \in {"streaming", "queued"}
  BY Handled DEF PromptAck, PromptError, PromptAt, InHand, TypeInv, PromptCall, CallOf, Prompt
<1>2. UNCHANGED <<submits, waiter, recon>> /\ \A q \in Prompters \ {p} : prompt'[q] = prompt[q]
  BY DEF PromptAck, PromptError, PromptFrame, TypeInv
<1>3. prompt'[p].pc = "idle"
  BY DEF PromptAck, PromptError, TypeInv, IdlePrompt
<1>4. /\ \A r \in Requests \ {o} : row'[r] = row[r]
      /\ row'[o].claimed => prompt[p].pc = "ack"
      /\ \/ prompt[p].pc = "ack" /\ s \in {"streaming", "queued"}
         \/ prompt[p].pc = "failed" /\ s = "failed"
         \/ prompt[p].pc = "unknown" /\ s = "unknown"
  <2>1. ~row[o].claimed /\ row[o] \in Row
    BY <1>1 DEF HandsInv, HandsMatch, TypeInv
  <2>2. CASE PromptAck(p)
    BY <1>1, <2>1, <2>2 DEF PromptAck, TypeInv, Row
  <2>3. CASE PromptError(p)
    BY <1>1, <2>1, <2>3 DEF PromptError, TypeInv, Row
  <2> QED
    BY <2>2, <2>3
<1>5. /\ prompt[p].pc = "ack" => submits[o] = 1
      /\ prompt[p].pc = "failed" => submits[o] = 0
  BY <1>1 DEF HandsInv, HandsMatch, Unsent, Acknowledged
<1>6. /\ \A q \in Prompters : InHand(q)' => q # p /\ InHand(q) /\ prompt[q].req # o
      /\ {r \in Requests : SubmitterActive(r)'} = {r \in Requests : SubmitterActive(r)} \ {o}
  BY <1>1, <1>2, <1>3, HandLeaves
<1>7. HandsInv'
  <2>1. OneHand'
    BY <1>2, <1>6 DEF HandsInv, OneHand
  <2>2. HandsMatch'
    <3> SUFFICES ASSUME NEW q \in Prompters, InHand(q)'
                 PROVE  /\ row'[prompt'[q].req].status # "absent"
                        /\ ~row'[prompt'[q].req].claimed
                        /\ prompt'[q].pc \in Unsent => submits'[prompt'[q].req] = 0
                        /\ prompt'[q].pc \in Acknowledged => submits'[prompt'[q].req] = 1
      BY DEF HandsMatch
    <3>1. q # p /\ InHand(q) /\ prompt[q].req \in Requests \ {o} /\ prompt'[q] = prompt[q]
      BY <1>2, <1>6, Handled DEF InHand
    <3> QED
      BY <1>2, <1>4, <3>1 DEF HandsInv, HandsMatch
  <2>3. RowsMatch'
    BY <1>2, <1>4, <1>5 DEF HandsInv, RowsMatch
  <2>4. WaitsMatch'
    <3>1. ASSUME NEW w \in Waiters, waiter[w].pc # "idle"
          PROVE  waiter[w].req \in Requests /\ (waiter[w].req = o => waiter[w].pc = "mark")
      BY <1>1, <3>1 DEF HandsInv, HandsMatch, WaitsMatch, TypeInv, WaiterCall, CallOf
    <3> QED
      BY <1>2, <1>4, <3>1 DEF HandsInv, WaitsMatch
  <2> QED
    BY <2>1, <2>2, <2>3, <2>4 DEF HandsInv
<1>8. SameRecoveries
  BY <1>2 DEF SameRecoveries, Reconciling
<1>9. SubmitterActive(o)
  BY <1>1 DEF SubmitterActive, InHand
<1>10. Promised!Report(o)
  <2>1. [r \in Requests |-> StageOf(row'[r].status)]
          = [[r \in Requests |-> StageOf(row[r].status)] EXCEPT ![o] = StageOf(s)]
    BY <1>4, OneStage
  <2>2. StageOf(s) \in {"recovery", IF submits[o] = 1 THEN "open" ELSE "over"}
    BY <1>4, <1>5, StageValues DEF Terminal
  <2> HIDE DEF s
  <2> QED
    BY <1>2, <1>6, <1>8, <1>9, <2>1, <2>2
    DEF Promised!Report, Promised!Becomes, SameRecoveries
<1> QED
  BY <1>7, <1>10 DEF Promised!Next

LEMMA PromptStepKeepsPromise ==
  ASSUME TypeInv, HandsInv, NEW p \in Prompters, PromptStep(p)
  PROVE  HandsInv' /\ [Promised!Next]_(Promised!vars)
BY ReserveStep, QuietPromptStep, SubmitStep, ReportStep DEF PromptStep

-----------------------------------------------------------------------------
(* live_wait, live_reconcile and everything else.                          *)

\* Rows change without anybody taking up or leaving a request.
LEMMA RowChanges ==
  ASSUME TypeInv, HandsInv,
         \A p \in Prompters : /\ prompt'[p].pc = prompt[p].pc
                              /\ prompt'[p].req = prompt[p].req,
         submits' = submits,
         \A r \in Requests : /\ row'[r].claimed <=> row[r].claimed
                             /\ row'[r].status = "absent" => row[r].status = "absent"
  PROVE  SameHands /\ OneHand' /\ HandsMatch' /\ RowsMatch'
<1>1. \A p \in Prompters : InHand(p)' <=> InHand(p)
  BY DEF InHand
<1>2. HandsMatch'
  <2> SUFFICES ASSUME NEW q \in Prompters, InHand(q)'
               PROVE  /\ row'[prompt'[q].req].status # "absent"
                      /\ ~row'[prompt'[q].req].claimed
                      /\ prompt'[q].pc \in Unsent => submits'[prompt'[q].req] = 0
                      /\ prompt'[q].pc \in Acknowledged => submits'[prompt'[q].req] = 1
    BY DEF HandsMatch
  <2>1. InHand(q) /\ prompt[q].req \in Requests
    BY <1>1, Handled DEF InHand
  <2> QED
    BY <2>1 DEF HandsInv, HandsMatch
<1> QED
  BY <1>1, <1>2 DEF SameHands, SubmitterActive, InHand, HandsInv, OneHand, RowsMatch

LEMMA Waited ==
  ASSUME TypeInv, HandsInv, NEW w \in Waiters, waiter[w].pc # "idle"
  PROVE  /\ waiter[w].req \in Requests
         /\ row[waiter[w].req].status # "absent"
         /\ waiter[w].pc # "mark" => /\ row[waiter[w].req].claimed
                                     /\ submits[waiter[w].req] = 1
                                     /\ ~SubmitterActive(waiter[w].req)
<1>1. waiter[w].req \in Requests
  BY DEF TypeInv, WaiterCall, CallOf
<1> QED
  BY <1>1, HandsFree DEF HandsInv, WaitsMatch, RowsMatch

\* The waits match when this one does.
LEMMA WaiterAlone ==
  ASSUME TypeInv, HandsInv, NEW w \in Waiters,
         \A v \in Waiters \ {w} : waiter'[v] = waiter[v],
         \A r \in Requests : /\ row'[r].claimed <=> row[r].claimed
                             /\ row'[r].status = "absent" => row[r].status = "absent",
         waiter'[w].pc # "idle" => /\ waiter'[w].req \in Requests
                                   /\ row[waiter'[w].req].status # "absent"
                                   /\ waiter'[w].pc # "mark" => row[waiter'[w].req].claimed
  PROVE  WaitsMatch'
<1> SUFFICES ASSUME NEW v \in Waiters, waiter'[v].pc # "idle"
             PROVE  /\ row'[waiter'[v].req].status # "absent"
                    /\ waiter'[v].pc # "mark" => row'[waiter'[v].req].claimed
  BY DEF WaitsMatch
<1>1. CASE v = w
  BY <1>1
<1>2. CASE v # w
  <2>1. waiter'[v] = waiter[v]
    BY <1>2
  <2> QED
    BY <2>1, Waited DEF HandsInv, WaitsMatch
<1> QED
  BY <1>1, <1>2

LEMMA DecideStep ==
  ASSUME TypeInv, NEW w \in Waiters, WaitDecide(w)
  PROVE  /\ waiter[w].pc = "decide"
         /\ waiter'[w] = IdleWaiter \/ waiter'[w].req = waiter[w].req
<1> DEFINE c == waiter[w]
           next == [c EXCEPT !.snapshot = NoSnapshot]
           handover == [next EXCEPT !.pc = "mark"]
           deliver == [next EXCEPT !.pc = "deliver"]
           skip == [next EXCEPT !.pc = "block", !.cursor = c.event.seq, !.event = NoEvent]
<1>1. \/ WaiterMoves(w, IdleWaiter) \/ WaiterMoves(w, handover)
      \/ WaiterMoves(w, deliver) \/ WaiterMoves(w, skip)
  BY DEF WaitDecide
<1>2. handover.req = c.req /\ deliver.req = c.req /\ skip.req = c.req
  BY DEF TypeInv, WaiterCall, CallOf, Waiter
<1> HIDE DEF handover, deliver, skip
<1> QED
  BY <1>1, <1>2 DEF WaiterMoves, WaitDecide, WaiterAt, TypeInv

\* The steps of live_wait that write no row.
LEMMA WaiterMovesOn ==
  ASSUME TypeInv, HandsInv, NEW w \in Waiters, WaiterStep(w), row' = row
  PROVE  HandsInv' /\ UNCHANGED Promised!vars
<1> DEFINE c == waiter[w]
<1>1. UNCHANGED <<prompt, recon, submits>> /\ \A v \in Waiters \ {w} : waiter'[v] = waiter[v]
  BY DEF WaiterStep, WaitStart, WaitCheck, WaitReprove, WaitRecursor, WaitPersist, WaitHealth,
         WaitCandidate, WaitExpires, WaitAdmit, WaitAsk, WaitExpired, WaitDecide, WaitDeliver,
         WaitMark, WaiterGoes, WaiterMoves, WaiterFrame, TypeInv
<1>2. c \in Waiter
  BY DEF TypeInv, WaiterCall, CallOf
<1>3. \/ waiter'[w].pc = "idle"
      \/ waiter'[w].req = c.req /\ c.pc \notin {"idle", "mark"}
      \/ \E r \in Requests : /\ row[r].status # "absent"
                             /\ waiter'[w].req = r
                             /\ waiter'[w].pc = IF row[r].claimed THEN "check" ELSE "mark"
  <2> USE DEF WaiterAt, WaiterGoes, WaiterMoves
  <2>1. ASSUME NEW r \in Requests, WaitStart(w, r)
        PROVE  /\ row[r].status # "absent"
               /\ waiter'[w].req = r
               /\ waiter'[w].pc = IF row[r].claimed THEN "check" ELSE "mark"
    BY <2>1 DEF WaitStart, TypeInv, IdleWaiter
  <2>2. CASE WaitCheck(w) \/ WaitReprove(w) \/ WaitHealth(w) \/ WaitCandidate(w) \/ WaitExpires(w)
    <3>1. CASE WaitCheck(w)
      <4> DEFINE fresh == c.proof.epoch = epoch /\ c.proof.gen = gen
                 next == [c EXCEPT !.pc = IF fresh THEN "health" ELSE "reprove",
                                   !.cursor = IF fresh THEN c.proof.seq ELSE 0,
                                   !.epoch = epoch, !.gen = gen]
      <4>1. c.pc = "check" /\ waiter'[w] = next
        BY <3>1 DEF WaitCheck, TypeInv
      <4>2. next.req = c.req
        BY <1>2 DEF Waiter
      <4> HIDE DEF next
      <4> QED
        BY <4>1, <4>2
    <3>2. CASE WaitReprove(w) \/ WaitHealth(w)
      BY <1>2, <3>2 DEF WaitReprove, WaitHealth, TypeInv, Waiter
    <3>3. CASE WaitCandidate(w) \/ WaitExpires(w)
      BY <1>2, <3>3 DEF WaitCandidate, WaitExpires, TypeInv, Waiter
    <3> QED
      BY <2>2, <3>1, <3>2, <3>3
  <2>3. CASE WaitRecursor(w)
    <3> DEFINE next == [c EXCEPT !.snapshot = NoSnapshot]
               proven == [next EXCEPT !.pc = "persist", !.proof = CursorProof(c.req), !.cursor = watermark]
               unproven == [next EXCEPT !.pc = "mark"]
    <3>1. c.pc = "recursor" /\ (waiter'[w] = proven \/ waiter'[w] = unproven)
      BY <2>3 DEF WaitRecursor, TypeInv
    <3>2. proven.req = c.req /\ unproven.req = c.req
      BY <1>2 DEF Waiter
    <3> HIDE DEF proven, unproven
    <3> QED
      BY <3>1, <3>2
  <2>4. CASE WaitPersist(w)
    BY <1>2, <2>4 DEF WaitPersist, TypeInv, Waiter
  <2>5. CASE WaitAdmit(w) \/ WaitAsk(w)
    BY <1>2, <2>5 DEF WaitAdmit, WaitAsk, TypeInv, Waiter
  <2>6. CASE WaitExpired(w)
    BY <1>2, <2>6 DEF WaitExpired, TypeInv, Waiter, IdleWaiter
  <2>7. CASE WaitDecide(w)
    BY <2>7, DecideStep DEF IdleWaiter
  <2>8. CASE WaitDeliver(w) \/ WaitMark(w)
    BY <2>8 DEF WaitDeliver, WaitMark, TypeInv, IdleWaiter
  <2> QED
    BY <2>1, <2>2, <2>3, <2>4, <2>5, <2>6, <2>7, <2>8 DEF WaiterStep
<1>4. SameHands /\ OneHand' /\ HandsMatch' /\ RowsMatch'
  BY <1>1, RowChanges
<1>5. waiter'[w].pc # "idle" => /\ waiter'[w].req \in Requests
                                /\ row[waiter'[w].req].status # "absent"
                                /\ waiter'[w].pc # "mark" => row[waiter'[w].req].claimed
  BY <1>3, Waited
<1>6. WaitsMatch'
  BY <1>1, <1>5, WaiterAlone
<1>7. SameStages /\ SameRecoveries
  BY <1>1 DEF SameStages, SameRecoveries, Reconciling
<1> QED
  BY <1>1, <1>4, <1>6, <1>7, Stutters DEF HandsInv

\* A row gets another status: a completion is attributed, or a request handed over.
LEMMA WaiterWrites ==
  ASSUME TypeInv, HandsInv, NEW w \in Waiters, WaiterStep(w), row' # row
  PROVE  HandsInv' /\ [Promised!Next]_(Promised!vars)
<1> DEFINE o == waiter[w].req
<1>1. UNCHANGED <<prompt, recon, submits>> /\ \A v \in Waiters \ {w} : waiter'[v] = waiter[v]
  BY DEF WaiterStep, WaitStart, WaitCheck, WaitReprove, WaitRecursor, WaitPersist, WaitHealth,
         WaitCandidate, WaitExpires, WaitAdmit, WaitAsk, WaitExpired, WaitDecide, WaitDeliver,
         WaitMark, WaiterGoes, WaiterMoves, WaiterFrame, TypeInv
<1>2. WaitPersist(w) \/ WaitDeliver(w) \/ WaitMark(w)
  BY DEF WaiterStep, WaitStart, WaitCheck, WaitReprove, WaitRecursor, WaitHealth, WaitCandidate,
         WaitExpires, WaitAdmit, WaitAsk, WaitExpired, WaitDecide, WaiterGoes, WaiterMoves
<1>3. waiter[w].pc \in {"persist", "deliver", "mark"}
  BY <1>2 DEF WaitPersist, WaitDeliver, WaitMark, WaiterAt
<1>4. o \in Requests /\ row[o].status # "absent" /\ row \in [Requests -> Row]
  BY <1>3, Waited DEF TypeInv
<1> HIDE DEF o
<1>5. SameRecoveries
  BY <1>1 DEF SameRecoveries, Reconciling
<1>6. ASSUME \A r \in Requests : /\ row'[r].claimed <=> row[r].claimed
                                 /\ row'[r].status = "absent" => row[r].status = "absent",
             waiter'[w].pc # "idle" => /\ waiter'[w].req = o
                                       /\ row[o].claimed
      PROVE  HandsInv' /\ SameHands
  BY <1>1, <1>4, <1>6, RowChanges, WaiterAlone DEF HandsInv
<1>7. CASE WaitPersist(w)
  <2>1. \A r \in Requests : row'[r].claimed = row[r].claimed /\ row'[r].status = row[r].status
    BY <1>4, <1>7 DEF WaitPersist, Row, o
  <2>2. waiter'[w].req = o
    BY <1>7 DEF WaitPersist, TypeInv, WaiterCall, CallOf, Waiter, o
  <2>3. row[o].claimed
    BY <1>7, Waited DEF WaitPersist, WaiterAt, o
  <2>4. SameStages
    BY <2>1 DEF SameStages
  <2> QED
    BY <1>1, <1>5, <1>6, <2>1, <2>2, <2>3, <2>4, Stutters
<1>8. ASSUME NEW s \in Statuses \ {"absent"}, row' = [row EXCEPT ![o].status = s], waiter'[w].pc = "idle"
      PROVE  /\ HandsInv' /\ SameHands
             /\ [r \in Requests |-> StageOf(row'[r].status)]
                  = [[r \in Requests |-> StageOf(row[r].status)] EXCEPT ![o] = StageOf(s)]
  <2>1. row'[o].status = s /\ \A r \in Requests \ {o} : row'[r].status = row[r].status
    BY <1>4, <1>8 DEF Row
  <2>2. \A r \in Requests : row'[r].claimed = row[r].claimed
    BY <1>4, <1>8 DEF Row
  <2>3. HandsInv' /\ SameHands
    BY <1>4, <1>6, <1>8, <2>1, <2>2
  <2> QED
    BY <1>4, <2>1, <2>3, OneStage
<1>9. CASE WaitDeliver(w)
  <2> DEFINE s == Outcome(waiter[w].event.kind)
  <2>1. s \in Terminal /\ s \in Statuses \ {"absent"}
    BY <1>9 DEF WaitDeliver, WaiterAt, TypeInv, WaiterCall, Events, Kinds, Outcome, Terminal, Statuses
  <2>2. row' = [row EXCEPT ![o].status = s] /\ waiter'[w].pc = "idle"
    BY <1>9 DEF WaitDeliver, TypeInv, IdleWaiter, o
  <2>3. submits[o] = 1 /\ ~SubmitterActive(o)
    BY <1>9, Waited DEF WaitDeliver, WaiterAt, o
  <2> HIDE DEF s
  <2>4. StageOf(s) = "over"
    BY <2>1, StageValues
  <2>5. Promised!Attribute(o)
    BY <1>1, <1>4, <1>5, <1>8, <2>1, <2>2, <2>3, <2>4
    DEF Promised!Attribute, Promised!Becomes, SameHands, SameRecoveries
  <2> QED
    BY <1>4, <1>8, <2>1, <2>2, <2>5 DEF Promised!Next
<1>10. CASE WaitMark(w)
  <2>1. row' = [row EXCEPT ![o].status = "unknown"] /\ waiter'[w].pc = "idle" /\ row[o].status \notin Terminal
    BY <1>10 DEF WaitMark, TypeInv, IdleWaiter, o
  <2>2. "unknown" \in Statuses \ {"absent"}
    BY DEF Statuses
  <2>3. HandsInv' /\ SameHands
    BY <1>8, <2>1, <2>2
  <2>4. CASE row[o].status = "unknown"
    <3>1. SameStages
      BY <1>4, <2>1, <2>4 DEF SameStages, Row
    <3> QED
      BY <1>1, <1>5, <2>3, <3>1, Stutters
  <2>5. CASE row[o].status # "unknown"
    <3>1. StageOf(row[o].status) = "open"
      BY <1>4, <2>1, <2>5, StageValues DEF Row, Statuses
    <3>2. Promised!HandOver(o)
      BY <1>1, <1>4, <1>5, <1>8, <2>1, <2>2, <3>1, StageValues
      DEF Promised!HandOver, Promised!Becomes, SameHands, SameRecoveries
    <3> QED
      BY <1>4, <2>3, <3>2 DEF Promised!Next
  <2> QED
    BY <2>4, <2>5
<1> QED
  BY <1>2, <1>7, <1>9, <1>10

LEMMA WaiterStepKeepsPromise ==
  ASSUME TypeInv, HandsInv, NEW w \in Waiters, WaiterStep(w)
  PROVE  HandsInv' /\ [Promised!Next]_(Promised!vars)
BY WaiterMovesOn, WaiterWrites

LEMMA ReconStepKeepsPromise ==
  ASSUME TypeInv, HandsInv, NEW c \in Reconcilers, ReconStep(c)
  PROVE  HandsInv' /\ [Promised!Next]_(Promised!vars)
<1> DEFINE o == recon[c].req
<1>1. /\ UNCHANGED <<prompt, waiter, submits>>
      /\ \A d \in Reconcilers \ {c} : recon'[d] = recon[d]
  BY DEF ReconStep, ReconStart, ReconOpen, ReconHistory, ReconWrite, ReconGoes, ReconFrame,
         observers, TypeInv
<1>2. recon[c] \in Recon /\ (recon[c].pc # "idle" => o \in Requests)
  BY DEF TypeInv, ReconCall, CallOf
<1>4. ASSUME row' = row PROVE HandsInv' /\ SameHands /\ SameStages
  <2>1. SameHands /\ OneHand' /\ HandsMatch' /\ RowsMatch'
    BY <1>1, <1>4, RowChanges
  <2> QED
    BY <1>1, <1>4, <2>1 DEF HandsInv, WaitsMatch, SameStages
<1>5. ASSUME NEW r \in Requests, ReconStart(c, r)
      PROVE  HandsInv' /\ Promised!Next
  <2>1. recon[c].pc = "idle" /\ recon'[c].pc = "open" /\ recon'[c].req = r /\ row' = row
    BY <1>5 DEF ReconStart, ReconAt, ReconGoes, TypeInv
  <2>2. {d \in Requests : Reconciling(d)'} = {d \in Requests : Reconciling(d)} \cup {r}
    <3>1. Reconciling(r)'
      BY <2>1 DEF Reconciling
    <3>2. \A d \in Requests \ {r} : Reconciling(d)' <=> Reconciling(d)
      BY <1>1, <2>1 DEF Reconciling
    <3> QED
      BY <3>1, <3>2
  <2>3. StageOf(row[r].status) = "recovery"
    BY <1>5, StageValues DEF ReconStart
  <2>4. Promised!Recover(r)
    BY <1>1, <1>4, <2>1, <2>2, <2>3 DEF Promised!Recover, SameHands, SameStages
  <2> QED
    BY <1>4, <2>1, <2>4 DEF Promised!Next
<1>6. ASSUME recon[c].pc # "idle", SameHands, HandsInv',
             SameStages \/ [r \in Requests |-> StageOf(row'[r].status)]
                             = [[r \in Requests |-> StageOf(row[r].status)] EXCEPT ![o] = "over"],
             recon'[c].pc = "idle" \/ recon'[c].req = o
      PROVE  HandsInv' /\ Promised!Next
  <2> PICK r \in Requests : r = o
    BY <1>2, <1>6
  <2>1. Reconciling(r)
    BY <1>6 DEF Reconciling
  <2>2. \A d \in Requests \ {r} : Reconciling(d)' <=> Reconciling(d)
    BY <1>1, <1>6 DEF Reconciling
  <2>3. {d \in Requests : Reconciling(d)'} \in {{d \in Requests : Reconciling(d)},
                                                {d \in Requests : Reconciling(d)} \ {r}}
    BY <2>1, <2>2
  <2>4. Promised!Reconcile(r)
    BY <1>1, <1>6, <2>1, <2>3 DEF Promised!Reconcile, SameHands, SameStages
  <2> QED
    BY <1>6, <2>4 DEF Promised!Next
<1>7. CASE ReconOpen(c) \/ ReconHistory(c)
  <2>1. recon[c].pc # "idle" /\ row' = row
    BY <1>7 DEF ReconOpen, ReconHistory, ReconAt
  <2>2. recon'[c].pc = "idle" \/ recon'[c].req = o
    BY <1>2, <1>7 DEF ReconOpen, ReconHistory, ReconGoes, TypeInv, Recon, IdleRecon
  <2> QED
    BY <1>4, <1>6, <2>1, <2>2
<1>8. CASE ReconWrite(c)
  <2> PICK r \in Requests : r = o
    BY <1>2, <1>8 DEF ReconWrite, ReconAt
  <2>1. recon[c].pc # "idle" /\ recon'[c].pc = "idle" /\ row' = [row EXCEPT ![r].status = "reconciled"]
    BY <1>8 DEF ReconWrite, ReconAt, ReconGoes, TypeInv, IdleRecon
  <2>2. \A d \in Requests : /\ row'[d].claimed = row[d].claimed
                            /\ d # r => row'[d].status = row[d].status
    BY <2>1 DEF TypeInv, Row
  <2>3. row'[r].status = "reconciled"
    BY <2>1 DEF TypeInv, Row
  <2>4. SameHands /\ OneHand' /\ HandsMatch' /\ RowsMatch'
    BY <1>1, <2>2, <2>3, RowChanges
  <2>5. WaitsMatch'
    <3> SUFFICES ASSUME NEW w \in Waiters, waiter[w].pc # "idle"
                 PROVE  /\ row'[waiter[w].req].status # "absent"
                        /\ waiter[w].pc # "mark" => row'[waiter[w].req].claimed
      BY <1>1 DEF WaitsMatch
    <3> QED
      BY <2>2, <2>3, Waited
  <2>6. [d \in Requests |-> StageOf(row'[d].status)]
          = [[d \in Requests |-> StageOf(row[d].status)] EXCEPT ![r] = "over"]
    BY <2>2, <2>3, OneStage, StageValues DEF Terminal
  <2> QED
    BY <1>6, <2>1, <2>4, <2>5, <2>6 DEF HandsInv
<1> QED
  BY <1>4, <1>5, <1>7, <1>8 DEF ReconStep

LEMMA NextKeepsPromise ==
  TypeInv /\ HandsInv /\ [Next]_vars => HandsInv' /\ [Promised!Next]_(Promised!vars)
<1> SUFFICES ASSUME TypeInv, HandsInv, [Next]_vars
             PROVE  HandsInv' /\ [Promised!Next]_(Promised!vars)
  OBVIOUS
<1>1. ASSUME NEW p \in Prompters, PromptStep(p) PROVE HandsInv' /\ [Promised!Next]_(Promised!vars)
  BY <1>1, PromptStepKeepsPromise
<1>2. ASSUME NEW w \in Waiters, WaiterStep(w) PROVE HandsInv' /\ [Promised!Next]_(Promised!vars)
  BY <1>2, WaiterStepKeepsPromise
<1>3. ASSUME NEW c \in Reconcilers, ReconStep(c) PROVE HandsInv' /\ [Promised!Next]_(Promised!vars)
  BY <1>3, ReconStepKeepsPromise
\* Replies that the closing of the socket loses change nobody's request.
<1>4. ASSUME UNCHANGED <<row, recon, submits>>,
             UNCHANGED <<prompt, waiter>> \/ FailPending
      PROVE  HandsInv' /\ [Promised!Next]_(Promised!vars)
  <2>1. /\ \A p \in Prompters : prompt'[p].pc = prompt[p].pc /\ prompt'[p].req = prompt[p].req
        /\ \A w \in Waiters : waiter'[w].pc = waiter[w].pc /\ waiter'[w].req = waiter[w].req
    <3>1. \A p \in Prompters : prompt[p] \in Prompt
      BY Handled
    <3>2. \A w \in Waiters : waiter[w] \in Waiter
      BY DEF TypeInv, WaiterCall, CallOf
    <3> QED
      BY <1>4, <3>1, <3>2 DEF FailPending, Prompt, Waiter
  <2>2. SameHands /\ OneHand' /\ HandsMatch' /\ RowsMatch'
    BY <1>4, <2>1, RowChanges
  <2>3. WaitsMatch'
    BY <1>4, <2>1 DEF HandsInv, WaitsMatch
  <2>4. SameStages /\ SameRecoveries
    BY <1>4 DEF SameStages, SameRecoveries, Reconciling
  <2> QED
    BY <1>4, <2>2, <2>3, <2>4, Stutters DEF HandsInv
<1>5. CASE GatewayMoves \/ LinkMoves \/ LinkDrops \/ LinkOpens \/ GatewayRestarts \/ SessionOpen
           \/ UNCHANGED vars
  BY <1>4, <1>5 DEF GatewayMoves, LinkMoves, LinkDrops, LinkOpens, GatewayRestarts, SessionOpen,
     vars, callVars, observers
<1>6. CASE Crash
  <2>1. /\ \A p \in Prompters : prompt'[p].pc = "idle"
        /\ \A w \in Waiters : waiter'[w].pc = "idle"
        /\ \A c \in Reconcilers : recon'[c].pc = "idle"
    BY <1>6 DEF Crash, IdlePrompt, IdleWaiter, IdleRecon
  <2>2. UNCHANGED <<row, submits>>
    BY <1>6 DEF Crash, observers
  <2>3. HandsInv'
    BY <2>1, <2>2 DEF HandsInv, OneHand, HandsMatch, RowsMatch, WaitsMatch, InHand
  <2>4. \A r \in Requests : ~SubmitterActive(r)' /\ ~Reconciling(r)'
    BY <2>1 DEF SubmitterActive, Reconciling
  <2>5. Promised!Restart
    BY <2>2, <2>4 DEF Promised!Restart
  <2> QED
    BY <2>3, <2>5 DEF Promised!Next
<1> QED
  BY <1>1, <1>2, <1>3, <1>5, <1>6 DEF Next

(***************************************************************************)
(* live_prompt, live_wait and live_reconcile implement LiveRequest: for    *)
(* any number of callers, connections, restarts and foreign turns, every   *)
(* behaviour of the three tools is, as far as the record of a request and  *)
(* its prompt go, a behaviour of that specification.                       *)
(***************************************************************************)
THEOREM ToolsKeepPromise == Spec => KeepsPromise
<1>1. Init => HandsInv /\ Promised!Init
  <2> SUFFICES ASSUME Init PROVE HandsInv /\ Promised!Init
    OBVIOUS
  <2>1. HandsInv
    BY DEF Init, HandsInv, OneHand, HandsMatch, RowsMatch, WaitsMatch, InHand, IdlePrompt,
       IdleWaiter, AbsentRow
  <2>2. \A r \in Requests : /\ StageOf(row[r].status) = "none"
                            /\ ~SubmitterActive(r)
                            /\ ~Reconciling(r)
    BY StageValues DEF Init, AbsentRow, SubmitterActive, Reconciling, IdlePrompt, IdleRecon
  <2>3. submits = [r \in Requests |-> 0]
    BY DEF Init
  <2> QED
    BY <2>1, <2>2, <2>3 DEF Promised!Init
<1> QED
  BY <1>1, NextKeepsPromise, TypesAlwaysHold, PTL DEF Spec, KeepsPromise, Promised!Spec
=============================================================================
