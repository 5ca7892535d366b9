-------------------------- MODULE LiveOutcomeProofs --------------------------
(***************************************************************************)
(* live_wait attributes outcomes rightly: two theorems about what it takes *)
(* for evidence.  The inductive invariant, OutcomeInv, says for each thing *)
(* a call remembers what it is still worth now:                            *)
(*   TurnsOnce     the gateway begins and ends a request's turn once;      *)
(*   StreamHeld    socket, watermark and ring tell of one event stream;    *)
(*   SnapshotTrue  a reply says how much of that stream it has seen;       *)
(*   ProofTrue     between a cursor and the request's completion there is  *)
(*                 no other completion, whether it has come (Reported) or  *)
(*                 not (Pending), or the loss is known;                    *)
(*   EventOwn, EvidenceTrue   hence whose the candidate is, and what the   *)
(*                 evidence asked for after it can say.                    *)
(***************************************************************************)
EXTENDS LiveTurnProofs

(***************************************************************************)
(* A snapshot shows a text, not a request_id: another prompt with the very *)
(* text of a request is beyond what the evidence can tell apart (the       *)
(* limitation docs/UPSTREAM-HERMES.md documents).                          *)
(***************************************************************************)
DistinctTexts == \A t \in Turns, r \in Requests : Text[t] = Text[r] => t = r

Begun(t) == \E i \in 1 .. Len(hist) : hist[i] = t

Queued(t) == \E i \in 1 .. Len(queue) : queue[i] = t

\* The gateway runs a request's turn once, and reports its end once.
TurnsOnce ==
  /\ phase = "idle" => active = NoTurn
  /\ phase = "failed" => Ended(active)
  /\ \A r \in Requests :
       /\ Ended(r) \/ active = r => Begun(r)
       /\ Ended(r) /\ active = r => phase = "failed"
       /\ Begun(r) \/ Queued(r) => submits[r] # 0
       /\ Begun(r) => ~Queued(r)
  /\ \A i, j \in 1 .. Len(queue) : queue[i] \in Requests /\ queue[i] = queue[j] => i = j

\* Is the bridge's stream known to be incomplete, now or once that is published?
Doubted == IF link = "open" THEN degraded ELSE nextDegraded

\* The ring, the watermark and the socket tell of the same event stream.
StreamHeld ==
  /\ \A e \in ring : e.seq <= watermark
  /\ ~slot => ring = {} /\ watermark = 0 /\ evictedTo = 0 /\ link # "holding"
  /\ epoch <= gwRun /\ gwRun # 0
  /\ epoch = 0 => ~slot
  /\ epoch = gwRun => /\ watermark <= Len(log)
                      /\ \A e \in ring : e.turn = log[e.seq].turn
  /\ Connected => epoch = gwRun /\ watermark <= received /\ received <= Len(log)
  /\ link \in {"settling", "open"} /\ ~Doubted /\ slot => watermark = received

\* A snapshot of r's running turn is older than no completion the socket still
\* owes, unless that is r's own.
SnapshotTrue(s, r) ==
  /\ s.inflight = r => Begun(r)
  /\ s.upto <= Len(log) /\ (Connected \/ s.upto = 0)
  /\ s.ok /\ s.running /\ s.inflight = r /\ active = r /\ ~Ended(r) =>
       s.upto = Len(log) \/ (Connected => received = Len(log))

-----------------------------------------------------------------------------
(* Turns.                                                                  *)

LEMMA Begins ==
  ASSUME GatewayTypeOK, NEW t \in Turns, hist' = Append(hist, t), NEW x
  PROVE  Begun(x)' <=> Begun(x) \/ x = t
<1>1. /\ Len(hist) \in Nat /\ Len(hist') = Len(hist) + 1 /\ hist'[Len(hist) + 1] = t
      /\ \A i \in 1 .. Len(hist) : hist'[i] = hist[i]
  BY AppendProperties, LenProperties DEF GatewayTypeOK
<1> QED
  BY <1>1 DEF Begun

LEMMA Queues ==
  ASSUME GatewayTypeOK, NEW t \in Turns, queue' = Append(queue, t), NEW x
  PROVE  Queued(x)' <=> Queued(x) \/ x = t
<1>1. /\ Len(queue) \in Nat /\ Len(queue') = Len(queue) + 1 /\ queue'[Len(queue) + 1] = t
      /\ \A i \in 1 .. Len(queue) : queue'[i] = queue[i]
  BY AppendProperties, LenProperties DEF GatewayTypeOK
<1> QED
  BY <1>1 DEF Queued

LEMMA Ends ==
  ASSUME GatewayTypeOK, NEW t \in Turns, NEW k \in Kinds,
         log' = Append(log, [turn |-> t, kind |-> k])
  PROVE  /\ \A x : Ended(x)' <=> Ended(x) \/ x = t
         /\ Len(log') = Len(log) + 1 /\ log'[Len(log) + 1].turn = t
         /\ \A i \in 1 .. Len(log) : log'[i] = log[i]
<1>1. /\ Len(log) \in Nat /\ Len(log') = Len(log) + 1
      /\ log'[Len(log) + 1] = [turn |-> t, kind |-> k]
      /\ \A i \in 1 .. Len(log) : log'[i] = log[i]
  BY AppendProperties, LenProperties DEF GatewayTypeOK
<1> QED
  BY <1>1 DEF Ended

\* Nothing is ended, queued or begun.
LEMMA Stays ==
  /\ hist' = hist => \A x : Begun(x)' <=> Begun(x)
  /\ queue' = queue => \A x : Queued(x)' <=> Queued(x)
  /\ log' = log => \A x : Ended(x)' <=> Ended(x)
BY DEF Begun, Queued, Ended

LEMMA AdmitOnce ==
  ASSUME TypeInv, TurnsOnce, NEW t \in Turns, Admit(t),
         t \in Requests => submits[t] = 0 /\ submits'[t] # 0,
         \A r \in Requests \ {t} : submits'[r] = submits[r]
  PROVE  TurnsOnce'
<1>1. GatewayTypeOK
  BY DEF TypeInv, GatewayInv
<1>2. t \in Requests => ~Begun(t) /\ ~Queued(t) /\ ~Ended(t) /\ active # t
  BY DEF TurnsOnce
<1>3. log' = log
  BY DEF Admit
<1>4. CASE ClaimsNow
  <2>1. phase' = "running" /\ active' = t /\ hist' = Append(hist, t) /\ queue' = queue
    BY <1>4 DEF Admit, Begin
  <2>2. /\ \A x : Begun(x)' <=> Begun(x) \/ x = t
        /\ \A x : Queued(x)' <=> Queued(x)
        /\ \A x : Ended(x)' <=> Ended(x)
    BY <1>1, <1>3, <2>1, Begins, Stays
  <2> QED
    BY <1>2, <2>1, <2>2 DEF TurnsOnce
<1>5. CASE ~ClaimsNow
  <2>1. phase' = phase /\ active' = active /\ hist' = hist /\ queue' = Append(queue, t)
    BY <1>5 DEF Admit
  <2>2. /\ \A x : Begun(x)' <=> Begun(x)
        /\ \A x : Queued(x)' <=> Queued(x) \/ x = t
        /\ \A x : Ended(x)' <=> Ended(x)
    BY <1>1, <1>3, <2>1, Queues, Stays
  <2>3. /\ Len(queue) \in Nat /\ Len(queue') = Len(queue) + 1 /\ queue'[Len(queue) + 1] = t
        /\ \A i \in 1 .. Len(queue) : queue'[i] = queue[i]
    BY <1>1, <2>1, AppendProperties, LenProperties DEF GatewayTypeOK
  <2>4. (\A i, j \in 1 .. Len(queue) : queue[i] \in Requests /\ queue[i] = queue[j] => i = j)'
    BY <1>2, <2>3 DEF TurnsOnce, Queued
  <2> QED
    BY <1>2, <2>1, <2>2, <2>4 DEF TurnsOnce
<1> QED
  BY <1>4, <1>5

LEMMA GatewayStepOnce ==
  ASSUME TypeInv, TurnsOnce, GatewayStep, UNCHANGED submits
  PROVE  TurnsOnce'
<1>1. GatewayTypeOK /\ GatewayInv
  BY DEF TypeInv, GatewayInv
<1>2. ASSUME NEW t \in Foreign, ForeignSubmit(t) PROVE TurnsOnce'
  BY <1>2, AdmitOnce, TurnsAssumption DEF ForeignSubmit, Turns
<1>3. CASE StartQueued
  <2>0. PICK t : t = Head(queue)
    OBVIOUS
  <2>1. /\ t \in Turns /\ t = queue[1] /\ Len(queue) \in Nat \ {0}
        /\ Len(Tail(queue)) = Len(queue) - 1
        /\ \A i \in 1 .. Len(queue) - 1 : Tail(queue)[i] = queue[i + 1]
    BY <1>1, <1>3, <2>0, HeadTailProperties, LenProperties, EmptySeq DEF StartQueued, GatewayTypeOK
  <2>2. /\ phase' = "running" /\ active' = t /\ hist' = Append(hist, t) /\ log' = log
        /\ queue' = Tail(queue)
    BY <1>3, <2>0 DEF StartQueued, Begin
  <2>3. /\ \A x : Begun(x)' <=> Begun(x) \/ x = t
        /\ \A x : Ended(x)' <=> Ended(x)
    BY <1>1, <2>1, <2>2, Begins, Stays
  <2>4. \A x : Queued(x)' => Queued(x)
    BY <2>1, <2>2 DEF Queued
  <2>5. Queued(t)
    BY <2>1 DEF Queued
  <2>6. ASSUME t \in Requests, NEW i \in 1 .. Len(queue) - 1, queue[i + 1] = t PROVE FALSE
    <3>1. \A k, j \in 1 .. Len(queue) : queue[k] \in Requests /\ queue[k] = queue[j] => k = j
      BY DEF TurnsOnce
    <3>2. 1 \in 1 .. Len(queue) /\ i + 1 \in 1 .. Len(queue) /\ i + 1 # 1
      BY <2>1
    <3> QED
      BY <2>1, <2>6, <3>1, <3>2
  <2>7. (\A i, j \in 1 .. Len(queue) : queue[i] \in Requests /\ queue[i] = queue[j] => i = j)'
    BY <2>1, <2>2 DEF TurnsOnce
  <2>a. /\ Len(queue') = Len(queue) - 1
        /\ \A i \in 1 .. Len(queue) - 1 : queue'[i] = queue[i + 1]
    BY <2>1, <2>2
  <2>8. t \in Requests => ~Queued(t)'
    BY <2>a, <2>6 DEF Queued
  <2>9. phase' # "idle" /\ phase' # "failed"
    BY <2>2
  <2>10. ASSUME NEW r \in Requests
         PROVE  /\ Ended(r)' \/ active' = r => Begun(r)'
                /\ ~(Ended(r)' /\ active' = r)
                /\ Begun(r)' \/ Queued(r)' => submits'[r] # 0
                /\ Begun(r)' => ~Queued(r)'
    <3>1. /\ Ended(r) \/ active = r => Begun(r)
          /\ Begun(r) \/ Queued(r) => submits[r] # 0
          /\ Begun(r) => ~Queued(r)
      BY DEF TurnsOnce
    <3>2. active' = t /\ submits' = submits
      BY <2>2
    <3>3. CASE r = t
      BY <2>3, <2>5, <2>8, <3>1, <3>2, <3>3
    <3>4. CASE r # t
      BY <2>3, <2>4, <3>1, <3>2, <3>4
    <3> QED
      BY <3>3, <3>4
  <2> QED
    BY <2>7, <2>9, <2>10 DEF TurnsOnce
<1>4. ASSUME UNCHANGED <<queue, log, hist>>,
             \/ active' = active /\ phase \notin {"idle", "failed"} /\ phase' \notin {"idle", "failed"}
             \/ active' = NoTurn /\ phase' = "idle"
      PROVE  TurnsOnce'
  <2>1. \A r \in Requests : r # NoTurn
    BY TurnsAssumption DEF Turns
  <2>2. /\ \A x : Begun(x)' <=> Begun(x)
        /\ \A x : Queued(x)' <=> Queued(x)
        /\ \A x : Ended(x)' <=> Ended(x)
    BY <1>4, Stays
  <2> QED
    BY <1>4, <2>1, <2>2 DEF TurnsOnce
<1>5. CASE ClearInflight \/ FailTurn
  BY <1>4, <1>5 DEF ClearInflight, FailTurn
<1>6. CASE ForgetFailure
  BY <1>4, <1>6 DEF ForgetFailure
<1>7. ASSUME NEW k \in Kinds, log' = Append(log, [turn |-> active, kind |-> k]), active \in Turns,
             UNCHANGED <<queue, hist>>,
             phase \in {"ending", "failing"},
             (phase' = "failed" /\ active' = active) \/ (phase' = "idle" /\ active' = NoTurn)
      PROVE  TurnsOnce'
  <2>1. \A r \in Requests : r # NoTurn
    BY TurnsAssumption DEF Turns
  <2>2. \A x : Ended(x)' <=> Ended(x) \/ x = active
    BY <1>1, <1>7, Ends
  <2> QED
    BY <1>7, <2>1, <2>2, Stays DEF TurnsOnce
<1>8. ASSUME NEW kind \in Outcomes \ {"error"}, EmitCompletion(kind) PROVE TurnsOnce'
  BY <1>1, <1>7, <1>8, OutcomesAssumption DEF EmitCompletion, GatewayInv
<1>9. CASE EmitFailure
  BY <1>1, <1>7, <1>9 DEF EmitFailure, GatewayInv, Kinds
<1> QED
  BY <1>2, <1>3, <1>5, <1>6, <1>8, <1>9 DEF GatewayStep

LEMMA GatewayDiesOnce ==
  ASSUME TypeInv, TurnsOnce, GatewayDies, UNCHANGED submits
  PROVE  TurnsOnce'
<1>1. \A r \in Requests : r # NoTurn
  BY TurnsAssumption DEF Turns
<1>2. /\ \A x : Begun(x)' <=> Begun(x)
      /\ \A x : ~Queued(x)' /\ ~Ended(x)'
  BY Stays DEF GatewayDies, Queued, Ended
<1> QED
  BY <1>1, <1>2 DEF GatewayDies, TurnsOnce

LEMMA TurnsOnceStays ==
  ASSUME TurnsOnce, UNCHANGED <<phase, active, queue, log, hist, submits>>
  PROVE  TurnsOnce'
BY Stays DEF TurnsOnce

-----------------------------------------------------------------------------
(* What a step of the gateway may do to the turn it is at.                 *)

Keeps == log' = log /\ active' = active /\ (Busy' <=> Busy)

Forgets == log' = log /\ ~Busy /\ active' = NoTurn

Starts == log' = log /\ ~Busy /\ (active' \in Requests => ~Begun(active'))

Finishes ==
  /\ Busy /\ active \in Turns /\ active' \in {active, NoTurn}
  /\ \E k \in Kinds : log' = Append(log, [turn |-> active, kind |-> k])

TurnMoves ==
  /\ gwRun' = gwRun
  /\ \A t \in Turns : Begun(t) => Begun(t)'
  /\ phase' = "running" => (active' = active /\ phase = "running") \/ Starts
  /\ Keeps \/ Forgets \/ Starts \/ Finishes

LEMMA AdmitMoves ==
  ASSUME TypeInv, TurnsOnce, NEW t \in Turns, Admit(t), t \in Requests => submits[t] = 0
  PROVE  TurnMoves
<1>1. GatewayTypeOK
  BY DEF TypeInv, GatewayInv
<1>2. t \in Requests => ~Begun(t)
  BY DEF TurnsOnce
<1>3. CASE ClaimsNow
  <2>1. active' = t /\ hist' = Append(hist, t) /\ ~Busy /\ log' = log /\ gwRun' = gwRun
    BY <1>3 DEF Admit, Begin, ClaimsNow
  <2>2. \A x : Begun(x) => Begun(x)'
    BY <1>1, <2>1, Begins
  <2>3. active' \in Requests => ~Begun(active')
    BY <1>2, <2>1
  <2> QED
    BY <2>1, <2>2, <2>3 DEF TurnMoves, Starts
<1>4. CASE ~ClaimsNow
  BY <1>4, Stays DEF Admit, TurnMoves, Keeps, Busy
<1> QED
  BY <1>3, <1>4

LEMMA GatewayStepMoves ==
  ASSUME TypeInv, TurnsOnce, GatewayStep
  PROVE  TurnMoves
<1>1. GatewayTypeOK /\ GatewayInv
  BY DEF TypeInv, GatewayInv
<1>2. ASSUME NEW t \in Foreign, ForeignSubmit(t) PROVE TurnMoves
  BY <1>2, AdmitMoves, TurnsAssumption DEF ForeignSubmit, Turns
<1>3. CASE StartQueued
  <2>0. PICK t : t = Head(queue)
    OBVIOUS
  <2>1. t \in Turns /\ t = queue[1] /\ Len(queue) \in Nat \ {0}
    BY <1>1, <1>3, <2>0, HeadTailProperties, LenProperties, EmptySeq DEF StartQueued, GatewayTypeOK
  <2>2. active' = t /\ hist' = Append(hist, t) /\ log' = log /\ ~Busy /\ gwRun' = gwRun
    BY <1>3, <2>0 DEF StartQueued, Begin
  <2>3. Queued(t)
    BY <2>1 DEF Queued
  <2>4. \A x : Begun(x) => Begun(x)'
    BY <1>1, <2>1, <2>2, Begins
  <2>5. active' \in Requests => ~Begun(active')
    BY <2>2, <2>3 DEF TurnsOnce
  <2> QED
    BY <2>2, <2>4, <2>5 DEF TurnMoves, Starts
<1>4. CASE ClearInflight \/ FailTurn
  BY <1>4, Stays DEF ClearInflight, FailTurn, TurnMoves, Keeps, Busy
<1>5. CASE ForgetFailure
  BY <1>5, Stays DEF ForgetFailure, TurnMoves, Forgets, Busy
<1>6. ASSUME NEW kind \in Outcomes \ {"error"}, EmitCompletion(kind) PROVE TurnMoves
  BY <1>1, <1>6, Stays, OutcomesAssumption DEF EmitCompletion, GatewayInv, TurnMoves, Finishes, Busy
<1>7. CASE EmitFailure
  BY <1>1, <1>7, Stays DEF EmitFailure, GatewayInv, TurnMoves, Finishes, Busy, Kinds
<1> QED
  BY <1>2, <1>3, <1>4, <1>5, <1>6, <1>7 DEF GatewayStep

LEMMA LogGrows ==
  ASSUME TypeInv, TurnMoves
  PROVE  /\ Len(log) \in Nat /\ Len(log') \in Nat /\ Len(log) <= Len(log')
         /\ \A i \in 1 .. Len(log) : log'[i] = log[i]
         /\ \A x : Ended(x) => Ended(x)'
         /\ Finishes => /\ Len(log') = Len(log) + 1 /\ log'[Len(log) + 1].turn = active
                        /\ \A x : x = active => Ended(x)'
         /\ ~Finishes => log' = log
<1>1. GatewayTypeOK /\ Len(log) \in Nat
  BY LenProperties DEF TypeInv, GatewayInv, GatewayTypeOK
<1>2. CASE log' = log
  <2>1. ~Finishes
    <3> SUFFICES ASSUME NEW k \in Kinds, log = Append(log, [turn |-> active, kind |-> k]),
                        active \in Turns
                 PROVE  FALSE
      BY <1>2 DEF Finishes
    <3> QED
      BY <1>1, AppendProperties DEF GatewayTypeOK
  <2> QED
    BY <1>1, <1>2, <2>1, Stays
<1>3. CASE Finishes
  <2>1. PICK t : t = active
    OBVIOUS
  <2>2. t \in Turns /\ \E k \in Kinds : log' = Append(log, [turn |-> t, kind |-> k])
    BY <1>3, <2>1 DEF Finishes
  <2>3. /\ \A x : Ended(x)' <=> Ended(x) \/ x = t
        /\ Len(log') = Len(log) + 1 /\ log'[Len(log) + 1].turn = t
        /\ \A i \in 1 .. Len(log) : log'[i] = log[i]
    BY <1>1, <2>2, Ends
  <2>4. \A x : x = active => Ended(x)'
    BY <2>1, <2>3
  <2> QED
    BY <1>1, <1>3, <2>1, <2>3, <2>4
<1> QED
  BY <1>2, <1>3 DEF TurnMoves, Keeps, Forgets, Starts

-----------------------------------------------------------------------------
(* The stream.                                                             *)

LEMMA StreamGateway ==
  ASSUME TypeInv, StreamHeld, TurnMoves, UNCHANGED linkVars
  PROVE  StreamHeld'
<1>1. /\ Len(log) \in Nat /\ Len(log') \in Nat /\ Len(log) <= Len(log')
      /\ \A i \in 1 .. Len(log) : log'[i] = log[i]
  BY LogGrows
<1>2. /\ gwRun' = gwRun /\ link' = link /\ epoch' = epoch /\ received' = received
      /\ slot' = slot /\ watermark' = watermark /\ ring' = ring /\ evictedTo' = evictedTo
      /\ degraded' = degraded /\ nextDegraded' = nextDegraded
  BY DEF TurnMoves, linkVars
<1>3. /\ \A e \in ring : e \in Events
      /\ watermark \in Nat /\ received \in Nat
  BY DEF TypeInv, LinkTypeOK
<1>4. epoch = gwRun => /\ watermark <= Len(log')
                       /\ \A e \in ring : e.turn = log'[e.seq].turn
  BY <1>1, <1>3 DEF StreamHeld, Events
<1>5. Connected => epoch = gwRun /\ watermark <= received /\ received <= Len(log')
  BY <1>1, <1>3 DEF StreamHeld
<1>6. Connected' = Connected /\ Doubted' = Doubted
  BY <1>2 DEF Connected, Doubted
<1> QED
  BY <1>2, <1>4, <1>5, <1>6 DEF StreamHeld

LEMMA StreamDown ==
  ASSUME TypeInv, StreamHeld, link' = "down", UNCHANGED ringVars, epoch' = epoch,
         (gwRun' = gwRun /\ log' = log) \/ gwRun' = gwRun + 1
  PROVE  StreamHeld'
<1>1. epoch \in Nat /\ gwRun \in Nat
  BY DEF TypeInv, LinkTypeOK, GatewayInv, GatewayTypeOK
<1>2. ~Connected'
  BY DEF Connected
<1> QED
  BY <1>1, <1>2 DEF StreamHeld, ringVars

LEMMA StreamReset ==
  ASSUME TypeInv, StreamHeld, LinkReset, gwRun' = gwRun, log' = log
  PROVE  StreamHeld'
<1>1. gwRun \in Nat /\ Len(log) \in Nat
  BY LenProperties DEF TypeInv, GatewayInv, GatewayTypeOK
<1>2. ~Connected'
  BY DEF LinkReset, Connected
<1> QED
  BY <1>1, <1>2 DEF LinkReset, StreamHeld

LEMMA StreamReopen ==
  ASSUME TypeInv, StreamHeld, Reopen, gwRun' = gwRun, log' = log
  PROVE  StreamHeld'
<1>1. gwRun \in Nat /\ epoch \in Nat /\ watermark \in Nat /\ Len(log) \in Nat
  BY LenProperties DEF TypeInv, GatewayInv, GatewayTypeOK, LinkTypeOK
<1>2. received' = Len(log) /\ epoch' = gwRun /\ link' \in {"settling", "holding"}
  BY DEF Reopen
<1>3. CASE EpochChanged
  <2>1. slot' = FALSE /\ watermark' = 0 /\ ring' = {} /\ evictedTo' = 0 /\ link' = "settling"
    BY <1>3 DEF Reopen
  <2> QED
    BY <1>1, <1>2, <2>1 DEF StreamHeld, Connected
<1>4. CASE ~EpochChanged
  <2>1. /\ slot' = slot /\ watermark' = watermark /\ ring' = ring /\ evictedTo' = evictedTo
        /\ link' = IF slot THEN "holding" ELSE "settling"
    BY <1>4 DEF Reopen, ringVars
  <2>2. epoch = gwRun \/ ~slot
    BY <1>4 DEF EpochChanged, StreamHeld
  <2>3. watermark <= Len(log) /\ \A e \in ring : e.turn = log[e.seq].turn
    BY <1>1, <2>2 DEF StreamHeld
  <2> QED
    BY <1>1, <1>2, <2>1, <2>3 DEF StreamHeld, Connected
<1> QED
  BY <1>3, <1>4

LEMMA StreamMoves ==
  ASSUME TypeInv, StreamHeld, LinkStep, UNCHANGED gatewayVars
  PROVE  StreamHeld'
<1>1. /\ gwRun \in Nat /\ epoch \in Nat /\ watermark \in Nat /\ received \in Nat
      /\ Len(log) \in Nat /\ evictedTo \in Nat /\ ring \subseteq Events
      /\ slot \in BOOLEAN /\ degraded \in BOOLEAN /\ nextDegraded \in BOOLEAN
  BY LenProperties DEF TypeInv, GatewayInv, GatewayTypeOK, LinkTypeOK
<1>2. gwRun' = gwRun /\ log' = log
  BY DEF gatewayVars
<1>3. Connected /\ epoch' = epoch
  BY DEF LinkStep, ReplayWhole, ReplayTruncated, ReplayFails, Settle, Deliver, FirstEvent,
         RingPressure, Connected
<1>4. epoch = gwRun /\ watermark <= received /\ received <= Len(log)
      /\ \A e \in ring : e.seq <= watermark /\ e.turn = log[e.seq].turn
  BY <1>3 DEF StreamHeld
<1>5. ASSUME slot', watermark' \in Nat, received' \in Nat,
             watermark' <= received', received' <= Len(log),
             \A e \in ring' : e.seq <= watermark' /\ e.turn = log[e.seq].turn,
             link' \in {"settling", "open"} /\ ~Doubted' => watermark' = received'
      PROVE  StreamHeld'
  <2>1. watermark' <= Len(log)
    BY <1>1, <1>5
  <2>3. gwRun # 0 /\ epoch' # 0
    BY <1>3, <1>4 DEF StreamHeld
  <2> QED
    BY <1>1, <1>2, <1>3, <1>4, <1>5, <2>1, <2>3 DEF StreamHeld
<1>6. CASE ReplayWhole \/ ReplayTruncated
  <2>1. PICK n \in received .. Len(log) :
          \E k \in watermark .. n :
            /\ ring' = ring \cup EventsIn(k + 1, n)
            /\ ReplayWhole => k = watermark
            /\ watermark' = IF k < n THEN n ELSE watermark
            /\ received' = n
    BY <1>1, <1>4, <1>6 DEF ReplayWhole, ReplayTruncated
  <2>2. PICK k \in watermark .. n :
            /\ ring' = ring \cup EventsIn(k + 1, n)
            /\ ReplayWhole => k = watermark
            /\ watermark' = IF k < n THEN n ELSE watermark
            /\ received' = n
    BY <2>1
  <2>3. \A e \in EventsIn(k + 1, n) : e.seq \in k + 1 .. n /\ e.turn = log[e.seq].turn
    BY DEF EventsIn, Event
  <2>4. ReplayWhole => watermark' = received'
    BY <1>1, <1>4, <2>2
  <2>5. link' = "settling" /\ slot' = slot /\ (~nextDegraded' => ReplayWhole)
    BY <1>6 DEF ReplayWhole, ReplayTruncated
  <2>6. Doubted' = nextDegraded'
    BY <2>5 DEF Doubted
  <2>7. watermark' \in Nat /\ received' \in Nat /\ watermark' <= received' /\ received' <= Len(log)
    BY <1>1, <1>4, <2>2
  <2>8. \A e \in ring' : e.seq <= watermark' /\ e.turn = log[e.seq].turn
    BY <1>1, <1>4, <2>2, <2>3 DEF Events
  <2>9. slot
    BY <1>6 DEF ReplayWhole, ReplayTruncated, StreamHeld
  <2> QED
    BY <1>5, <2>4, <2>5, <2>6, <2>7, <2>8, <2>9
<1>7. CASE ReplayFails
  BY <1>1, <1>4, <1>5, <1>7 DEF ReplayFails, ringVars, Doubted, StreamHeld
<1>8. CASE Settle
  <2>1. Doubted' = Doubted
    BY <1>8 DEF Settle, Doubted
  <2> QED
    BY <1>2, <1>3, <1>4, <1>8, <2>1 DEF Settle, ringVars, StreamHeld, Connected
<1>9. CASE Deliver
  <2>1. Doubted' = Doubted /\ received' = received + 1 /\ link' = link /\ received < Len(log)
    BY <1>9 DEF Deliver, Doubted
  <2>2. CASE InOrder(received + 1)
    <3>1. ring' = ring \cup {Event(received + 1)} /\ watermark' = received + 1 /\ slot'
      BY <1>9, <2>2 DEF Deliver
    <3>2. Event(received + 1).seq = received + 1
          /\ Event(received + 1).turn = log[received + 1].turn
      BY DEF Event
    <3>3. \A e \in ring' : e.seq <= watermark' /\ e.turn = log[e.seq].turn
      BY <1>1, <1>4, <3>1, <3>2 DEF Events
    <3> QED
      BY <1>1, <1>5, <2>1, <3>1, <3>3
  <2>3. CASE ~InOrder(received + 1)
    <3>1. ring' = ring /\ watermark' = watermark /\ slot' = slot
      BY <1>9, <2>3 DEF Deliver
    <3>2. slot /\ received + 1 # watermark + 1
      BY <1>1, <1>4, <2>3 DEF InOrder
    <3>3. link \in {"settling", "open"} => Doubted
      BY <1>1, <1>4, <3>2 DEF StreamHeld
    <3> QED
      BY <1>1, <1>4, <1>5, <2>1, <3>1, <3>2, <3>3
  <2> QED
    BY <2>2, <2>3
<1>10. CASE FirstEvent
  <2>1. ring = {}
    BY <1>10 DEF FirstEvent, StreamHeld
  <2> QED
    BY <1>1, <1>4, <1>5, <1>10, <2>1 DEF FirstEvent
<1>11. CASE RingPressure
  <2>1. slot /\ ring' \subseteq ring
    BY <1>11 DEF RingPressure, StreamHeld
  <2>2. Doubted' = Doubted /\ watermark' = watermark /\ received' = received /\ link' = link
        /\ slot' = slot
    BY <1>11 DEF RingPressure, Doubted
  <2>3. link \in {"settling", "open"} /\ ~Doubted => watermark = received
    BY <2>1 DEF StreamHeld
  <2> QED
    BY <1>1, <1>4, <1>5, <2>1, <2>2, <2>3
<1> QED
  BY <1>6, <1>7, <1>8, <1>9, <1>10, <1>11 DEF LinkStep

-----------------------------------------------------------------------------
(* What calls and records remember of it.                                  *)

\* The cursor was read as live_wait supposes, on the connection of now.
Steady(proof) == DistinctTexts /\ proof.running /\ proof.settled

Sound(proof) == Steady(proof) /\ proof.conn = conn

\* r's completion has not been taken off the socket, and is the next one.
Pending(r, cursor) ==
  /\ \A e \in ring : e.seq <= cursor
  /\ link = "open" =>
       /\ cursor <= received
       /\ IF received < Len(log) THEN log[received + 1].turn = r
                                 ELSE active = r /\ Busy

\* It has: it is the first completion after the cursor, or known to be lost.
Reported(r, cursor) ==
  \/ Truncated(cursor)
  \/ \E o \in ring : /\ o.seq > cursor /\ o.turn = r
                     /\ \A e \in ring : e.seq <= cursor \/ e = o \/ o.seq < e.seq

ProofTrue(proof, r) ==
  /\ proof.conn <= conn
  /\ Sound(proof) =>
       /\ link \in {"open", "down"}
       /\ degraded \/ Pending(r, proof.seq) \/ Reported(r, proof.seq)

PromptTrue(c) ==
  c.pc # "idle" =>
    /\ SnapshotTrue(c.snapshot, c.req)
    /\ ProofTrue(c.proof, c.req)
    /\ c.pc \in {"prove", "cursor", "generation"} \/ c.claimed => c.ack = "streaming"
    /\ c.pc \in {"reserve", "submit", "sent"} => ~c.claimed
    /\ c.ack = "streaming" => Begun(c.req)

CursorHeld(c) ==
  c.pc \in {"persist", "health", "block", "admit"} /\ Sound(c.proof) =>
    c.cursor = c.proof.seq /\ (c.pc \in {"block", "admit"} => ~degraded)

EventOwn(c) ==
  c.event # NoEvent =>
    /\ c.pc \in {"admit", "ask", "decide", "deliver", "mark"}
    /\ c.pc = "admit" /\ Sound(c.proof) => c.event.turn = c.req \/ Truncated(c.cursor)
    /\ c.pc \in {"admit", "ask"} /\ Sound(c.proof) /\ Connected /\ c.event.turn = c.req =>
         Ended(c.req)
    /\ c.pc \in {"ask", "decide", "deliver"} =>
         /\ c.proof.conn <= c.admitted /\ c.admitted <= conn
         /\ Steady(c.proof) /\ c.proof.conn = c.admitted => c.event.turn = c.req

EvidenceTrue(c) ==
  c.snapshot.ok =>
    /\ c.pc = "decide" /\ Sound(c.proof) /\ c.snapshot.inflight = c.req => c.snapshot.failed
    /\ c.pc = "expired" /\ ~c.snapshot.running /\ c.snapshot.inflight = NoTurn =>
         ~(active = c.req /\ phase = "running")

WaiterTrue(c) ==
  c.pc # "idle" =>
    /\ SnapshotTrue(c.snapshot, c.req)
    /\ ProofTrue(c.proof, c.req)
    /\ c.pc # "mark" => Begun(c.req)
    /\ CursorHeld(c)
    /\ EventOwn(c)
    /\ EvidenceTrue(c)

RecordTrue(record, r) == ProofTrue(record.proof, r) /\ (record.claimed => Begun(r))

OutcomeInv ==
  /\ TurnsOnce
  /\ StreamHeld
  /\ \A p \in Prompters : PromptTrue(prompt[p])
  /\ \A w \in Waiters : WaiterTrue(waiter[w])
  /\ \A r \in Requests : RecordTrue(row[r], r)
  /\ DistinctTexts => SoundProofOwnOutcome

-----------------------------------------------------------------------------
(* It stays true while the gateway and the connection move on.             *)

SnapshotsStay ==
  \A s \in Snapshot, r \in Requests : SnapshotTrue(s, r) => SnapshotTrue(s, r)'

ProofsStay ==
  \A proof \in Proof, r \in Requests : ProofTrue(proof, r) => ProofTrue(proof, r)'

Continuous ==
  /\ conn <= conn'
  /\ \A r \in Requests :
       Begun(r) => /\ Begun(r)'
                   /\ ~(active = r /\ phase = "running") => ~(active' = r /\ phase' = "running")
  /\ conn' = conn /\ link \in {"open", "down"} =>
       /\ Connected' => Connected /\ \A r \in Requests : Ended(r) => Ended(r)'
       /\ evictedTo <= evictedTo'
       /\ degraded' = degraded

LEMMA TurnsProofs ==
  ASSUME TypeInv, StreamHeld, TurnMoves, UNCHANGED linkVars
  PROVE  ProofsStay
<1> SUFFICES ASSUME NEW proof \in Proof, NEW r \in Requests, ProofTrue(proof, r)
             PROVE  ProofTrue(proof, r)'
  BY DEF ProofsStay
<1>1. /\ Len(log) \in Nat /\ Len(log') \in Nat /\ Len(log) <= Len(log')
      /\ \A i \in 1 .. Len(log) : log'[i] = log[i]
      /\ Finishes => /\ Len(log') = Len(log) + 1 /\ log'[Len(log) + 1].turn = active
      /\ ~Finishes => log' = log
  BY LogGrows
<1>2. /\ conn' = conn /\ link' = link /\ received' = received
      /\ ring' = ring /\ evictedTo' = evictedTo /\ degraded' = degraded
  BY DEF linkVars
<1>3. received \in Nat /\ (Connected => received <= Len(log)) /\ r # NoTurn
  BY TurnsAssumption DEF TypeInv, LinkTypeOK, StreamHeld, Turns
<1>4. Reported(r, proof.seq) => Reported(r, proof.seq)'
  BY <1>2 DEF Reported, Truncated
<1>5. Pending(r, proof.seq) => Pending(r, proof.seq)'
  <2> SUFFICES ASSUME Pending(r, proof.seq), link = "open"
               PROVE  IF received < Len(log') THEN log'[received + 1].turn = r
                                              ELSE active' = r /\ Busy'
    BY <1>2 DEF Pending
  <2>1. received <= Len(log)
    BY <1>3 DEF Connected
  <2>2. CASE received < Len(log)
    BY <1>1, <1>3, <2>2 DEF Pending
  <2>3. CASE received = Len(log)
    <3>1. active = r /\ Busy
      BY <1>1, <2>3 DEF Pending
    <3>2. Keeps \/ Finishes
      BY <3>1 DEF TurnMoves, Forgets, Starts
    <3> QED
      BY <1>1, <2>3, <3>1, <3>2 DEF Keeps
  <2> QED
    BY <1>1, <1>3, <2>1, <2>2, <2>3
<1>6. Sound(proof)' <=> Sound(proof)
  BY <1>2 DEF Sound, Steady
<1> QED
  BY <1>2, <1>4, <1>5, <1>6 DEF ProofTrue

LEMMA TurnsSnapshots ==
  ASSUME TypeInv, StreamHeld, TurnMoves, UNCHANGED linkVars
  PROVE  SnapshotsStay
<1> SUFFICES ASSUME NEW s \in Snapshot, NEW r \in Requests, SnapshotTrue(s, r)
             PROVE  SnapshotTrue(s, r)'
  BY DEF SnapshotsStay
<1>1. /\ Len(log) \in Nat /\ Len(log') \in Nat /\ Len(log) <= Len(log')
      /\ \A x : Ended(x) => Ended(x)'
      /\ Finishes => \A x : x = active => Ended(x)'
      /\ ~Finishes => log' = log
  BY LogGrows
<1>2. link' = link /\ received' = received /\ Connected' = Connected
  BY DEF linkVars, Connected
<1>3. r \in Turns /\ r # NoTurn
  BY TurnsAssumption DEF Turns
<1>4. s.inflight = r => Begun(r) /\ Begun(r)'
  BY <1>3 DEF TurnMoves, SnapshotTrue
<1>5. ASSUME s.inflight = r, active' = r, ~Ended(r)'
      PROVE  active = r /\ ~Ended(r) /\ log' = log
  <2>1. ~Forgets /\ ~Starts
    BY <1>3, <1>4, <1>5 DEF Forgets, Starts
  <2>2. ~Finishes
    BY <1>1, <1>3, <1>5 DEF Finishes
  <2>3. Keeps
    BY <2>1, <2>2 DEF TurnMoves
  <2> QED
    BY <1>1, <1>5, <2>3 DEF Keeps
<1>6. s.upto \in Nat
  BY DEF Snapshot
<1> QED
  BY <1>1, <1>2, <1>4, <1>5, <1>6 DEF SnapshotTrue

LEMMA TurnsContinuous ==
  ASSUME TypeInv, TurnMoves, UNCHANGED linkVars
  PROVE  Continuous
<1>1. \A x : Ended(x) => Ended(x)'
  BY LogGrows
<1>2. conn' = conn /\ link' = link /\ evictedTo' = evictedTo /\ degraded' = degraded
      /\ Connected' = Connected
  BY DEF linkVars, Connected
<1>3. conn \in Nat /\ evictedTo \in Nat
  BY DEF TypeInv, LinkTypeOK
<1>4. \A r \in Requests : Begun(r) => Begun(r)'
  BY DEF TurnMoves, Turns
<1>5. ASSUME NEW r \in Requests, Begun(r), active' = r, phase' = "running"
      PROVE  active = r /\ phase = "running"
  BY <1>5 DEF TurnMoves, Starts
<1> QED
  BY <1>1, <1>2, <1>3, <1>4, <1>5 DEF Continuous

LEMMA LinkProofs ==
  ASSUME TypeInv, StreamHeld, LinkStep, UNCHANGED gatewayVars
  PROVE  ProofsStay /\ Continuous
<1>1. /\ conn' = conn /\ link # "down" /\ link' # "down"
      /\ \A x : Ended(x)' <=> Ended(x)
      /\ \A x : Begun(x)' <=> Begun(x)
      /\ phase' = phase /\ active' = active /\ log' = log
  BY Stays DEF gatewayVars, LinkStep, ReplayWhole, ReplayTruncated, ReplayFails, Settle, Deliver,
         FirstEvent, RingPressure, Connected
<1>2. /\ conn \in Nat /\ evictedTo \in Nat /\ received \in Nat /\ watermark \in Nat
      /\ ring \subseteq Events /\ Len(log) \in Nat
  BY LenProperties DEF TypeInv, LinkTypeOK, GatewayInv, GatewayTypeOK
<1>3. evictedTo' \in Nat /\ evictedTo <= evictedTo'
  BY <1>2 DEF LinkStep, ReplayWhole, ReplayTruncated, ReplayFails, Settle, Deliver,
         FirstEvent, RingPressure, ringVars, Events
<1>4. link = "open" => link' = "open" /\ degraded' = degraded
  BY DEF LinkStep, ReplayWhole, ReplayTruncated, ReplayFails, Settle, Deliver, FirstEvent,
         RingPressure
<1>5. Continuous
  BY <1>1, <1>2, <1>3, <1>4 DEF Continuous, Connected
<1>6. ASSUME NEW proof \in Proof, NEW r \in Requests, ProofTrue(proof, r)
      PROVE  ProofTrue(proof, r)'
  <2>1. Sound(proof)' <=> Sound(proof)
    BY <1>1 DEF Sound, Steady
  <2>2. CASE ~Sound(proof)
    BY <1>1, <1>6, <2>1, <2>2 DEF ProofTrue
  <2>3. CASE Sound(proof)
    <3> DEFINE W == proof.seq
    <3>0. W \in Nat
      BY DEF Proof
    <3>1. link = "open" /\ link' = "open" /\ degraded' = degraded
      BY <1>1, <1>4, <1>6, <2>3 DEF ProofTrue
    <3>2. CASE degraded
      BY <1>1, <1>6, <3>1, <3>2 DEF ProofTrue
    <3>3. CASE Reported(r, W) /\ ~degraded
      <4>1. Truncated(W) => Truncated(W)'
        BY <1>2, <1>3, <3>0 DEF Truncated
      <4>2. CASE Truncated(W)
        BY <1>1, <1>6, <3>1, <4>1, <4>2 DEF ProofTrue, Reported
      <4>3. ASSUME NEW o \in ring, o.seq > W, o.turn = r,
                   \A e \in ring : e.seq <= W \/ e = o \/ o.seq < e.seq
            PROVE  Reported(r, W)'
        <5>1. CASE ring' = ring
          BY <4>3, <5>1 DEF Reported
        <5>2. CASE Deliver
          <6>1. ring' \subseteq ring \cup {Event(received + 1)} /\ ring \subseteq ring'
            BY <5>2 DEF Deliver
          <6>2. watermark <= received /\ o.seq <= watermark
            BY <1>1 DEF StreamHeld, Connected
          <6>3. o.seq < Event(received + 1).seq
            BY <1>2, <6>2 DEF Event, Events
          <6> QED
            BY <4>3, <6>1, <6>3 DEF Reported
        <5>3. CASE RingPressure
          <6>1. PICK e \in ring :
                  /\ \A x \in ring : e.seq <= x.seq
                  /\ ring' = ring \ {e}
                  /\ evictedTo' = IF e.seq > evictedTo THEN e.seq ELSE evictedTo
            BY <5>3 DEF RingPressure
          <6>2. CASE e = o
            <7>1. W < evictedTo'
              BY <1>2, <3>0, <4>3, <6>1, <6>2 DEF Events
            <7> QED
              BY <7>1 DEF Reported, Truncated
          <6>3. CASE e # o
            BY <4>3, <6>1, <6>3 DEF Reported
          <6> QED
            BY <6>2, <6>3
        <5> QED
          BY <3>1, <5>1, <5>2, <5>3 DEF LinkStep, ReplayWhole, ReplayTruncated, ReplayFails, Settle,
             FirstEvent
      <4> QED
        BY <1>1, <1>6, <3>1, <3>3, <4>2, <4>3 DEF ProofTrue, Reported
    <3>4. CASE Pending(r, W) /\ ~degraded
      <4>1. CASE Deliver
        <5>1. received < Len(log) /\ W <= received /\ log[received + 1].turn = r
          BY <3>1, <3>4, <4>1 DEF Deliver, Pending
        <5>2. InOrder(received + 1)
          <6>1. ~slot => watermark = 0
            BY DEF StreamHeld
          <6>2. slot => watermark = received
            BY <3>1, <3>4 DEF StreamHeld, Doubted
          <6> QED
            BY <1>2, <6>1, <6>2 DEF InOrder
        <5>3. ring' = ring \cup {Event(received + 1)}
          BY <4>1, <5>2 DEF Deliver
        <5>4. Event(received + 1).seq = received + 1 /\ Event(received + 1).turn = r
          BY <5>1 DEF Event
        <5>5. \A e \in ring : e.seq <= W
          BY <3>4 DEF Pending
        <5>6. Reported(r, W)'
          BY <1>2, <3>0, <5>1, <5>3, <5>4, <5>5 DEF Reported
        <5> QED
          BY <1>1, <1>6, <3>1, <5>6 DEF ProofTrue
      <4>2. CASE ~Deliver
        <5>1. ring' \subseteq ring /\ received' = received
          BY <3>1, <4>2 DEF LinkStep, ReplayWhole, ReplayTruncated, ReplayFails, Settle, FirstEvent,
             RingPressure
        <5>2. Busy' = Busy
          BY <1>1 DEF Busy
        <5>3. Pending(r, W)'
          BY <1>1, <3>1, <3>4, <5>1, <5>2 DEF Pending
        <5> QED
          BY <1>1, <1>6, <3>1, <5>3 DEF ProofTrue
      <4> QED
        BY <4>1, <4>2
    <3> QED
      BY <1>6, <2>3, <3>2, <3>3, <3>4 DEF ProofTrue
  <2> QED
    BY <2>2, <2>3
<1> QED
  BY <1>5, <1>6 DEF ProofsStay

LEMMA LinkSnapshots ==
  ASSUME TypeInv, StreamHeld, LinkStep \/ Reopen, UNCHANGED gatewayVars
  PROVE  SnapshotsStay
<1>1. /\ \A x : Ended(x)' <=> Ended(x)
      /\ \A x : Begun(x)' <=> Begun(x)
      /\ active' = active /\ log' = log
  BY Stays DEF gatewayVars
<1>2. /\ received \in Nat /\ Len(log) \in Nat
  BY LenProperties DEF TypeInv, LinkTypeOK, GatewayInv, GatewayTypeOK
<1>3. CASE Reopen
  <2>1. received' = Len(log) /\ Connected'
    BY <1>3 DEF Reopen, Connected
  <2> QED
    BY <1>1, <2>1 DEF SnapshotsStay, SnapshotTrue
<1>4. CASE LinkStep
  <2>1. Connected /\ Connected'
    BY <1>4 DEF LinkStep, ReplayWhole, ReplayTruncated, ReplayFails, Settle, Deliver, FirstEvent,
           RingPressure, Connected
  <2>2. received = Len(log) => received' = Len(log)
    BY <1>2, <1>4 DEF LinkStep, ReplayWhole, ReplayTruncated, ReplayFails, Settle, Deliver,
       FirstEvent, RingPressure
  <2> QED
    BY <1>1, <2>1, <2>2 DEF SnapshotsStay, SnapshotTrue
<1> QED
  BY <1>3, <1>4

LEMMA ReopenProofs ==
  ASSUME TypeInv, Reopen, UNCHANGED gatewayVars
  PROVE  ProofsStay /\ Continuous
<1>1. conn \in Nat /\ conn' = conn + 1
  BY DEF TypeInv, LinkTypeOK, Reopen
<1>2. ASSUME NEW proof \in Proof, proof.conn <= conn PROVE ~Sound(proof)' /\ proof.conn <= conn'
  BY <1>1, <1>2 DEF Proof, Sound
<1>3. conn' # conn /\ conn <= conn'
  BY <1>1
<1>4. \A x : Begun(x)' <=> Begun(x)
  BY Stays DEF gatewayVars
<1> QED
  BY <1>2, <1>3, <1>4 DEF ProofsStay, ProofTrue, Continuous, gatewayVars

\* The socket is closed, by itself, with the gateway or with the bridge.
LEMMA DownProofs ==
  ASSUME TypeInv, link' = "down", conn' = conn, hist' = hist,
         UNCHANGED <<ring, evictedTo, degraded>> \/ ring' = {}
  PROVE  ProofsStay
<1> SUFFICES ASSUME NEW proof \in Proof, NEW r \in Requests, ProofTrue(proof, r)
             PROVE  ProofTrue(proof, r)'
  BY DEF ProofsStay
<1>1. Sound(proof)' <=> Sound(proof)
  BY DEF Sound, Steady
<1>2. CASE ring' = {}
  BY <1>1, <1>2 DEF ProofTrue, Pending
<1>3. CASE UNCHANGED <<ring, evictedTo, degraded>>
  BY <1>1, <1>3 DEF ProofTrue, Pending, Reported, Truncated
<1> QED
  BY <1>2, <1>3

LEMMA DownContinuous ==
  ASSUME TypeInv, link' = "down", conn' = conn, hist' = hist, UNCHANGED <<evictedTo, degraded>>,
         (phase' = phase /\ active' = active) \/ active' = NoTurn
  PROVE  Continuous
<1>1. conn \in Nat /\ evictedTo \in Nat
  BY DEF TypeInv, LinkTypeOK
<1>2. \A x : Begun(x)' <=> Begun(x)
  BY Stays
<1>3. \A r \in Requests : r # NoTurn
  BY TurnsAssumption DEF Turns
<1> QED
  BY <1>1, <1>2, <1>3 DEF Continuous, Connected

LEMMA DownSnapshots ==
  ASSUME TypeInv, link' = "down", hist' = hist,
         (log' = log /\ active' = active) \/ (log' = <<>> /\ active' = NoTurn),
         NEW s \in Snapshot, NEW r \in Requests, SnapshotTrue(s, r),
         NEW next, next = AfterDrop(s) \/ (~Connected /\ next = s)
  PROVE  /\ next \in Snapshot /\ SnapshotTrue(next, r)'
         /\ next.ok => /\ s.ok /\ next.running = s.running
                       /\ next.inflight = s.inflight /\ next.failed = s.failed
<1>1. \A x : Begun(x)' <=> Begun(x)
  BY Stays
<1>2. r # NoTurn /\ ~Connected'
  BY TurnsAssumption DEF Turns, Connected
<1>3. Len(log') \in Nat
  BY LenProperties, EmptySeq DEF TypeInv, GatewayInv, GatewayTypeOK
<1>4. /\ next \in Snapshot
      /\ next.ok => next.running = s.running /\ next.failed = s.failed /\ s.ok
      /\ next.inflight = s.inflight \/ next.inflight = NoTurn
      /\ next.ok => next.inflight = s.inflight
      /\ next.upto = 0
  <2>1. CASE next = [s EXCEPT !.upto = 0]
    BY <2>1 DEF Snapshot
  <2>2. CASE next = NoSnapshot
    BY <2>2, StartValues DEF NoSnapshot
  <2>3. CASE ~Connected /\ next = s
    BY <2>3 DEF SnapshotTrue
  <2> QED
    BY <2>1, <2>2, <2>3 DEF AfterDrop
<1> QED
  BY <1>1, <1>2, <1>3, <1>4 DEF SnapshotTrue

-----------------------------------------------------------------------------
(* Calls that do not move themselves.                                      *)

LEMMA PromptKept ==
  ASSUME TypeInv, Continuous, ProofsStay, NEW c \in PromptCall, PromptTrue(c),
         NEW s \in Snapshot, c.req \in Requests => SnapshotTrue(s, c.req)',
         NEW next, next = [c EXCEPT !.snapshot = s]
  PROVE  PromptTrue(next)'
<1> SUFFICES ASSUME next.pc # "idle" PROVE PromptTrue(next)'
  BY DEF PromptTrue
<1>1. /\ next.pc = c.pc /\ next.req = c.req /\ next.proof = c.proof /\ next.snapshot = s
      /\ next.ack = c.ack /\ next.claimed = c.claimed
      /\ c.req \in Requests /\ c.proof \in Proof
  BY DEF PromptCall, CallOf, Prompt
<1>2. ProofTrue(next.proof, next.req)'
  BY <1>1 DEF ProofsStay, PromptTrue
<1>3. next.ack = "streaming" => Begun(next.req)'
  BY <1>1 DEF Continuous, PromptTrue
<1> QED
  BY <1>1, <1>2, <1>3 DEF PromptTrue

LEMMA WaiterKept ==
  ASSUME TypeInv, TypeInv', Continuous, ProofsStay, NEW c \in WaiterCall, WaiterTrue(c),
         NEW s \in Snapshot, c.req \in Requests => SnapshotTrue(s, c.req)',
         s.ok => /\ c.snapshot.ok /\ s.running = c.snapshot.running
                 /\ s.inflight = c.snapshot.inflight /\ s.failed = c.snapshot.failed,
         NEW next, next = [c EXCEPT !.snapshot = s]
  PROVE  WaiterTrue(next)'
<1> SUFFICES ASSUME next.pc # "idle" PROVE WaiterTrue(next)'
  BY DEF WaiterTrue
<1>1. /\ next.pc = c.pc /\ next.req = c.req /\ next.proof = c.proof /\ next.snapshot = s
      /\ next.event = c.event /\ next.cursor = c.cursor /\ next.admitted = c.admitted
      /\ c.req \in Requests /\ c.proof \in Proof /\ c.cursor \in Nat /\ c.admitted \in Nat
  BY DEF WaiterCall, CallOf, Waiter
<1>2. /\ conn \in Nat /\ conn' \in Nat /\ conn <= conn' /\ c.proof.conn \in Nat
      /\ evictedTo \in Nat /\ evictedTo' \in Nat
  BY <1>1 DEF TypeInv, LinkTypeOK, Continuous, Proof
<1>3. ProofTrue(c.proof, c.req) /\ ProofTrue(c.proof, c.req)'
  BY <1>1 DEF ProofsStay, WaiterTrue
<1>4. ASSUME Sound(c.proof)' PROVE Sound(c.proof) /\ conn' = conn /\ link \in {"open", "down"}
  <2>1. c.proof.conn <= conn /\ c.proof.conn = conn'
    BY <1>3, <1>4 DEF ProofTrue, Sound
  <2>2. conn' = conn
    BY <1>2, <2>1
  <2>3. Sound(c.proof)
    BY <1>4, <2>2 DEF Sound, Steady
  <2> QED
    BY <1>3, <2>2, <2>3 DEF ProofTrue
<1>5. Steady(c.proof)' <=> Steady(c.proof)
  BY DEF Steady
<1>6. CursorHeld(next)'
  BY <1>1, <1>4 DEF CursorHeld, WaiterTrue, Continuous
<1>7. EventOwn(next)'
  <2> SUFFICES ASSUME c.event # NoEvent PROVE EventOwn(next)'
    BY <1>1 DEF EventOwn
  <2>1. EventOwn(c)
    BY <1>1 DEF WaiterTrue
  <2>2. c.pc \in {"admit", "ask", "decide", "deliver", "mark"}
    BY <2>1 DEF EventOwn
  <2>3. c.pc = "admit" /\ Sound(c.proof)' => c.event.turn = c.req \/ Truncated(c.cursor)'
    BY <1>1, <1>2, <1>4, <2>1 DEF EventOwn, Truncated, Continuous
  <2>4. c.pc \in {"admit", "ask"} /\ Sound(c.proof)' /\ Connected' /\ c.event.turn = c.req =>
          Ended(c.req)'
    BY <1>1, <1>4, <2>1 DEF EventOwn, Continuous
  <2>5. c.pc \in {"ask", "decide", "deliver"} =>
          /\ c.proof.conn <= c.admitted /\ c.admitted <= conn'
          /\ Steady(c.proof)' /\ c.proof.conn = c.admitted => c.event.turn = c.req
    BY <1>1, <1>2, <1>5, <2>1 DEF EventOwn
  <2> QED
    BY <1>1, <2>2, <2>3, <2>4, <2>5 DEF EventOwn
<1>8. EvidenceTrue(next)'
  <2> SUFFICES ASSUME s.ok PROVE EvidenceTrue(next)'
    BY <1>1 DEF EvidenceTrue
  <2>1. EvidenceTrue(c) /\ (c.pc # "mark" => Begun(c.req))
    BY <1>1 DEF WaiterTrue
  <2>2. c.pc = "decide" /\ Sound(c.proof)' /\ s.inflight = c.req => s.failed
    BY <1>4, <2>1 DEF EvidenceTrue
  <2>3. c.pc = "expired" /\ ~s.running /\ s.inflight = NoTurn =>
          ~(active' = c.req /\ phase' = "running")
    BY <1>1, <2>1 DEF EvidenceTrue, Continuous
  <2> QED
    BY <1>1, <2>2, <2>3 DEF EvidenceTrue
<1>9. next.pc # "mark" => Begun(next.req)'
  BY <1>1 DEF WaiterTrue, Continuous
<1> QED
  BY <1>1, <1>3, <1>6, <1>7, <1>8, <1>9 DEF WaiterTrue

\* A step that leaves the gateway's turns and the connection alone.
SameWorld == UNCHANGED <<gwRun, phase, active, queue, log, hist, linkVars>>

LEMMA SameWorldStays ==
  ASSUME SameWorld
  PROVE  /\ StreamHeld' <=> StreamHeld
         /\ \A c : PromptTrue(c)' <=> PromptTrue(c)
         /\ \A c : WaiterTrue(c)' <=> WaiterTrue(c)
         /\ \A record, r : RecordTrue(record, r)' <=> RecordTrue(record, r)
<1>1. /\ \A x : Begun(x)' <=> Begun(x)
      /\ \A x : Ended(x)' <=> Ended(x)
  BY Stays DEF SameWorld
<1>2. StreamHeld' <=> StreamHeld
  BY DEF SameWorld, linkVars, StreamHeld, Connected, Doubted
<1>3. \A s, r : SnapshotTrue(s, r)' <=> SnapshotTrue(s, r)
  BY <1>1 DEF SameWorld, linkVars, SnapshotTrue, Connected
<1>4. \A proof : Sound(proof)' <=> Sound(proof)
  BY DEF SameWorld, linkVars, Sound, Steady
<1>5. \A proof, r : ProofTrue(proof, r)' <=> ProofTrue(proof, r)
  BY <1>4 DEF SameWorld, linkVars, ProofTrue, Pending, Reported, Truncated, Busy
<1>6. \A c : CursorHeld(c)' <=> CursorHeld(c)
  BY <1>4 DEF SameWorld, linkVars, CursorHeld
<1>7. \A c : EventOwn(c)' <=> EventOwn(c)
  BY <1>1, <1>4 DEF SameWorld, linkVars, EventOwn, Truncated, Connected, Steady
<1>8. \A c : EvidenceTrue(c)' <=> EvidenceTrue(c)
  BY <1>4 DEF SameWorld, EvidenceTrue
<1> QED
  BY <1>1, <1>2, <1>3, <1>5, <1>6, <1>7, <1>8 DEF PromptTrue, WaiterTrue, RecordTrue

-----------------------------------------------------------------------------
(* What a call reads.                                                      *)

LEMMA Nothing ==
  ASSUME TypeInv, NEW r \in Requests
  PROVE  SnapshotTrue(NoSnapshot, r) /\ ProofTrue(NoProof, r)
<1>1. r # NoTurn /\ Len(log) \in Nat /\ conn \in Nat
  BY TurnsAssumption, LenProperties DEF Turns, TypeInv, GatewayInv, GatewayTypeOK, LinkTypeOK
<1> QED
  BY <1>1 DEF SnapshotTrue, NoSnapshot, ProofTrue, NoProof, Sound, Steady

LEMMA FreshSnapshot ==
  ASSUME TypeInv, TurnsOnce, NEW r \in Requests, NEW s \in Snapshots
  PROVE  SnapshotTrue(s, r)
<1>1. r # NoTurn /\ Len(log) \in Nat
  BY TurnsAssumption, LenProperties DEF Turns, TypeInv, GatewayInv, GatewayTypeOK
<1>2. CASE s = NoSnapshot
  BY <1>2, Nothing
<1>3. CASE Connected /\ s \in Evidence
  <2>1. s.upto = Len(log) /\ s.inflight = Inflight
    BY <1>3 DEF Evidence
  <2>2. s.inflight = r => Begun(r)
    BY <1>1, <2>1 DEF Inflight, TurnsOnce
  <2> QED
    BY <1>1, <1>3, <2>1, <2>2 DEF SnapshotTrue
<1> QED
  BY <1>2, <1>3 DEF Snapshots, Reachable

\* The proof depends on these parts of it only.
LEMMA SameProof ==
  ASSUME NEW r, NEW old, ProofTrue(old, r), NEW new,
         new.seq = old.seq, new.conn = old.conn,
         new.running = old.running, new.settled = old.settled
  PROVE  ProofTrue(new, r)
BY DEF ProofTrue, Sound, Steady

(***************************************************************************)
(* A cursor read with the turn still going on lies before its completion   *)
(* and behind every other one: the socket has given all that was reported  *)
(* before the snapshot, and nothing was reported since.                    *)
(***************************************************************************)
LEMMA CursorTrue ==
  ASSUME TypeInv, TurnsOnce, StreamHeld, NEW r \in Requests, NEW s \in Snapshot,
         SnapshotTrue(s, r), Owns(s, r), Arrived(s)
  PROVE  ProofTrue(CursorProof(r), r)
<1> DEFINE proof == CursorProof(r)
<1>1. /\ proof.seq = watermark /\ proof.conn = conn
      /\ proof.running = (active = r /\ ~Ended(r)) /\ proof.settled = (link = "open")
  BY DEF CursorProof
<1>2. conn <= conn /\ r # NoTurn
  BY TurnsAssumption DEF TypeInv, LinkTypeOK, Turns
<1> SUFFICES ASSUME DistinctTexts, active = r, ~Ended(r), link = "open", ~degraded
             PROVE  Pending(r, watermark)
  BY <1>1, <1>2 DEF ProofTrue, Sound, Steady
<1>3. s.inflight = r /\ s.ok /\ s.running
  BY DEF Owns, Shows, Snapshot, DistinctTexts
<1>4. received \in Nat /\ Len(log) \in Nat /\ received <= Len(log) /\ s.upto \in Nat
      /\ watermark \in Nat /\ watermark <= received /\ Connected
  BY LenProperties DEF TypeInv, LinkTypeOK, GatewayInv, GatewayTypeOK, StreamHeld, Snapshot, Connected
<1>5. received = Len(log)
  BY <1>3, <1>4 DEF SnapshotTrue, Arrived
<1>6. Busy
  <2>1. phase # "idle" /\ phase # "failed"
    BY <1>2 DEF TurnsOnce
  <2> QED
    BY <2>1 DEF Busy, TypeInv, GatewayInv, GatewayTypeOK, Phases
<1>7. \A e \in ring : e.seq <= watermark
  BY DEF StreamHeld
<1> QED
  BY <1>4, <1>5, <1>6, <1>7 DEF Pending

-----------------------------------------------------------------------------
(* live_prompt.                                                            *)

LEMMA PromptGoes ==
  ASSUME TypeInv, OutcomeInv, SameWorld, UNCHANGED <<waiter, answers, submits>>,
         NEW p \in Prompters, NEW next, prompt' = [prompt EXCEPT ![p] = next], PromptTrue(next),
         \A r \in Requests : RecordTrue(row'[r], r)
  PROVE  OutcomeInv'
<1>1. TurnsOnce'
  BY TurnsOnceStays DEF OutcomeInv, SameWorld
<1>2. (\A q \in Prompters : PromptTrue(prompt[q]))'
  BY SameWorldStays DEF OutcomeInv, TypeInv
<1>3. (\A w \in Waiters : WaiterTrue(waiter[w]))'
  BY SameWorldStays DEF OutcomeInv
<1>4. (\A r \in Requests : RecordTrue(row[r], r))'
  BY SameWorldStays DEF OutcomeInv
<1>5. (DistinctTexts => SoundProofOwnOutcome)'
  BY DEF OutcomeInv, SoundProofOwnOutcome, DistinctTexts
<1>6. StreamHeld'
  BY SameWorldStays DEF OutcomeInv
<1> QED
  BY <1>1, <1>2, <1>3, <1>4, <1>5, <1>6 DEF OutcomeInv

LEMMA PromptStepTrue ==
  ASSUME TypeInv, OutcomeInv, NEW p \in Prompters, PromptStep(p), ~PromptSubmit(p)
  PROVE  OutcomeInv'
<1> DEFINE c == prompt[p]
<1>1. c \in Prompt /\ (c.pc # "idle" => c.req \in Requests /\ c \in PromptCall)
  BY DEF TypeInv, PromptCall, CallOf
<1>2. PromptTrue(c) /\ \A r \in Requests : RecordTrue(row[r], r)
  BY DEF OutcomeInv
<1>3. SameWorld /\ UNCHANGED <<waiter, answers, submits>>
  BY DEF SameWorld, PromptStep, PromptFrame, PromptLocal, PromptCapture, PromptReserve, PromptReplay,
         PromptReply, PromptNotAccepted, PromptAsk, PromptCursor, PromptGeneration, PromptAck,
         PromptError, gatewayVars
<1>4. PromptTrue(IdlePrompt)
  BY DEF PromptTrue, IdlePrompt
<1>5. ASSUME NEW r \in Requests, PromptCapture(p, r) PROVE OutcomeInv'
  <2>1. PICK b : prompt' = [prompt EXCEPT ![p] =
                   [IdlePrompt EXCEPT !.pc = "reserve", !.req = r, !.boundary = b]]
    BY <1>5 DEF PromptCapture
  <2> DEFINE next == [IdlePrompt EXCEPT !.pc = "reserve", !.req = r, !.boundary = b]
  <2>2. /\ next.snapshot = NoSnapshot /\ next.req = r /\ next.proof = NoProof
        /\ next.pc = "reserve" /\ next.ack = "none" /\ next.claimed = FALSE
    BY DEF IdlePrompt
  <2>3. PromptTrue(next)
    BY <2>2, Nothing DEF PromptTrue
  <2>4. row' = row /\ prompt' = [prompt EXCEPT ![p] = next]
    BY <1>5, <2>1 DEF PromptCapture
  <2> HIDE DEF next
  <2> QED
    BY <1>2, <1>3, <2>3, <2>4, PromptGoes
<1>6. CASE PromptReserve(p)
  <2> DEFINE next == [c EXCEPT !.pc = "submit"]
             record == [AbsentRow EXCEPT !.status = "pending", !.boundary = c.boundary]
  <2>1. prompt' = [prompt EXCEPT ![p] = next] /\ row' = [row EXCEPT ![c.req] = record]
        /\ c.pc = "reserve"
    BY <1>6 DEF PromptReserve, PromptAt, TypeInv
  <2>2. PromptTrue(next)
    BY <1>1, <1>2, <2>1 DEF PromptTrue, Prompt
  <2>3. record.claimed = FALSE /\ record.proof = NoProof
    BY DEF AbsentRow
  <2>4. RecordTrue(record, c.req)
    BY <1>1, <2>1, <2>3, Nothing DEF RecordTrue
  <2> HIDE DEF next, record
  <2>5. \A r \in Requests : RecordTrue(row'[r], r)
    BY <1>2, <2>1, <2>4 DEF TypeInv
  <2> QED
    BY <1>3, <2>1, <2>2, <2>5, PromptGoes
<1>7. CASE PromptReplay(p)
  BY <1>2, <1>3, <1>4, <1>7, PromptGoes DEF PromptReplay, PromptLocal
<1>8. CASE PromptReply(p)
  <2> DEFINE pc == IF ~c.snapshot.ok THEN "unknown" ELSE IF c.ack = "streaming" THEN "prove" ELSE "ack"
             next == [c EXCEPT !.pc = pc, !.snapshot = NoSnapshot]
  <2>1. c.pc = "sent" /\ row' = row /\ prompt' = [prompt EXCEPT ![p] = next]
    BY <1>8 DEF PromptReply, PromptAt, PromptLocal
  <2>2. pc \in {"unknown", "prove", "ack"} /\ (pc = "prove" => c.ack = "streaming")
    OBVIOUS
  <2> HIDE DEF pc
  <2>3. PromptTrue(next)
    BY <1>1, <1>2, <2>1, <2>2, Nothing DEF PromptTrue, Prompt
  <2> HIDE DEF next
  <2> QED
    BY <1>2, <1>3, <2>1, <2>3, PromptGoes
<1>9. CASE PromptNotAccepted(p)
  <2>1. PICK pc \in {"unknown", "failed"} : prompt' = [prompt EXCEPT ![p].pc = pc]
    BY <1>9 DEF PromptNotAccepted
  <2> DEFINE next == [c EXCEPT !.pc = pc]
  <2>2. c.pc = "submit" /\ row' = row /\ prompt' = [prompt EXCEPT ![p] = next]
    BY <1>9, <2>1 DEF PromptNotAccepted, PromptAt, PromptLocal, TypeInv
  <2>3. PromptTrue(next)
    BY <1>1, <1>2, <2>1, <2>2 DEF PromptTrue, Prompt
  <2> HIDE DEF next
  <2> QED
    BY <1>2, <1>3, <2>2, <2>3, PromptGoes
<1>10. CASE PromptAsk(p)
  <2>1. PICK s \in Snapshots : prompt' = [prompt EXCEPT ![p].pc = "cursor", ![p].snapshot = s]
    BY <1>10 DEF PromptAsk
  <2> DEFINE next == [c EXCEPT !.pc = "cursor", !.snapshot = s]
  <2>2. c.pc = "prove" /\ row' = row /\ prompt' = [prompt EXCEPT ![p] = next]
    BY <1>10, <2>1 DEF PromptAsk, PromptAt, PromptLocal, TypeInv
  <2>3. SnapshotTrue(s, c.req)
    BY <1>1, <2>2, FreshSnapshot DEF OutcomeInv
  <2>4. PromptTrue(next)
    BY <1>1, <1>2, <2>2, <2>3 DEF PromptTrue, Prompt
  <2> HIDE DEF next
  <2> QED
    BY <1>2, <1>3, <2>2, <2>4, PromptGoes
<1>11. CASE PromptCursor(p)
  <2> DEFINE proves == Owns(c.snapshot, c.req) /\ epoch # 0
             pc == IF proves THEN "generation" ELSE "ack"
             proof == IF proves THEN CursorProof(c.req) ELSE NoProof
             next == [c EXCEPT !.pc = pc, !.snapshot = NoSnapshot, !.proof = proof]
  <2>1. prompt' = [prompt EXCEPT ![p] = next] /\ c.pc = "cursor" /\ row' = row /\ Arrived(c.snapshot)
    BY <1>11 DEF PromptCursor, PromptAt, PromptLocal
  <2>2. c.req \in Requests /\ c.snapshot \in Snapshot /\ SnapshotTrue(c.snapshot, c.req)
    BY <1>1, <1>2, <2>1 DEF PromptTrue, Prompt
  <2>3. proves => ProofTrue(CursorProof(c.req), c.req)
    BY <2>1, <2>2, CursorTrue DEF OutcomeInv
  <2>4. ProofTrue(proof, c.req) /\ SnapshotTrue(NoSnapshot, c.req)
    BY <2>2, <2>3, Nothing
  <2>5. c.ack = "streaming" /\ Begun(c.req)
    BY <1>2, <2>1 DEF PromptTrue
  <2>a. pc \in {"generation", "ack"}
    OBVIOUS
  <2> HIDE DEF proof, pc
  <2>6. /\ next.snapshot = NoSnapshot /\ next.req = c.req /\ next.proof = proof
        /\ next.ack = c.ack /\ next.pc \in {"generation", "ack"}
    BY <1>1, <2>a DEF Prompt
  <2>7. PromptTrue(next)
    BY <2>4, <2>5, <2>6 DEF PromptTrue
  <2> HIDE DEF next
  <2> QED
    BY <1>2, <1>3, <2>1, <2>7, PromptGoes
<1>12. CASE PromptGeneration(p)
  <2> DEFINE next == [c EXCEPT !.pc = "ack", !.claimed = TRUE, !.proof.gen = gen]
  <2>1. c.pc = "generation" /\ row' = row /\ prompt' = [prompt EXCEPT ![p] = next]
    BY <1>12 DEF PromptGeneration, PromptAt, PromptLocal, TypeInv
  <2>2. /\ next.snapshot = c.snapshot /\ next.req = c.req /\ next.ack = c.ack /\ next.pc = "ack"
        /\ next.proof = [c.proof EXCEPT !.gen = gen]
    BY <1>1 DEF Prompt
  <2>3. /\ next.proof.seq = c.proof.seq /\ next.proof.conn = c.proof.conn
        /\ next.proof.running = c.proof.running /\ next.proof.settled = c.proof.settled
    BY <1>1, <2>2 DEF Prompt, Proof
  <2>4. c.ack = "streaming" /\ Begun(c.req) /\ ProofTrue(c.proof, c.req)
        /\ SnapshotTrue(c.snapshot, c.req)
    BY <1>2, <2>1 DEF PromptTrue
  <2> HIDE DEF next
  <2>5. ProofTrue(next.proof, c.req)
    BY <2>3, <2>4, SameProof
  <2>6. PromptTrue(next)
    BY <2>2, <2>4, <2>5 DEF PromptTrue
  <2> QED
    BY <1>2, <1>3, <2>1, <2>6, PromptGoes
<1>13. CASE PromptAck(p)
  <2> DEFINE record == [row[c.req] EXCEPT !.status = c.ack, !.claimed = c.claimed, !.proof = c.proof]
  <2>1. c.pc = "ack" /\ prompt' = [prompt EXCEPT ![p] = IdlePrompt]
        /\ row' = [row EXCEPT ![c.req] = record]
    BY <1>13 DEF PromptAck, PromptAt, TypeInv
  <2>2. record.claimed = c.claimed /\ record.proof = c.proof
    BY <1>1, <2>1 DEF TypeInv, Row
  <2>3. RecordTrue(record, c.req)
    BY <1>2, <2>1, <2>2 DEF PromptTrue, RecordTrue
  <2> HIDE DEF record
  <2>4. \A r \in Requests : RecordTrue(row'[r], r)
    BY <1>2, <2>1, <2>3 DEF TypeInv
  <2> QED
    BY <1>3, <1>4, <2>1, <2>4, PromptGoes
<1>14. CASE PromptError(p)
  <2>1. c.pc # "idle" /\ prompt' = [prompt EXCEPT ![p] = IdlePrompt]
        /\ row' = [row EXCEPT ![c.req].status = c.pc]
    BY <1>14 DEF PromptError
  <2>2. \A r \in Requests : row'[r].claimed = row[r].claimed /\ row'[r].proof = row[r].proof
    BY <1>1, <2>1 DEF TypeInv, Row
  <2>3. \A r \in Requests : RecordTrue(row'[r], r)
    BY <1>2, <2>2 DEF RecordTrue
  <2> QED
    BY <1>3, <1>4, <2>1, <2>3, PromptGoes
<1> QED
  BY <1>5, <1>6, <1>7, <1>8, <1>9, <1>10, <1>11, <1>12, <1>13, <1>14 DEF PromptStep

-----------------------------------------------------------------------------
(* The world moves.                                                        *)

LEMMA AnswersKept ==
  ASSUME OutcomeInv, answers' = answers
  PROVE  (DistinctTexts => SoundProofOwnOutcome)'
BY DEF OutcomeInv, SoundProofOwnOutcome, DistinctTexts

LEMMA RecordsKeptTrue ==
  ASSUME TypeInv, OutcomeInv, ProofsStay, \A r \in Requests : Begun(r) => Begun(r)', row' = row
  PROVE  (\A r \in Requests : RecordTrue(row[r], r))'
BY DEF OutcomeInv, RecordTrue, ProofsStay, TypeInv, Row

\* A call keeps what it remembers; its snapshot may have been lost.
LEMMA PromptsKept ==
  ASSUME TypeInv, OutcomeInv, Continuous, ProofsStay, NEW p \in Prompters,
         NEW s \in Snapshot, prompt'[p] = [prompt[p] EXCEPT !.snapshot = s],
         \A r \in Requests : SnapshotTrue(prompt[p].snapshot, r) => SnapshotTrue(s, r)'
  PROVE  PromptTrue(prompt[p])'
<1>1. PICK c : c = prompt[p]
  OBVIOUS
<1>2. PICK next : next = prompt'[p]
  OBVIOUS
<1>3. c \in PromptCall /\ PromptTrue(c)
  BY <1>1 DEF TypeInv, OutcomeInv
<1>4. CASE c.pc = "idle"
  <2>1. next.pc = "idle"
    BY <1>1, <1>2, <1>3, <1>4 DEF PromptCall, CallOf, Prompt
  <2> QED
    BY <1>2, <2>1 DEF PromptTrue
<1>5. CASE c.pc # "idle"
  <2>1. c.req \in Requests /\ SnapshotTrue(c.snapshot, c.req)
    BY <1>3, <1>5 DEF PromptTrue, PromptCall, CallOf
  <2>2. PromptTrue(next)'
    BY <1>1, <1>2, <1>3, <2>1, PromptKept
  <2> QED
    BY <1>2, <2>2
<1> QED
  BY <1>4, <1>5

LEMMA WaitersKept ==
  ASSUME TypeInv, TypeInv', OutcomeInv, Continuous, ProofsStay, NEW w \in Waiters,
         NEW s \in Snapshot, waiter'[w] = [waiter[w] EXCEPT !.snapshot = s],
         \A r \in Requests : SnapshotTrue(waiter[w].snapshot, r) => SnapshotTrue(s, r)',
         s.ok => /\ waiter[w].snapshot.ok /\ s.running = waiter[w].snapshot.running
                 /\ s.inflight = waiter[w].snapshot.inflight /\ s.failed = waiter[w].snapshot.failed
  PROVE  WaiterTrue(waiter[w])'
<1>1. PICK c : c = waiter[w]
  OBVIOUS
<1>2. PICK next : next = waiter'[w]
  OBVIOUS
<1>3. c \in WaiterCall /\ WaiterTrue(c)
  BY <1>1 DEF TypeInv, OutcomeInv
<1>4. CASE c.pc = "idle"
  <2>1. next.pc = "idle"
    BY <1>1, <1>2, <1>3, <1>4 DEF WaiterCall, CallOf, Waiter
  <2> QED
    BY <1>2, <2>1 DEF WaiterTrue
<1>5. CASE c.pc # "idle"
  <2>1. c.req \in Requests /\ SnapshotTrue(c.snapshot, c.req)
    BY <1>3, <1>5 DEF WaiterTrue, WaiterCall, CallOf
  <2>2. WaiterTrue(next)'
    BY <1>1, <1>2, <1>3, <2>1, WaiterKept
  <2> QED
    BY <1>2, <2>2
<1> QED
  BY <1>4, <1>5

\* Calls that neither move nor lose a reply.
LEMMA Undisturbed ==
  ASSUME TypeInv, TypeInv', OutcomeInv, Continuous, ProofsStay, SnapshotsStay
  PROVE  /\ \A p \in Prompters : prompt'[p] = prompt[p] => PromptTrue(prompt[p])'
         /\ \A w \in Waiters : waiter'[w] = waiter[w] => WaiterTrue(waiter[w])'
<1>1. ASSUME NEW p \in Prompters, prompt'[p] = prompt[p] PROVE PromptTrue(prompt[p])'
  <2>1. prompt[p].snapshot \in Snapshot /\ prompt[p] = [prompt[p] EXCEPT !.snapshot = prompt[p].snapshot]
    BY DEF TypeInv, PromptCall, CallOf, Prompt
  <2> QED
    BY <1>1, <2>1, PromptsKept DEF SnapshotsStay
<1>2. ASSUME NEW w \in Waiters, waiter'[w] = waiter[w] PROVE WaiterTrue(waiter[w])'
  <2>1. waiter[w].snapshot \in Snapshot /\ waiter[w] = [waiter[w] EXCEPT !.snapshot = waiter[w].snapshot]
    BY DEF TypeInv, WaiterCall, CallOf, Waiter
  <2>2. PICK s : s = waiter[w].snapshot
    OBVIOUS
  <2> QED
    BY <1>2, <2>1, <2>2, WaitersKept DEF SnapshotsStay
<1> QED
  BY <1>1, <1>2

LEMMA WorldTrue ==
  ASSUME TypeInv, TypeInv', OutcomeInv, TurnsOnce', StreamHeld', Continuous, ProofsStay, SnapshotsStay,
         UNCHANGED <<row, prompt, waiter, answers>>
  PROVE  OutcomeInv'
<1>1. (\A r \in Requests : RecordTrue(row[r], r))'
  BY RecordsKeptTrue DEF Continuous
<1> QED
  BY <1>1, AnswersKept, Undisturbed DEF OutcomeInv

LEMMA PromptSubmitTrue ==
  ASSUME TypeInv, TypeInv', SubmitsRecorded, OutcomeInv, NEW p \in Prompters, PromptSubmit(p)
  PROVE  OutcomeInv'
<1>0. PICK c : c = prompt[p]
  OBVIOUS
<1>1. PICK r \in Requests : r = c.req
  BY <1>0 DEF PromptSubmit, PromptAt, TypeInv, PromptCall, CallOf
<1>2. /\ Admit(r) /\ Connected /\ UNCHANGED <<row, linkVars, waiter, answers>>
      /\ submits' = [submits EXCEPT ![r] = @ + 1] /\ submits[r] = 0
  BY <1>0, <1>1 DEF PromptSubmit, PromptAt, PromptFrame, SubmitsRecorded
<1>3. submits'[r] # 0 /\ \A x \in Requests \ {r} : submits'[x] = submits[x]
  BY <1>2 DEF TypeInv
<1>4. TurnsOnce /\ StreamHeld /\ r \in Turns /\ GatewayTypeOK
  BY DEF OutcomeInv, Turns, TypeInv, GatewayInv
<1>5. TurnsOnce' /\ TurnMoves
  BY <1>2, <1>3, <1>4, AdmitOnce, AdmitMoves
<1>6. ProofsStay /\ SnapshotsStay /\ Continuous /\ StreamHeld'
  BY <1>2, <1>4, <1>5, TurnsProofs, TurnsSnapshots, TurnsContinuous, StreamGateway
<1>7. (\A q \in Requests : RecordTrue(row[q], q))'
  BY <1>2, <1>6, RecordsKeptTrue DEF Continuous
<1>8. \A q \in Prompters \ {p} : PromptTrue(prompt[q])'
  BY <1>6, Undisturbed DEF PromptSubmit, TypeInv
<1>9. PromptTrue(prompt[p])'
  <2>0. PICK s \in {[NoSnapshot EXCEPT !.ok = TRUE, !.upto = Len(log)], NoSnapshot} :
          prompt' = [prompt EXCEPT ![p] = [@ EXCEPT !.pc = "sent", !.snapshot = s,
                                             !.ack = IF ClaimsNow THEN "streaming" ELSE "queued"]]
    BY DEF PromptSubmit
  <2>a. PICK ack \in {"streaming", "queued"} : ack = IF ClaimsNow THEN "streaming" ELSE "queued"
    OBVIOUS
  <2>b. PICK next : next = [c EXCEPT !.pc = "sent", !.snapshot = s, !.ack = ack]
    OBVIOUS
  <2>1. prompt'[p] = next /\ (ack = "streaming" => ClaimsNow)
    BY <1>0, <2>0, <2>a, <2>b DEF TypeInv
  <2>2. /\ next.pc = "sent" /\ next.snapshot = s /\ next.ack = ack /\ next.req = r
        /\ next.proof = c.proof /\ next.claimed = c.claimed
        /\ c.proof \in Proof /\ c.pc = "submit"
    BY <1>0, <1>1, <2>b DEF TypeInv, PromptCall, CallOf, Prompt, PromptSubmit, PromptAt
  <2>3. ProofTrue(c.proof, r) /\ ~c.claimed
    BY <1>0, <1>1, <2>2 DEF OutcomeInv, PromptTrue
  <2>4. ack = "streaming" => Begun(r)'
    BY <1>2, <1>4, <2>1, Begins DEF Admit, Begin
  <2>5. SnapshotTrue(s, r)'
    <3>1. log' = log /\ Connected' /\ Len(log) \in Nat /\ r # NoTurn
      BY <1>2, <1>4, TurnsAssumption, LenProperties
         DEF Admit, linkVars, Connected, Turns, GatewayTypeOK
    <3>2. s.inflight = NoTurn /\ s.running = FALSE /\ s.upto \in {0, Len(log)}
      <4>1. CASE s = NoSnapshot
        BY <4>1 DEF NoSnapshot
      <4>2. CASE s = [NoSnapshot EXCEPT !.ok = TRUE, !.upto = Len(log)]
        BY <4>2 DEF NoSnapshot
      <4> QED
        BY <4>1, <4>2
    <3> QED
      BY <3>1, <3>2 DEF SnapshotTrue
  <2>6. ProofTrue(c.proof, r)'
    BY <1>6, <2>2, <2>3 DEF ProofsStay
  <2>7. PromptTrue(next)'
    BY <2>2, <2>3, <2>4, <2>5, <2>6 DEF PromptTrue
  <2> QED
    BY <2>1, <2>7
<1>10. (\A q \in Prompters : PromptTrue(prompt[q]))'
  BY <1>8, <1>9
<1>11. (\A w \in Waiters : WaiterTrue(waiter[w]))'
  BY <1>2, <1>6, Undisturbed
<1> QED
  BY <1>2, <1>5, <1>6, <1>7, <1>10, <1>11, AnswersKept DEF OutcomeInv

-----------------------------------------------------------------------------
(* live_wait.                                                              *)

LEMMA WaiterGoesTrue ==
  ASSUME TypeInv, OutcomeInv, SameWorld, UNCHANGED <<prompt, submits>>,
         NEW w \in Waiters, NEW next, waiter' = [waiter EXCEPT ![w] = next], WaiterTrue(next),
         \A r \in Requests : RecordTrue(row'[r], r),
         (DistinctTexts => SoundProofOwnOutcome)'
  PROVE  OutcomeInv'
<1>1. TurnsOnce'
  BY TurnsOnceStays DEF OutcomeInv, SameWorld
<1>2. (\A p \in Prompters : PromptTrue(prompt[p]))'
  BY SameWorldStays DEF OutcomeInv
<1>3. (\A v \in Waiters : WaiterTrue(waiter[v]))'
  BY SameWorldStays DEF OutcomeInv, TypeInv
<1>4. (\A r \in Requests : RecordTrue(row[r], r))'
  BY SameWorldStays DEF OutcomeInv
<1>5. StreamHeld'
  BY SameWorldStays DEF OutcomeInv
<1> QED
  BY <1>1, <1>2, <1>3, <1>4, <1>5 DEF OutcomeInv

LEMMA WaiterMovesTrue ==
  ASSUME TypeInv, OutcomeInv, NEW w \in Waiters, NEW next, WaiterMoves(w, next), WaiterTrue(next)
  PROVE  OutcomeInv'
<1>1. /\ SameWorld /\ UNCHANGED <<prompt, submits>>
      /\ waiter' = [waiter EXCEPT ![w] = next]
      /\ row' = row /\ answers' = answers
  BY DEF WaiterMoves, WaiterFrame, SameWorld, gatewayVars
<1>2. \A r \in Requests : RecordTrue(row'[r], r)
  BY <1>1 DEF OutcomeInv
<1> QED
  BY <1>1, <1>2, AnswersKept, WaiterGoesTrue

LEMMA WaitStartTrue ==
  ASSUME TypeInv, OutcomeInv, NEW w \in Waiters, NEW r \in Requests, WaitStart(w, r)
  PROVE  OutcomeInv'
<1> DEFINE pc == IF row[r].claimed THEN "check" ELSE "mark"
           next == [IdleWaiter EXCEPT !.pc = pc, !.req = r, !.proof = row[r].proof]
<1>1. pc \in {"check", "mark"} /\ (pc # "mark" => row[r].claimed)
  OBVIOUS
<1>2. WaiterMoves(w, next)
  BY DEF WaitStart
<1>3. RecordTrue(row[r], r)
  BY DEF OutcomeInv
<1> HIDE DEF pc
<1>4. /\ next.pc = pc /\ next.req = r /\ next.proof = row[r].proof
      /\ next.snapshot = NoSnapshot /\ next.event = NoEvent
  BY DEF IdleWaiter
<1> HIDE DEF next
<1>5. ~next.snapshot.ok
  BY <1>4 DEF NoSnapshot
<1>6. CursorHeld(next) /\ EventOwn(next) /\ EvidenceTrue(next)
  BY <1>1, <1>4, <1>5 DEF CursorHeld, EventOwn, EvidenceTrue
<1>7. WaiterTrue(next)
  BY <1>1, <1>3, <1>4, <1>6, Nothing DEF WaiterTrue, RecordTrue
<1> QED
  BY <1>2, <1>7, WaiterMovesTrue

LEMMA WaitCheckTrue ==
  ASSUME TypeInv, OutcomeInv, NEW w \in Waiters, WaitCheck(w)
  PROVE  OutcomeInv'
<1> DEFINE c == waiter[w]
           fresh == c.proof.epoch = epoch /\ c.proof.gen = gen
           pc == IF fresh THEN "health" ELSE "reprove"
           cursor == IF fresh THEN c.proof.seq ELSE 0
           next == [c EXCEPT !.pc = pc, !.cursor = cursor, !.epoch = epoch, !.gen = gen]
<1>1. c \in Waiter /\ c.pc = "check" /\ WaiterTrue(c) /\ WaiterMoves(w, next)
  BY DEF WaitCheck, WaiterAt, TypeInv, WaiterCall, CallOf, OutcomeInv
<1>2. pc \in {"health", "reprove"} /\ (pc = "health" => cursor = c.proof.seq)
  OBVIOUS
<1> HIDE DEF pc, cursor
<1>3. /\ next.pc = pc /\ next.req = c.req /\ next.proof = c.proof /\ next.cursor = cursor
      /\ next.snapshot = c.snapshot /\ next.event = c.event
  BY <1>1 DEF Waiter
<1>4. c.event = NoEvent
  BY <1>1 DEF WaiterTrue, EventOwn
<1> HIDE DEF next
<1>5. CursorHeld(next) /\ EventOwn(next) /\ EvidenceTrue(next)
  BY <1>2, <1>3, <1>4 DEF CursorHeld, EventOwn, EvidenceTrue
<1>6. WaiterTrue(next)
  BY <1>1, <1>3, <1>5 DEF WaiterTrue
<1> QED
  BY <1>1, <1>6, WaiterMovesTrue

LEMMA WaitReproveTrue ==
  ASSUME TypeInv, OutcomeInv, NEW w \in Waiters, WaitReprove(w)
  PROVE  OutcomeInv'
<1> DEFINE c == waiter[w]
<1>1. PICK s \in Snapshots : WaiterMoves(w, [c EXCEPT !.pc = "recursor", !.snapshot = s])
  BY DEF WaitReprove
<1> DEFINE next == [c EXCEPT !.pc = "recursor", !.snapshot = s]
<1>2. c \in Waiter /\ c.pc = "reprove" /\ WaiterTrue(c) /\ c.req \in Requests
  BY DEF WaitReprove, WaiterAt, TypeInv, WaiterCall, CallOf, OutcomeInv
<1>3. /\ next.pc = "recursor" /\ next.req = c.req /\ next.proof = c.proof
      /\ next.snapshot = s /\ next.event = c.event
  BY <1>2 DEF Waiter
<1>4. c.event = NoEvent /\ SnapshotTrue(s, c.req)
  BY <1>2, FreshSnapshot DEF WaiterTrue, EventOwn, OutcomeInv
<1> HIDE DEF next
<1>5. CursorHeld(next) /\ EventOwn(next) /\ EvidenceTrue(next)
  BY <1>3, <1>4 DEF CursorHeld, EventOwn, EvidenceTrue
<1>6. WaiterTrue(next)
  BY <1>2, <1>3, <1>4, <1>5 DEF WaiterTrue
<1>7. WaiterMoves(w, next)
  BY <1>1 DEF next
<1> QED
  BY <1>6, <1>7, WaiterMovesTrue

LEMMA WaitRecursorTrue ==
  ASSUME TypeInv, OutcomeInv, NEW w \in Waiters, WaitRecursor(w)
  PROVE  OutcomeInv'
<1> DEFINE c == waiter[w]
           own == Owns(c.snapshot, c.req)
           proven == [c EXCEPT !.snapshot = NoSnapshot, !.pc = "persist",
                               !.proof = CursorProof(c.req), !.cursor = watermark]
           unproven == [c EXCEPT !.snapshot = NoSnapshot, !.pc = "mark"]
<1>1. /\ c \in Waiter /\ c.pc = "recursor" /\ WaiterTrue(c) /\ c.req \in Requests
      /\ Arrived(c.snapshot) /\ c.snapshot \in Snapshot
  BY DEF WaitRecursor, WaiterAt, TypeInv, WaiterCall, CallOf, OutcomeInv, Waiter
<1>2. /\ c.event = NoEvent /\ Begun(c.req) /\ SnapshotTrue(c.snapshot, c.req)
      /\ ProofTrue(c.proof, c.req) /\ SnapshotTrue(NoSnapshot, c.req) /\ ~NoSnapshot.ok
  BY <1>1, Nothing DEF WaiterTrue, EventOwn, NoSnapshot
<1>3. CASE own
  <2>1. WaiterMoves(w, proven)
    BY <1>1, <1>3 DEF WaitRecursor
  <2>2. ProofTrue(CursorProof(c.req), c.req)
    BY <1>1, <1>2, <1>3, CursorTrue DEF OutcomeInv
  <2>3. /\ proven.pc = "persist" /\ proven.req = c.req /\ proven.proof = CursorProof(c.req)
        /\ proven.snapshot = NoSnapshot /\ proven.event = c.event /\ proven.cursor = watermark
    BY <1>1 DEF Waiter
  <2>4. proven.cursor = proven.proof.seq
    BY <2>3 DEF CursorProof
  <2> HIDE DEF proven
  <2>5. CursorHeld(proven) /\ EventOwn(proven) /\ EvidenceTrue(proven)
    BY <1>2, <2>3, <2>4 DEF CursorHeld, EventOwn, EvidenceTrue
  <2>6. WaiterTrue(proven)
    BY <1>2, <2>2, <2>3, <2>5 DEF WaiterTrue
  <2> QED
    BY <2>1, <2>6, WaiterMovesTrue
<1>4. CASE ~own
  <2>1. WaiterMoves(w, unproven)
    BY <1>1, <1>4 DEF WaitRecursor
  <2>2. /\ unproven.pc = "mark" /\ unproven.req = c.req /\ unproven.proof = c.proof
        /\ unproven.snapshot = NoSnapshot /\ unproven.event = c.event
    BY <1>1 DEF Waiter
  <2> HIDE DEF unproven
  <2>3. CursorHeld(unproven) /\ EventOwn(unproven) /\ EvidenceTrue(unproven)
    BY <1>2, <2>2 DEF CursorHeld, EventOwn, EvidenceTrue
  <2>4. WaiterTrue(unproven)
    BY <1>2, <2>2, <2>3 DEF WaiterTrue
  <2> QED
    BY <2>1, <2>4, WaiterMovesTrue
<1> QED
  BY <1>3, <1>4

LEMMA WaitPersistTrue ==
  ASSUME TypeInv, OutcomeInv, NEW w \in Waiters, WaitPersist(w)
  PROVE  OutcomeInv'
<1> DEFINE c == waiter[w]
           proof == [c.proof EXCEPT !.epoch = epoch, !.gen = gen]
           next == [c EXCEPT !.pc = "health", !.proof = proof]
           record == [row[c.req] EXCEPT !.proof = proof]
<1>1. /\ c \in Waiter /\ c.pc = "persist" /\ WaiterTrue(c) /\ c.req \in Requests
      /\ row' = [row EXCEPT ![c.req] = record] /\ waiter' = [waiter EXCEPT ![w] = next]
      /\ UNCHANGED answers
  BY DEF WaitPersist, WaiterAt, TypeInv, WaiterCall, CallOf, OutcomeInv
<1>2. /\ proof.seq = c.proof.seq /\ proof.conn = c.proof.conn
      /\ proof.running = c.proof.running /\ proof.settled = c.proof.settled
  BY <1>1 DEF Waiter, Proof
<1> HIDE DEF proof
<1>3. /\ next.pc = "health" /\ next.req = c.req /\ next.proof = proof /\ next.cursor = c.cursor
      /\ next.snapshot = c.snapshot /\ next.event = c.event
      /\ record.proof = proof /\ record.claimed = row[c.req].claimed
  BY <1>1 DEF Waiter, TypeInv, Row
<1> HIDE DEF next, record
<1>4. ProofTrue(proof, c.req) /\ c.event = NoEvent /\ CursorHeld(c)
  BY <1>1, <1>2, SameProof DEF WaiterTrue, EventOwn
<1>5. Sound(proof) <=> Sound(c.proof)
  BY <1>2 DEF Sound, Steady
<1>6. CursorHeld(next) /\ EventOwn(next) /\ EvidenceTrue(next)
  BY <1>1, <1>2, <1>3, <1>4, <1>5 DEF CursorHeld, EventOwn, EvidenceTrue
<1>7. WaiterTrue(next)
  BY <1>1, <1>3, <1>4, <1>6 DEF WaiterTrue
<1>8. \A r \in Requests : RecordTrue(row'[r], r)
  BY <1>1, <1>3, <1>4 DEF TypeInv, OutcomeInv, RecordTrue
<1>9. SameWorld /\ UNCHANGED <<prompt, submits>>
  BY DEF WaitPersist, WaiterFrame, SameWorld, gatewayVars
<1> QED
  BY <1>1, <1>7, <1>8, <1>9, AnswersKept, WaiterGoesTrue

LEMMA WaitHealthTrue ==
  ASSUME TypeInv, OutcomeInv, NEW w \in Waiters, WaitHealth(w)
  PROVE  OutcomeInv'
<1> DEFINE c == waiter[w]
           pc == IF degraded THEN "mark" ELSE "block"
           next == [c EXCEPT !.pc = pc]
<1>1. c \in Waiter /\ c.pc = "health" /\ WaiterTrue(c) /\ WaiterMoves(w, next)
  BY DEF WaitHealth, WaiterAt, WaiterGoes, TypeInv, WaiterCall, CallOf, OutcomeInv
<1>2. pc \in {"mark", "block"} /\ (pc = "block" => ~degraded)
  BY DEF TypeInv, LinkTypeOK
<1> HIDE DEF pc
<1>3. /\ next.pc = pc /\ next.req = c.req /\ next.proof = c.proof /\ next.cursor = c.cursor
      /\ next.snapshot = c.snapshot /\ next.event = c.event
  BY <1>1 DEF Waiter
<1> HIDE DEF next
<1>4. c.event = NoEvent /\ CursorHeld(c)
  BY <1>1 DEF WaiterTrue, EventOwn
<1>5. CursorHeld(next) /\ EventOwn(next) /\ EvidenceTrue(next)
  BY <1>1, <1>2, <1>3, <1>4 DEF CursorHeld, EventOwn, EvidenceTrue
<1>6. WaiterTrue(next)
  BY <1>1, <1>3, <1>5 DEF WaiterTrue
<1> QED
  BY <1>1, <1>6, WaiterMovesTrue

(***************************************************************************)
(* The first completion after a sound cursor is the request's own, or the  *)
(* ring is known to have lost one.                                         *)
(***************************************************************************)
LEMMA WaitCandidateTrue ==
  ASSUME TypeInv, OutcomeInv, NEW w \in Waiters, WaitCandidate(w)
  PROVE  OutcomeInv'
<1> DEFINE c == waiter[w]
<1>1. PICK e \in Candidates(c.cursor) : WaiterMoves(w, [c EXCEPT !.pc = "admit", !.event = e])
  BY DEF WaitCandidate
<1> DEFINE next == [c EXCEPT !.pc = "admit", !.event = e]
<1>2. c \in Waiter /\ c.pc = "block" /\ WaiterTrue(c) /\ c.req \in Requests
  BY DEF WaitCandidate, WaiterAt, TypeInv, WaiterCall, CallOf, OutcomeInv
<1>3. /\ next.pc = "admit" /\ next.req = c.req /\ next.proof = c.proof /\ next.cursor = c.cursor
      /\ next.snapshot = c.snapshot /\ next.event = e
  BY <1>2 DEF Waiter
<1>4. /\ e \in ring /\ e \in Events /\ e.seq \in Nat \ {0} /\ c.cursor \in Nat /\ e.seq > c.cursor
      /\ \A o \in ring : o.seq \in Nat /\ (o.seq > c.cursor => e.seq <= o.seq)
  BY <1>1, <1>2 DEF Candidates, TypeInv, LinkTypeOK, Events, Waiter
<1>5. ASSUME Sound(c.proof) PROVE e.turn = c.req \/ Truncated(c.cursor)
  <2>1. c.cursor = c.proof.seq /\ ~degraded
    BY <1>2, <1>5 DEF WaiterTrue, CursorHeld
  <2>2. Pending(c.req, c.cursor) \/ Reported(c.req, c.cursor)
    BY <1>2, <1>5, <2>1 DEF WaiterTrue, ProofTrue
  <2>3. ~Pending(c.req, c.cursor)
    BY <1>4 DEF Pending
  <2> QED
    BY <1>4, <2>2, <2>3 DEF Reported
<1>6. ASSUME Connected, e.turn = c.req PROVE Ended(c.req)
  <2>1. watermark \in Nat /\ Len(log) \in Nat
    BY LenProperties DEF TypeInv, LinkTypeOK, GatewayInv, GatewayTypeOK
  <2>2. e.turn = log[e.seq].turn /\ e.seq <= watermark /\ watermark <= Len(log)
    BY <1>4, <1>6 DEF OutcomeInv, StreamHeld
  <2>3. e.seq \in 1 .. Len(log)
    BY <1>4, <2>1, <2>2
  <2> QED
    BY <1>6, <2>2, <2>3 DEF Ended
<1>7. WaiterMoves(w, next)
  BY <1>1
<1> HIDE DEF next
<1>8. CursorHeld(next) /\ EvidenceTrue(next)
  BY <1>2, <1>3 DEF CursorHeld, EvidenceTrue, WaiterTrue
<1>9. EventOwn(next)
  BY <1>3, <1>5, <1>6 DEF EventOwn
<1>10. WaiterTrue(next)
  BY <1>2, <1>3, <1>8, <1>9 DEF WaiterTrue
<1> QED
  BY <1>7, <1>10, WaiterMovesTrue

LEMMA WaitExpiresTrue ==
  ASSUME TypeInv, OutcomeInv, NEW w \in Waiters, WaitExpires(w)
  PROVE  OutcomeInv'
<1> DEFINE c == waiter[w]
           next == [c EXCEPT !.pc = "admit"]
<1>1. c \in Waiter /\ c.pc = "block" /\ WaiterTrue(c) /\ WaiterMoves(w, next)
  BY DEF WaitExpires, WaiterAt, WaiterGoes, TypeInv, WaiterCall, CallOf, OutcomeInv
<1>2. /\ next.pc = "admit" /\ next.req = c.req /\ next.proof = c.proof /\ next.cursor = c.cursor
      /\ next.snapshot = c.snapshot /\ next.event = c.event
  BY <1>1 DEF Waiter
<1> HIDE DEF next
<1>3. c.event = NoEvent /\ CursorHeld(c)
  BY <1>1 DEF WaiterTrue, EventOwn
<1>4. CursorHeld(next) /\ EventOwn(next) /\ EvidenceTrue(next)
  BY <1>1, <1>2, <1>3 DEF CursorHeld, EventOwn, EvidenceTrue
<1>5. WaiterTrue(next)
  BY <1>1, <1>2, <1>4 DEF WaiterTrue
<1> QED
  BY <1>1, <1>5, WaiterMovesTrue

LEMMA WaitAdmitTrue ==
  ASSUME TypeInv, OutcomeInv, NEW w \in Waiters, WaitAdmit(w)
  PROVE  OutcomeInv'
<1> DEFINE c == waiter[w]
           reopened == c.gen # gen \/ c.epoch # epoch
           lost == c.event # NoEvent /\ Truncated(c.cursor)
           pc == IF reopened \/ lost THEN "mark" ELSE "ask"
           next == [c EXCEPT !.pc = pc, !.admitted = conn]
<1>1. c \in Waiter /\ c.pc = "admit" /\ WaiterTrue(c) /\ WaiterMoves(w, next)
  BY DEF WaitAdmit, WaiterAt, TypeInv, WaiterCall, CallOf, OutcomeInv
<1>2. pc \in {"mark", "ask"} /\ (pc = "ask" => ~lost)
  OBVIOUS
<1> HIDE DEF pc
<1>3. /\ next.pc = pc /\ next.req = c.req /\ next.proof = c.proof /\ next.cursor = c.cursor
      /\ next.snapshot = c.snapshot /\ next.event = c.event /\ next.admitted = conn
  BY <1>1 DEF Waiter
<1> HIDE DEF next
<1>4. c.proof.conn <= conn /\ conn <= conn
  BY <1>1 DEF WaiterTrue, ProofTrue, TypeInv, LinkTypeOK
<1>5. Steady(c.proof) /\ c.proof.conn = conn <=> Sound(c.proof)
  BY DEF Sound
<1>6. EventOwn(c)
  BY <1>1 DEF WaiterTrue
<1>7. EventOwn(next)
  BY <1>1, <1>2, <1>3, <1>4, <1>5, <1>6 DEF EventOwn
<1>8. CursorHeld(next) /\ EvidenceTrue(next)
  BY <1>2, <1>3 DEF CursorHeld, EvidenceTrue
<1>9. WaiterTrue(next)
  BY <1>1, <1>3, <1>7, <1>8 DEF WaiterTrue
<1> QED
  BY <1>1, <1>9, WaiterMovesTrue

(***************************************************************************)
(* The evidence is asked for after the candidate was taken: an own turn    *)
(* that is still in flight then has ended, in failure.                     *)
(***************************************************************************)
LEMMA WaitAskTrue ==
  ASSUME TypeInv, OutcomeInv, NEW w \in Waiters, WaitAsk(w)
  PROVE  OutcomeInv'
<1> DEFINE c == waiter[w]
           pc == IF c.event = NoEvent THEN "expired" ELSE "decide"
<1>1. PICK s \in Snapshots : WaiterMoves(w, [c EXCEPT !.pc = pc, !.snapshot = s])
  BY DEF WaitAsk
<1> DEFINE next == [c EXCEPT !.pc = pc, !.snapshot = s]
<1>2. c \in Waiter /\ c.pc = "ask" /\ WaiterTrue(c) /\ c.req \in Requests /\ c.req # NoTurn
  BY TurnsAssumption DEF WaitAsk, WaiterAt, TypeInv, WaiterCall, CallOf, OutcomeInv, Turns
<1>3. pc \in {"expired", "decide"} /\ (pc = "decide" <=> c.event # NoEvent)
  OBVIOUS
<1>4. WaiterMoves(w, next)
  BY <1>1
<1> HIDE DEF pc
<1>5. /\ next.pc = pc /\ next.req = c.req /\ next.proof = c.proof /\ next.admitted = c.admitted
      /\ next.snapshot = s /\ next.event = c.event
  BY <1>2 DEF Waiter
<1> HIDE DEF next
<1>6. SnapshotTrue(s, c.req) /\ EventOwn(c)
  BY <1>2, FreshSnapshot DEF OutcomeInv, WaiterTrue
<1>7. EventOwn(next) /\ CursorHeld(next)
  BY <1>2, <1>3, <1>5, <1>6 DEF EventOwn, CursorHeld
<1>8. s.ok => /\ Connected /\ s.inflight = Inflight
              /\ s.failed = (phase \in {"failing", "failed"})
  BY DEF Snapshots, Reachable, Evidence, NoSnapshot
<1>9. ASSUME pc = "decide", s.ok, Sound(c.proof), s.inflight = c.req PROVE s.failed
  <2>1. c.proof.conn = c.admitted
    <3>1. c.proof.conn <= c.admitted /\ c.admitted <= conn /\ c.proof.conn = conn
      BY <1>2, <1>3, <1>6, <1>9 DEF EventOwn, Sound
    <3>2. c.admitted \in Nat /\ conn \in Nat
      BY <1>2 DEF Waiter, TypeInv, LinkTypeOK
    <3> QED
      BY <3>1, <3>2
  <2>2. c.event.turn = c.req
    BY <1>2, <1>3, <1>6, <1>9, <2>1 DEF EventOwn, Sound
  <2>3. Ended(c.req)
    BY <1>2, <1>3, <1>6, <1>8, <1>9, <2>2 DEF EventOwn
  <2>4. active = c.req
    BY <1>2, <1>8, <1>9 DEF Inflight
  <2>5. phase = "failed"
    BY <1>2, <2>3, <2>4 DEF OutcomeInv, TurnsOnce
  <2> QED
    BY <1>8, <1>9, <2>5
<1>10. ASSUME s.ok, s.inflight = NoTurn PROVE ~(active = c.req /\ phase = "running")
  BY <1>2, <1>8, <1>10 DEF Inflight
<1>11. EvidenceTrue(next)
  BY <1>5, <1>9, <1>10 DEF EvidenceTrue
<1>12. WaiterTrue(next)
  BY <1>2, <1>5, <1>6, <1>7, <1>11 DEF WaiterTrue
<1> QED
  BY <1>4, <1>12, WaiterMovesTrue

\* A call that goes on with its reply used up, to hand over or to deliver.
LEMMA WaiterDone ==
  ASSUME TypeInv, NEW c \in Waiter, c.req \in Requests, WaiterTrue(c),
         NEW pc \in {"mark", "deliver"}, c.pc = "decide" \/ (c.pc = "expired" /\ pc = "mark"),
         NEW next, next = [c EXCEPT !.snapshot = NoSnapshot, !.pc = pc]
  PROVE  WaiterTrue(next)
<1>1. /\ next.pc = pc /\ next.req = c.req /\ next.proof = c.proof /\ next.admitted = c.admitted
      /\ next.snapshot = NoSnapshot /\ next.event = c.event
  BY DEF Waiter
<1>2. EventOwn(c) /\ ~NoSnapshot.ok /\ c.pc \notin {"idle", "mark"}
  BY DEF WaiterTrue, NoSnapshot
<1>3. EventOwn(next) /\ CursorHeld(next) /\ EvidenceTrue(next)
  BY <1>1, <1>2 DEF EventOwn, CursorHeld, EvidenceTrue
<1> QED
  BY <1>1, <1>2, <1>3, Nothing DEF WaiterTrue

LEMMA IdleWaiterTrue == WaiterTrue(IdleWaiter)
BY DEF WaiterTrue, IdleWaiter

LEMMA WaitExpiredTrue ==
  ASSUME TypeInv, OutcomeInv, NEW w \in Waiters, WaitExpired(w)
  PROVE  OutcomeInv'
<1> DEFINE c == waiter[w]
           over == c.snapshot.ok /\ ~c.snapshot.running /\ c.snapshot.inflight = NoTurn
           marked == [c EXCEPT !.snapshot = NoSnapshot, !.pc = "mark"]
<1>1. c \in Waiter /\ c.pc = "expired" /\ WaiterTrue(c) /\ c.req \in Requests
  BY DEF WaitExpired, WaiterAt, TypeInv, WaiterCall, CallOf, OutcomeInv
<1>2. marked = [c EXCEPT !.pc = "mark", !.snapshot = NoSnapshot]
  BY <1>1 DEF Waiter
<1>3. WaiterMoves(w, IF over THEN marked ELSE IdleWaiter)
  BY <1>2 DEF WaitExpired
<1>4. WaiterTrue(marked)
  BY <1>1, WaiterDone
<1> HIDE DEF marked, over
<1> QED
  BY <1>3, <1>4, IdleWaiterTrue, WaiterMovesTrue

(***************************************************************************)
(* With a sound proof the candidate is never skipped: evidence of the own  *)
(* turn in flight shows it failed, since it has ended.                     *)
(***************************************************************************)
LEMMA WaitDecideTrue ==
  ASSUME TypeInv, OutcomeInv, NEW w \in Waiters, WaitDecide(w)
  PROVE  OutcomeInv'
<1> DEFINE c == waiter[w]
           s == c.snapshot
           own == Shows(s, c.req)
           handover == [c EXCEPT !.snapshot = NoSnapshot, !.pc = "mark"]
           deliver == [c EXCEPT !.snapshot = NoSnapshot, !.pc = "deliver"]
           skip == [c EXCEPT !.snapshot = NoSnapshot, !.pc = "block",
                             !.cursor = c.event.seq, !.event = NoEvent]
<1>1. /\ c \in Waiter /\ c.pc = "decide" /\ WaiterTrue(c) /\ c.req \in Requests
      /\ s \in Snapshot
  BY DEF WaitDecide, WaiterAt, TypeInv, WaiterCall, CallOf, OutcomeInv, Waiter
<1>2. PICK next : WaiterMoves(w, next) /\ (\/ next \in {IdleWaiter, handover, deliver}
                                           \/ next = skip /\ s.ok /\ ~degraded /\ own /\ ~s.failed)
  <2>1. s.ok \in BOOLEAN /\ s.failed \in BOOLEAN /\ degraded \in BOOLEAN /\ own \in BOOLEAN
    BY <1>1 DEF Snapshot, TypeInv, LinkTypeOK, Shows
  <2> HIDE DEF handover, deliver, skip, own
  <2> QED
    BY <2>1 DEF WaitDecide, handover, deliver, skip, own
<1>3. WaiterTrue(handover) /\ WaiterTrue(deliver)
  BY <1>1, WaiterDone
<1>4. ASSUME s.ok, ~degraded, own, ~s.failed PROVE WaiterTrue(skip)
  <2>1. ~Sound(c.proof)
    <3> SUFFICES ASSUME Sound(c.proof) PROVE FALSE
      OBVIOUS
    <3>1. s.inflight = c.req
      BY <1>1, <1>4 DEF Shows, Snapshot, Sound, Steady, DistinctTexts
    <3> QED
      BY <1>1, <1>4, <3>1 DEF WaiterTrue, EvidenceTrue
  <2>2. /\ skip.pc = "block" /\ skip.req = c.req /\ skip.proof = c.proof
        /\ skip.snapshot = NoSnapshot /\ skip.event = NoEvent
    BY <1>1 DEF Waiter
  <2>3. ~NoSnapshot.ok
    BY DEF NoSnapshot
  <2> HIDE DEF skip
  <2>4. CursorHeld(skip) /\ EventOwn(skip) /\ EvidenceTrue(skip)
    BY <2>1, <2>2, <2>3 DEF CursorHeld, EventOwn, EvidenceTrue
  <2> QED
    BY <1>1, <2>2, <2>4, Nothing DEF WaiterTrue
<1> HIDE DEF handover, deliver, skip, own
<1> QED
  BY <1>2, <1>3, <1>4, IdleWaiterTrue, WaiterMovesTrue

\* Only the status of a record changes.
LEMMA StatusTrue ==
  ASSUME TypeInv, OutcomeInv, NEW r \in Requests, NEW status,
         row' = [row EXCEPT ![r].status = status]
  PROVE  \A q \in Requests : RecordTrue(row'[q], q)
<1>1. \A q \in Requests : row'[q].claimed = row[q].claimed /\ row'[q].proof = row[q].proof
  BY DEF TypeInv, Row
<1> QED
  BY <1>1 DEF OutcomeInv, RecordTrue

LEMMA WaitDeliverTrue ==
  ASSUME TypeInv, OutcomeInv, NEW w \in Waiters, WaitDeliver(w)
  PROVE  OutcomeInv'
<1> DEFINE c == waiter[w]
           answer == [req |-> c.req, turn |-> c.event.turn,
                      conn |-> c.proof.conn = c.admitted, process |-> c.proof.process = crashes,
                      running |-> c.proof.running, settled |-> c.proof.settled]
<1>1. c \in WaiterCall /\ c.pc = "deliver" /\ WaiterTrue(c) /\ c.req \in Requests
  BY DEF WaitDeliver, WaiterAt, TypeInv, WaiterCall, CallOf, OutcomeInv
<1>2. /\ SameWorld /\ UNCHANGED <<prompt, submits>>
      /\ waiter' = [waiter EXCEPT ![w] = IdleWaiter]
      /\ row' = [row EXCEPT ![c.req].status = Outcome(c.event.kind)]
      /\ answers' = answers \cup {answer}
  BY DEF WaitDeliver, WaiterFrame, SameWorld, gatewayVars
<1>3. /\ answer.req = c.req /\ answer.turn = c.event.turn
      /\ answer.conn = (c.proof.conn = c.admitted)
      /\ answer.running = c.proof.running /\ answer.settled = c.proof.settled
  OBVIOUS
<1>4. c.event # NoEvent
  BY <1>1, TurnsAssumption DEF WaiterCall, Events, NoEvent
<1>5. DistinctTexts /\ answer.conn /\ answer.running /\ answer.settled => answer.turn = answer.req
  BY <1>1, <1>3, <1>4 DEF WaiterTrue, EventOwn, Steady
<1> HIDE DEF answer
<1>6. (DistinctTexts => SoundProofOwnOutcome)'
  BY <1>2, <1>5 DEF OutcomeInv, SoundProofOwnOutcome, DistinctTexts
<1>7. \A r \in Requests : RecordTrue(row'[r], r)
  BY <1>1, <1>2, StatusTrue
<1> QED
  BY <1>2, <1>6, <1>7, IdleWaiterTrue, WaiterGoesTrue

LEMMA WaitMarkTrue ==
  ASSUME TypeInv, OutcomeInv, NEW w \in Waiters, WaitMark(w)
  PROVE  OutcomeInv'
<1> DEFINE r == waiter[w].req
<1>1. r \in Requests
  BY DEF WaitMark, WaiterAt, TypeInv, WaiterCall, CallOf
<1>2. /\ SameWorld /\ UNCHANGED <<prompt, submits, answers>>
      /\ waiter' = [waiter EXCEPT ![w] = IdleWaiter]
      /\ row' = row \/ row' = [row EXCEPT ![r].status = "unknown"]
  BY DEF WaitMark, WaiterFrame, SameWorld, gatewayVars
<1>3. \A q \in Requests : RecordTrue(row'[q], q)
  BY <1>1, <1>2, StatusTrue DEF OutcomeInv
<1> QED
  BY <1>2, <1>3, AnswersKept, IdleWaiterTrue, WaiterGoesTrue

LEMMA WaiterStepTrue ==
  ASSUME TypeInv, OutcomeInv, NEW w \in Waiters, WaiterStep(w)
  PROVE  OutcomeInv'
BY WaitStartTrue, WaitCheckTrue, WaitReproveTrue, WaitRecursorTrue, WaitPersistTrue, WaitHealthTrue,
   WaitCandidateTrue, WaitExpiresTrue, WaitAdmitTrue, WaitAskTrue, WaitExpiredTrue, WaitDecideTrue,
   WaitDeliverTrue, WaitMarkTrue
DEF WaiterStep

-----------------------------------------------------------------------------
(* live_reconcile, and the environment of the calls.                       *)

LEMMA CallsKeptTrue ==
  ASSUME TypeInv, OutcomeInv, SameWorld, UNCHANGED <<prompt, waiter, submits, answers>>,
         \A r \in Requests : RecordTrue(row'[r], r)
  PROVE  OutcomeInv'
<1>1. TurnsOnce'
  BY TurnsOnceStays DEF OutcomeInv, SameWorld
<1>2. (\A p \in Prompters : PromptTrue(prompt[p]))' /\ (\A w \in Waiters : WaiterTrue(waiter[w]))'
  BY SameWorldStays DEF OutcomeInv
<1>3. (\A r \in Requests : RecordTrue(row[r], r))' /\ StreamHeld'
  BY SameWorldStays DEF OutcomeInv
<1> QED
  BY <1>1, <1>2, <1>3, AnswersKept DEF OutcomeInv

LEMMA ReconStepTrue ==
  ASSUME TypeInv, OutcomeInv, NEW c \in Reconcilers, ReconStep(c)
  PROVE  OutcomeInv'
<1>1. SameWorld /\ UNCHANGED <<prompt, waiter, submits, answers>>
  BY DEF ReconStep, ReconStart, ReconOpen, ReconHistory, ReconWrite, ReconFrame, Resume, SameWorld,
         gatewayVars, observers
<1>2. ASSUME row' = row PROVE OutcomeInv'
  BY <1>1, <1>2, CallsKeptTrue DEF OutcomeInv
<1>3. CASE ReconWrite(c)
  <2>1. recon[c].req \in Requests /\ row' = [row EXCEPT ![recon[c].req].status = "reconciled"]
    BY <1>3 DEF ReconWrite, ReconAt, TypeInv, ReconCall, CallOf
  <2> QED
    BY <1>1, <2>1, StatusTrue, CallsKeptTrue
<1> QED
  BY <1>2, <1>3 DEF ReconStep, ReconStart, ReconOpen, ReconHistory

LEMMA GatewayMovesTrue ==
  ASSUME TypeInv, TypeInv', OutcomeInv, GatewayMoves
  PROVE  OutcomeInv'
<1>1. /\ GatewayStep /\ UNCHANGED linkVars /\ UNCHANGED submits
      /\ UNCHANGED <<row, prompt, waiter, answers>> /\ TurnsOnce /\ StreamHeld
  BY DEF GatewayMoves, callVars, observers, OutcomeInv
<1>2. TurnsOnce' /\ TurnMoves
  BY <1>1, GatewayStepOnce, GatewayStepMoves
<1>3. StreamHeld' /\ ProofsStay /\ SnapshotsStay /\ Continuous
  BY <1>1, <1>2, StreamGateway, TurnsProofs, TurnsSnapshots, TurnsContinuous
<1> QED
  BY <1>1, <1>2, <1>3, WorldTrue

LEMMA LinkMovesTrue ==
  ASSUME TypeInv, TypeInv', OutcomeInv, LinkMoves \/ LinkOpens
  PROVE  OutcomeInv'
<1>1. /\ UNCHANGED gatewayVars /\ UNCHANGED submits
      /\ UNCHANGED <<row, prompt, waiter, answers>> /\ TurnsOnce /\ StreamHeld
      /\ LinkStep \/ Reopen
  BY DEF LinkMoves, LinkOpens, callVars, observers, OutcomeInv
<1>2. TurnsOnce'
  BY <1>1, TurnsOnceStays DEF gatewayVars
<1>3. SnapshotsStay
  BY <1>1, LinkSnapshots
<1>4. CASE LinkStep
  BY <1>1, <1>2, <1>3, <1>4, StreamMoves, LinkProofs, WorldTrue
<1>5. CASE Reopen
  BY <1>1, <1>2, <1>3, <1>5, StreamReopen, ReopenProofs, WorldTrue DEF gatewayVars
<1> QED
  BY <1>1, <1>4, <1>5

(***************************************************************************)
(* The socket closes, alone or with the gateway: replies that had not      *)
(* arrived are lost, the others are as old as they were.                   *)
(***************************************************************************)
LEMMA DownTrue ==
  ASSUME TypeInv, TypeInv', OutcomeInv, link' = "down", conn' = conn, hist' = hist,
         epoch' = epoch, UNCHANGED ringVars, UNCHANGED <<degraded, row, answers>>,
         \/ UNCHANGED gatewayVars
         \/ gwRun' = gwRun + 1 /\ active' = NoTurn /\ log' = <<>>,
         TurnsOnce',
         \/ FailPending
         \/ ~Connected /\ UNCHANGED <<prompt, waiter>>
  PROVE  OutcomeInv'
<1>1. StreamHeld'
  BY StreamDown DEF OutcomeInv, gatewayVars
<1>2. ProofsStay /\ Continuous
  BY DownProofs, DownContinuous DEF ringVars, gatewayVars
<1>3. (log' = log /\ active' = active) \/ (log' = <<>> /\ active' = NoTurn)
  BY DEF gatewayVars
<1>4. (\A r \in Requests : RecordTrue(row[r], r))'
  BY <1>2, RecordsKeptTrue DEF Continuous
<1>5. ASSUME NEW p \in Prompters PROVE PromptTrue(prompt[p])'
  <2>1. PICK old : old = prompt[p].snapshot
    OBVIOUS
  <2>2. prompt[p] \in Prompt /\ old \in Snapshot
    BY <2>1 DEF TypeInv, PromptCall, CallOf, Prompt
  <2>3. PICK s : /\ s = AfterDrop(old) \/ (~Connected /\ s = old)
                 /\ prompt'[p] = [prompt[p] EXCEPT !.snapshot = s]
    <3>1. CASE FailPending
      BY <2>1, <3>1 DEF FailPending
    <3>2. CASE ~Connected /\ UNCHANGED <<prompt, waiter>>
      BY <2>1, <2>2, <3>2 DEF Prompt
    <3> QED
      BY <3>1, <3>2
  <2>4. s \in Snapshot
    <3>1. CASE s = AfterDrop(old)
      BY <2>2, <3>1, AfterDropTypes
    <3> QED
      BY <2>2, <2>3, <3>1
  <2>5. ASSUME NEW r \in Requests, SnapshotTrue(old, r) PROVE SnapshotTrue(s, r)'
    BY <1>3, <2>2, <2>3, <2>5, DownSnapshots
  <2>6. \A r \in Requests : SnapshotTrue(prompt[p].snapshot, r) => SnapshotTrue(s, r)'
    BY <2>1, <2>5
  <2> QED
    BY <1>2, <2>3, <2>4, <2>6, PromptsKept
<1>6. ASSUME NEW w \in Waiters PROVE WaiterTrue(waiter[w])'
  <2>1. PICK old : old = waiter[w].snapshot
    OBVIOUS
  <2>2. waiter[w] \in Waiter /\ old \in Snapshot
    BY <2>1 DEF TypeInv, WaiterCall, CallOf, Waiter
  <2>3. PICK s : /\ s = AfterDrop(old) \/ (~Connected /\ s = old)
                 /\ waiter'[w] = [waiter[w] EXCEPT !.snapshot = s]
    <3>1. CASE FailPending
      BY <2>1, <3>1 DEF FailPending
    <3>2. CASE ~Connected /\ UNCHANGED <<prompt, waiter>>
      BY <2>1, <2>2, <3>2 DEF Waiter
    <3> QED
      BY <3>1, <3>2
  <2>4. s \in Snapshot
    <3>1. CASE s = AfterDrop(old)
      BY <2>2, <3>1, AfterDropTypes
    <3> QED
      BY <2>2, <2>3, <3>1
  <2>5. ASSUME NEW r \in Requests, SnapshotTrue(old, r) PROVE SnapshotTrue(s, r)'
    BY <1>3, <2>2, <2>3, <2>5, DownSnapshots
  <2>6. \A r \in Requests : SnapshotTrue(waiter[w].snapshot, r) => SnapshotTrue(s, r)'
    BY <2>1, <2>5
  <2>7. s.ok => /\ old.ok /\ s.running = old.running
                /\ s.inflight = old.inflight /\ s.failed = old.failed
    BY <2>2, <2>3 DEF AfterDrop, NoSnapshot, Snapshot
  <2> QED
    BY <1>2, <2>1, <2>3, <2>4, <2>6, <2>7, WaitersKept
<1> QED
  BY <1>1, <1>4, <1>5, <1>6, AnswersKept DEF OutcomeInv

LEMMA LinkDropsTrue ==
  ASSUME TypeInv, TypeInv', OutcomeInv, LinkDrops
  PROVE  OutcomeInv'
<1>1. TurnsOnce'
  BY TurnsOnceStays DEF LinkDrops, OutcomeInv, gatewayVars, observers
<1> QED
  BY <1>1, DownTrue DEF LinkDrops, Drop, gatewayVars, observers

LEMMA GatewayRestartsTrue ==
  ASSUME TypeInv, TypeInv', OutcomeInv, GatewayRestarts
  PROVE  OutcomeInv'
<1>1. TurnsOnce'
  BY GatewayDiesOnce DEF GatewayRestarts, OutcomeInv, observers
<1>2. /\ gwRun' = gwRun + 1 /\ active' = NoTurn /\ log' = <<>> /\ hist' = hist
      /\ UNCHANGED <<row, answers>>
  BY DEF GatewayRestarts, GatewayDies, observers
<1>3. CASE Connected
  BY <1>1, <1>2, <1>3, DownTrue DEF GatewayRestarts, Drop
<1>4. CASE ~Connected
  <2>1. UNCHANGED <<linkVars, prompt, waiter>> /\ link' = "down"
    BY <1>4 DEF GatewayRestarts, linkVars, Connected
  <2> QED
    BY <1>1, <1>2, <1>4, <2>1, DownTrue DEF linkVars, ringVars
<1> QED
  BY <1>3, <1>4

LEMMA CrashTrue ==
  ASSUME TypeInv, TypeInv', OutcomeInv, Crash
  PROVE  OutcomeInv'
<1>1. /\ LinkReset /\ UNCHANGED gatewayVars /\ row' = row /\ answers' = answers /\ submits' = submits
      /\ prompt' = [p \in Prompters |-> IdlePrompt] /\ waiter' = [w \in Waiters |-> IdleWaiter]
  BY DEF Crash, observers
<1>2. TurnsOnce' /\ StreamHeld'
  BY <1>1, TurnsOnceStays, StreamReset DEF OutcomeInv, gatewayVars
<1>3. ProofsStay
  BY <1>1, DownProofs DEF LinkReset, gatewayVars
<1>4. (\A r \in Requests : RecordTrue(row[r], r))'
  BY <1>1, <1>3, RecordsKeptTrue, Stays DEF gatewayVars
<1>5. PromptTrue(IdlePrompt)' /\ WaiterTrue(IdleWaiter)'
  BY DEF PromptTrue, WaiterTrue, IdlePrompt, IdleWaiter
<1> QED
  BY <1>1, <1>2, <1>4, <1>5, AnswersKept DEF OutcomeInv

LEMMA NextOutcomeInv ==
  TypeInv /\ TypeInv' /\ SubmitsRecorded /\ OutcomeInv /\ [Next]_vars => OutcomeInv'
<1> SUFFICES ASSUME TypeInv, TypeInv', SubmitsRecorded, OutcomeInv, [Next]_vars PROVE OutcomeInv'
  OBVIOUS
<1>1. ASSUME NEW p \in Prompters, PromptStep(p) PROVE OutcomeInv'
  BY <1>1, PromptStepTrue, PromptSubmitTrue
<1>2. ASSUME NEW w \in Waiters, WaiterStep(w) PROVE OutcomeInv'
  BY <1>2, WaiterStepTrue
<1>3. ASSUME NEW c \in Reconcilers, ReconStep(c) PROVE OutcomeInv'
  BY <1>3, ReconStepTrue
<1>4. CASE SessionOpen \/ UNCHANGED vars
  <2>1. SameWorld /\ UNCHANGED <<prompt, waiter, submits, answers>> /\ row' = row
    BY <1>4 DEF SessionOpen, Resume, SameWorld, vars, gatewayVars, callVars, observers
  <2> QED
    BY <2>1, CallsKeptTrue DEF OutcomeInv
<1> QED
  BY <1>1, <1>2, <1>3, <1>4, GatewayMovesTrue, LinkMovesTrue, LinkDropsTrue, GatewayRestartsTrue,
     CrashTrue DEF Next

LEMMA InitOutcomeInv == Init => OutcomeInv
<1> SUFFICES ASSUME Init PROVE OutcomeInv
  OBVIOUS
<1>1. TypeInv /\ \A r \in Requests : r # NoTurn
  BY InitTypeInv, TurnsAssumption DEF Turns
<1>2. TurnsOnce
  BY <1>1, EmptySeq DEF Init, GatewayInit, TurnsOnce, Ended, Begun, Queued
<1>3. StreamHeld
  BY DEF Init, GatewayInit, LinkInit, StreamHeld, Connected
<1>4. (\A p \in Prompters : PromptTrue(prompt[p])) /\ \A w \in Waiters : WaiterTrue(waiter[w])
  BY DEF Init, PromptTrue, IdlePrompt, WaiterTrue, IdleWaiter
<1>5. \A r \in Requests : RecordTrue(row[r], r)
  BY <1>1, Nothing DEF Init, RecordTrue, AbsentRow
<1>6. SoundProofOwnOutcome
  BY DEF Init, SoundProofOwnOutcome
<1> QED
  BY <1>2, <1>3, <1>4, <1>5, <1>6 DEF OutcomeInv

LEMMA OutcomesAlwaysHold == Spec => [](TypeInv /\ OutcomeInv)
<1>1. Init => SubmitsRecorded
  BY DEF Init, SubmitsRecorded, PromptAt, IdlePrompt
<1> QED
  BY <1>1, InitTypeInv, InitOutcomeInv, NextTypeInv, NextSubmits, NextOutcomeInv, PTL DEF Spec

(***************************************************************************)
(* live_wait's closing argument is right: when no two prompts share their  *)
(* text, an outcome taken from the connection its cursor was read on, with *)
(* the turn then running and no replay outstanding, is the request's own.  *)
(***************************************************************************)
THEOREM SoundProofsAreRight == DistinctTexts => (Spec => []SoundProofOwnOutcome)
<1> SUFFICES ASSUME DistinctTexts PROVE Spec => []SoundProofOwnOutcome
  OBVIOUS
<1>1. OutcomeInv => SoundProofOwnOutcome
  BY DEF OutcomeInv
<1> QED
  BY <1>1, OutcomesAlwaysHold, PTL

(***************************************************************************)
(* A wait whose time is over never hands over a running turn: evidence of  *)
(* an idle gateway stays true of the turn that had begun before, whatever  *)
(* is submitted, queued or reopened until the reply is looked at.          *)
(***************************************************************************)
THEOREM RunningTurnIsKept == Spec => ExpiryKeepsRunningTurn
<1>1. ASSUME TypeInv, OutcomeInv, [Next]_vars, NEW w \in Waiters,
             waiter[w].pc = "expired", waiter'[w].pc = "mark"
      PROVE  ~(active = waiter[w].req /\ phase = "running")
  <2>1. waiter[w] \in Waiter /\ waiter[w].req \in Requests /\ WaiterTrue(waiter[w])
    BY <1>1 DEF TypeInv, WaiterCall, CallOf, OutcomeInv
  <2>2. waiter'[w].pc # waiter[w].pc
    BY <1>1
  <2>3. CASE \E v \in Waiters : WaiterStep(v)
    <3>1. PICK v \in Waiters : WaiterStep(v)
      BY <2>3
    <3>2. \E call : waiter' = [waiter EXCEPT ![v] = call]
      BY <3>1 DEF WaiterStep, WaitStart, WaitCheck, WaitReprove, WaitRecursor, WaitPersist, WaitHealth,
         WaitCandidate, WaitExpires, WaitAdmit, WaitAsk, WaitExpired, WaitDecide, WaitDeliver, WaitMark,
         WaiterGoes, WaiterMoves
    <3>3. v = w
      BY <2>2, <3>2 DEF TypeInv
    <3>4. WaitExpired(w)
      BY <1>1, <3>1, <3>3 DEF WaiterStep, WaitStart, WaitCheck, WaitReprove, WaitRecursor, WaitPersist,
         WaitHealth, WaitCandidate, WaitExpires, WaitAdmit, WaitAsk, WaitDecide, WaitDeliver, WaitMark,
         WaiterAt
    <3> DEFINE over == /\ waiter[w].snapshot.ok /\ ~waiter[w].snapshot.running
                       /\ waiter[w].snapshot.inflight = NoTurn
    <3>5. over
      <4> SUFFICES ASSUME ~over PROVE FALSE
        OBVIOUS
      <4>1. waiter' = [waiter EXCEPT ![w] = IdleWaiter]
        BY <3>4 DEF WaitExpired, WaiterMoves
      <4> QED
        BY <1>1, <4>1 DEF TypeInv, IdleWaiter
    <3> QED
      BY <1>1, <2>1, <3>5 DEF WaiterTrue, EvidenceTrue
  <2>4. CASE waiter' = waiter
    BY <2>2, <2>4
  <2>5. CASE FailPending
    <3>1. waiter'[w].pc = waiter[w].pc
      BY <2>1, <2>5 DEF FailPending, Waiter
    <3> QED
      BY <2>2, <3>1
  <2>6. CASE Crash
    BY <1>1, <2>6 DEF Crash, IdleWaiter
  <2>7. ASSUME NEW p \in Prompters, PromptStep(p) PROVE waiter' = waiter
    BY <2>7 DEF PromptStep, PromptFrame, PromptLocal, PromptCapture, PromptReserve, PromptReplay,
       PromptSubmit, PromptReply, PromptNotAccepted, PromptAsk, PromptCursor, PromptGeneration,
       PromptAck, PromptError
  <2>8. ASSUME NEW c \in Reconcilers, ReconStep(c) PROVE waiter' = waiter
    BY <2>8 DEF ReconStep, ReconStart, ReconOpen, ReconHistory, ReconWrite, ReconFrame
  <2> QED
    BY <1>1, <2>3, <2>4, <2>5, <2>6, <2>7, <2>8 DEF Next, GatewayMoves, LinkMoves, LinkDrops,
       LinkOpens, GatewayRestarts, SessionOpen, vars, callVars
<1>2. TypeInv /\ OutcomeInv /\ [Next]_vars =>
        [\A w \in Waiters :
           waiter[w].pc = "expired" /\ waiter'[w].pc = "mark" =>
             ~(active = waiter[w].req /\ phase = "running")]_vars
  BY <1>1
<1> QED
  BY <1>2, OutcomesAlwaysHold, PTL DEF Spec, ExpiryKeepsRunningTurn
=============================================================================
