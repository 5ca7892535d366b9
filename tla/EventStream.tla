----------------------------- MODULE EventStream -----------------------------
(***************************************************************************)
(* The event streams of the live client across connections                 *)
(* (live_client.py): connect and the calls that join it, the handshake,    *)
(* request ids, the replay of every session with its hold for live events, *)
(* the bounded rings, time-outs, lost sockets and gateway restarts.        *)
(*                                                                         *)
(* LiveLink has the completions of one session, abstractly, for the proofs *)
(* about attribution; this module has the streams whole.  The client runs  *)
(* on one event loop: an action is what happens between two awaits, and a  *)
(* reply that was read off the socket reaches its coroutine later.         *)
(***************************************************************************)
EXTENDS EventRing, FiniteSets

CONSTANTS
  Connectors,       \* threads that call connect
  GatewayRing,      \* events of a session the gateway can replay
  MaxEmitted,       \* bound: events in one gateway process
  MaxEpochs,        \* bound: gateway processes
  MaxConnections,   \* bound: connections opened
  MaxTimeouts,      \* bound: replay calls that time out
  MaxWire           \* bound: frames under way to the client

ASSUME SessionsAssumption == Sessions # {}

ASSUME StreamBoundsAssumption ==
  /\ \A bound \in {GatewayRing, MaxEpochs} : bound \in Nat \ {0}
  /\ \A bound \in {MaxEmitted, MaxConnections, MaxTimeouts, MaxWire} : bound \in Nat

VARIABLES
  \* The gateway.
  gwEpoch,      \* its replay epoch
  emitted,      \* events of each session so far
  asked,        \* calls it has not answered
  wire,         \* frames sent to the client, in order
  \* The client.
  state,        \* _state; "closed" stands for "closing" and "error" as well
  epoch,        \* _replay_epoch; 0 is None
  newEpoch,     \* _epoch_changed_on_connect
  stream,       \* watermarks, rings and budgets
  hold,         \* _replay_hold
  degraded,     \* what replay_degraded answers
  connector,    \* the connect calls
  connections, timeouts

gateway == <<gwEpoch, emitted>>
socket == <<asked, wire>>
link == <<state, epoch, newEpoch, connections>>
vars == <<gateway, socket, link, stream, hold, degraded, connector, timeouts>>

NoHold == [on |-> FALSE, sid |-> CHOOSE s \in Sessions : TRUE, parked |-> <<>>]

NoReply == [lo |-> 0, hi |-> 0, latest |-> 0, truncated |-> FALSE]

Idle == [pc |-> "idle", answered |-> FALSE, id |-> 0, todo |-> <<>>, last |-> 0,
         reply |-> NoReply, bad |-> FALSE]

Replies == [lo : 0 .. MaxEvents, hi : 0 .. MaxEvents, latest : 0 .. MaxEvents, truncated : BOOLEAN]

Entries == [sid : Sessions, seen : Seqs]

Calls == [by : Connectors, id : Nat, sid : Sessions, last : 0 .. MaxEvents, at : 0 .. MaxEvents,
          since : BOOLEAN]

Frames ==
  [type : {"event"}, sid : Sessions, seq : Seqs]
    \cup [type : {"reply"}, by : Connectors, id : Nat, reply : Replies]

TypeOK ==
  /\ gwEpoch \in 1 .. MaxEpochs
  /\ emitted \in [Sessions -> 0 .. MaxEvents]
  /\ asked \subseteq Calls
  /\ wire \in Seq(Frames)
  /\ state \in {"closed", "connecting", "open"}
  /\ epoch \in 0 .. MaxEpochs
  /\ newEpoch \in BOOLEAN
  /\ stream \in Streams
  /\ hold \in [on : BOOLEAN, sid : Sessions, parked : Seq(Seqs)]
  /\ degraded \in BOOLEAN
  /\ connector \in [Connectors ->
       [pc : {"idle", "joining", "capabilities", "replaying"}, answered : BOOLEAN,
        id : Nat, todo : Seq(Entries), last : 0 .. MaxEvents, reply : Replies, bad : BOOLEAN]]
  /\ connections \in 0 .. MaxConnections
  /\ timeouts \in 0 .. MaxTimeouts

Init ==
  /\ gwEpoch = 1
  /\ emitted = [s \in Sessions |-> 0]
  /\ asked = {}
  /\ wire = <<>>
  /\ state = "closed"
  /\ epoch = 0
  /\ newEpoch = FALSE
  /\ stream = NoStream
  /\ hold = NoHold
  /\ degraded = FALSE
  /\ connector = [c \in Connectors |-> Idle]
  /\ connections = 0
  /\ timeouts = 0

At(c, pc) == connector[c].pc = pc

\* The call of c is in _pending.
Waiting(c) == connector[c].pc \in {"capabilities", "replaying"} /\ ~connector[c].answered

Goes(c, next) == connector' = [connector EXCEPT ![c] = next]

-----------------------------------------------------------------------------
(* Losing the socket.                                                      *)

\* Mutant of Severed: pending calls are not failed.
SeveredForgettingCalls ==
  /\ state' = "closed"
  /\ asked' = {}
  /\ wire' = <<>>
  /\ UNCHANGED <<gateway, epoch, newEpoch, connections, stream, connector, degraded, hold>>

(***************************************************************************)
(* The socket is closed, by either side or for a protocol violation; every *)
(* pending call fails.  A connect whose call fails is over: at once, or    *)
(* with an error for each session it had still to replay.  Those            *)
(* continuations run before a new handshake can be completed.              *)
(***************************************************************************)
Severed ==
  /\ state' = "closed"
  /\ asked' = {}
  /\ wire' = <<>>
  /\ connector' = [c \in Connectors |->
                     IF connector[c].answered THEN connector[c] ELSE Idle]
  /\ LET replaying == {c \in Connectors : At(c, "replaying") /\ Waiting(c)} IN
       /\ degraded' = (degraded \/ replaying # {})
       /\ hold' = IF replaying = {} THEN hold ELSE NoHold
  /\ UNCHANGED <<gateway, epoch, newEpoch, connections, stream>>

LoseSocket ==
  /\ state # "closed"
  /\ Severed
  /\ UNCHANGED timeouts

(***************************************************************************)
(* The thread gives up (_run): its coroutine is cancelled and the socket   *)
(* closed.  The `continue' in the finally clause of _replay_async swallows *)
(* the cancellation: no error is noted for the session at hand, one for    *)
(* each later session.                                                     *)
(***************************************************************************)
GiveUp(c) ==
  LET others == {o \in Connectors \ {c} : At(o, "replaying") /\ Waiting(o)} IN
  /\ At(c, "replaying")
  /\ Waiting(c)
  /\ state' = "closed"
  /\ asked' = {}
  /\ wire' = <<>>
  /\ connector' = [o \in Connectors |->
                     IF connector[o].answered THEN connector[o] ELSE Idle]
  /\ degraded' = (connector[c].bad \/ Len(connector[c].todo) > 1 \/ others # {})
  /\ hold' = NoHold
  /\ UNCHANGED <<gateway, epoch, newEpoch, connections, stream, timeouts>>

-----------------------------------------------------------------------------
(* Connecting.                                                             *)

\* The first call starts the connection task, others wait for the same one.
Connect(c) ==
  /\ At(c, "idle")
  /\ state # "open"
  /\ connections < MaxConnections
  /\ state' = "connecting"
  /\ newEpoch' = IF state = "closed" THEN FALSE ELSE newEpoch
  /\ Goes(c, [Idle EXCEPT !.pc = "joining"])
  /\ UNCHANGED <<gateway, socket, epoch, connections, stream, hold, degraded, timeouts>>

\* gateway.ready: a changed replay epoch discards every stream.
Handshake ==
  LET changed == epoch \notin {0, gwEpoch} IN
  /\ state = "connecting"
  /\ connections < MaxConnections
  /\ \A c \in Connectors : ~connector[c].answered
  /\ state' = "open"
  /\ connections' = connections + 1
  /\ epoch' = gwEpoch
  /\ newEpoch' = (newEpoch \/ changed)
  /\ stream' = IF changed THEN NoStream ELSE stream
  /\ UNCHANGED <<gateway, socket, hold, degraded, connector, timeouts>>

\* client.capabilities, before the replay.
Announce(c) ==
  LET d == [connector[c] EXCEPT !.pc = "capabilities"] IN
  /\ At(c, "joining")
  /\ state = "open"
  /\ Goes(c, d)
  /\ asked' = asked \cup {[by |-> c, id |-> d.id, sid |-> NoHold.sid, last |-> 0, at |-> 0,
                              since |-> FALSE]}
  /\ UNCHANGED <<gateway, wire, link, stream, hold, degraded, timeouts>>

-----------------------------------------------------------------------------
(* The replay.                                                             *)

\* Mutant of Degraded: what failed on the way is not reported in the end.
DegradedAtEndOnly(bad, rest) == rest # <<>>

\* What replay_degraded answers after a replay: something failed or was lost,
\* or some sessions were not replayed at all.
Degraded(bad, rest) == bad \/ rest # <<>>

(***************************************************************************)
(* The next session of c's replay: its hold replaces whatever hold there   *)
(* is, and its call is sent.  After the last one, or when the socket is    *)
(* gone and the other calls fail at once, _last_replay is replaced.        *)
(***************************************************************************)
ReplayNext(c, st, todo, bad, id) ==
  IF todo = <<>> \/ state # "open"
    THEN /\ degraded' = Degraded(bad, todo)
         /\ hold' = IF At(c, "replaying") \/ todo # <<>> THEN NoHold ELSE hold
         /\ Goes(c, Idle)
         /\ UNCHANGED asked
    ELSE LET sid == Head(todo).sid
             last == IF HasSlot(st, sid) THEN st.watermark[sid] ELSE Head(todo).seen
         IN
         /\ hold' = [on |-> TRUE, sid |-> sid, parked |-> <<>>]
         /\ asked' = asked \cup {[by |-> c, id |-> id, sid |-> sid, last |-> last, at |-> emitted[sid],
                                    since |-> TRUE]}
         /\ Goes(c, [Idle EXCEPT !.pc = "replaying", !.id = id, !.todo = todo, !.last = last,
                                 !.bad = bad])
         /\ UNCHANGED degraded

\* The capabilities call has returned.
ReplayStart(c) ==
  LET todo == [i \in DOMAIN stream.slots |->
                 [sid |-> stream.slots[i], seen |-> stream.watermark[stream.slots[i]]]]
  IN
  /\ At(c, "capabilities")
  /\ connector[c].answered
  /\ IF newEpoch
       THEN degraded' = TRUE /\ Goes(c, Idle) /\ UNCHANGED <<asked, hold>>
       ELSE ReplayNext(c, stream, todo, FALSE, connector[c].id)
  /\ UNCHANGED <<gateway, wire, link, stream, timeouts>>

\* Mutant of Fresh: the held events are forgotten.
FreshNone(reply, parked) == <<>>

\* The held events, without one that the reply repeats as its last.
Fresh(reply, parked) ==
  IF parked # <<>> /\ reply.lo < reply.hi /\ Head(parked) = reply.hi THEN Tail(parked) ELSE parked

Combined(reply, parked) == [i \in 1 .. reply.hi - reply.lo |-> reply.lo + i] \o Fresh(reply, parked)

(***************************************************************************)
(* _validate_replay_result: increasing, without a gap unless truncated,    *)
(* and no further than the reply's own latest_seq - also when the held     *)
(* events were sent after the reply.  (One socket speaks one epoch.)       *)
(***************************************************************************)
ValidReplay(reply, last, parked) ==
  LET seqs == <<last>> \o Combined(reply, parked) IN
  /\ reply.hi - reply.lo <= BufferMax
  /\ \A i \in 2 .. Len(seqs) :
       seqs[i] > seqs[i - 1] /\ (reply.truncated \/ seqs[i] = seqs[i - 1] + 1)
  /\ Last(seqs) <= reply.latest
  /\ reply.truncated \/ Last(seqs) = reply.latest

ReplayFinish(c) ==
  LET d == connector[c]
      sid == Head(d.todo).sid
      parked == IF hold.on /\ hold.sid = sid THEN hold.parked ELSE <<>>
      valid == ValidReplay(d.reply, d.last, parked)
      allowed == IF d.reply.truncated THEN [stream EXCEPT !.gaps = @ \cup {sid}] ELSE stream
      result == AcceptedAll(allowed, sid, Combined(d.reply, parked), d.reply.truncated)
      st == IF ~valid THEN stream
            ELSE IF d.reply.truncated
                   THEN [result.st EXCEPT !.base[sid] = Later(@, d.reply.lo)]
                   ELSE result.st
  IN
  /\ At(c, "replaying")
  /\ d.answered
  /\ stream' = st
  /\ ReplayNext(c, st, Tail(d.todo), d.bad \/ ~valid \/ d.reply.truncated \/ ~result.ok, d.id)
  /\ UNCHANGED <<gateway, wire, link, timeouts>>

\* session.events.since is not answered in time; its id is retired.
ReplayTimesOut(c) ==
  LET d == connector[c] IN
  /\ At(c, "replaying")
  /\ Waiting(c)
  /\ timeouts < MaxTimeouts
  /\ timeouts' = timeouts + 1
  /\ ReplayNext(c, stream, Tail(d.todo), TRUE, d.id + 1)
  /\ UNCHANGED <<gateway, wire, link, stream>>

-----------------------------------------------------------------------------
(* Frames from the gateway.                                                *)

\* A reply whose call is no longer pending violates the protocol.
TakeReply ==
  /\ wire # <<>>
  /\ Head(wire).type = "reply"
  /\ LET f == Head(wire)
         d == connector[f.by]
     IN IF Waiting(f.by) /\ d.id = f.id
          THEN /\ Goes(f.by, [d EXCEPT !.answered = TRUE, !.reply = f.reply])
               /\ wire' = Tail(wire)
               /\ UNCHANGED <<gateway, asked, link, stream, hold, degraded>>
          ELSE Severed
  /\ UNCHANGED timeouts

\* A live event: held, if its session is being replayed, or accepted or dropped.
TakeEvent ==
  /\ wire # <<>>
  /\ Head(wire).type = "event"
  /\ LET s == Head(wire).sid
         n == Head(wire).seq
         held == hold.on /\ hold.sid = s
         full == \/ Len(hold.parked) >= BufferMax
                 \/ Size[n] > BufferBytes
                 \/ Bytes(hold.parked) + Size[n] > TotalBytes
     IN IF held /\ full THEN Severed
        ELSE /\ wire' = Tail(wire)
             /\ hold' = IF held THEN [hold EXCEPT !.parked = Append(@, n)] ELSE hold
             /\ stream' = IF ~held /\ Acceptable(stream, s, n, FALSE) THEN Accepted(stream, s, n)
                                                                      ELSE stream
             /\ UNCHANGED <<gateway, asked, link, degraded, connector>>
  /\ UNCHANGED timeouts

-----------------------------------------------------------------------------
(* The gateway.                                                            *)

Emit(s) ==
  /\ emitted[s] < MaxEvents
  /\ FoldFunction(+, 0, emitted) < MaxEmitted
  /\ state = "open" => Len(wire) < MaxWire
  /\ emitted' = [emitted EXCEPT ![s] = @ + 1]
  /\ wire' = IF state = "open" THEN Append(wire, [type |-> "event", sid |-> s, seq |-> emitted'[s]])
                               ELSE wire
  /\ UNCHANGED <<gwEpoch, asked, link, stream, hold, degraded, connector, timeouts>>

(***************************************************************************)
(* Calls are answered in any order.  The events of a reply were read at    *)
(* some moment since the call, its latest_seq when it is sent: what came    *)
(* between the two went ahead of it as live events.  What has left the     *)
(* gateway's own ring is truncated.                                        *)
(***************************************************************************)
Since(call, read) ==
  LET oldest == Later(0, read - GatewayRing) IN
  [lo |-> Later(call.last, oldest), hi |-> Later(call.last, read), latest |-> emitted[call.sid],
   truncated |-> call.last < oldest]

Answer(call) ==
  /\ asked' = asked \ {call}
  /\ \E reply \in IF call.since THEN {Since(call, read) : read \in call.at .. emitted[call.sid]}
                                ELSE {NoReply} :
       wire' = Append(wire, [type |-> "reply", by |-> call.by, id |-> call.id, reply |-> reply])
  /\ UNCHANGED <<gateway, link, stream, hold, degraded, connector, timeouts>>

\* A new gateway process numbers its events from 1 under a new epoch.
GatewayRestarts ==
  /\ state # "open"
  /\ gwEpoch < MaxEpochs
  /\ gwEpoch' = gwEpoch + 1
  /\ emitted' = [s \in Sessions |-> 0]
  /\ UNCHANGED <<socket, link, stream, hold, degraded, connector, timeouts>>

-----------------------------------------------------------------------------
ConnectStep(c) ==
  \/ Announce(c)
  \/ ReplayStart(c)
  \/ ReplayFinish(c)

Next ==
  \/ LoseSocket
  \/ \E c \in Connectors : GiveUp(c)
  \/ \E c \in Connectors : Connect(c)
  \/ Handshake
  \/ \E c \in Connectors : ConnectStep(c)
  \/ \E c \in Connectors : ReplayTimesOut(c)
  \/ TakeReply
  \/ TakeEvent
  \/ \E s \in Sessions : Emit(s)
  \/ \E call \in asked : Answer(call)
  \/ GatewayRestarts

Spec == Init /\ [][Next]_vars

-----------------------------------------------------------------------------
(* Properties.  A slot's ring is an excerpt of its session's stream; what  *)
(* is missing from it must show: in events_truncated, in replay_degraded.  *)
(* Sessions with an allowed gap are set aside: see ReplayLossIsDegraded.   *)

\* The socket is open and nothing is under way.
Quiet ==
  /\ state = "open"
  /\ wire = <<>>
  /\ asked = {}
  /\ \A c \in Connectors : At(c, "idle")

(***************************************************************************)
(* The running byte counts never drift from the rings and no budget is     *)
(* exceeded, whatever is accepted, evicted, dropped with its slot or       *)
(* discarded with an epoch, and in whatever order.                         *)
(***************************************************************************)
BudgetsHold == WithinBudgets(stream)

(***************************************************************************)
(* Up to its watermark a stream has no silent hole: an event that is not   *)
(* in the ring is covered by events_truncated - through gaps in the live   *)
(* frames, replays that fail half-way, held frames, evictions for the sake *)
(* of another session and new slots.                                       *)
(***************************************************************************)
LossIsKnown ==
  \A s \in Sessions :
    HasSlot(stream, s) /\ s \notin stream.gaps => AccountsFor(stream, s, stream.watermark[s])

(***************************************************************************)
(* Once a connection has come to rest, a stream is complete up to the      *)
(* gateway's latest event or replay_degraded says that it is not.  A       *)
(* stream that lags would drop every later event without a word.           *)
(***************************************************************************)
LossIsDegraded ==
  Quiet => \A s \in Sessions :
    HasSlot(stream, s) /\ s \notin stream.gaps => degraded \/ AccountsFor(stream, s, emitted[s])

(***************************************************************************)
(* What the repository says and the code does not keep.                    *)
(***************************************************************************)

\* replay_degraded: "True when the most recent reconnect's replay lost events
\* for this session" - every session, and whoever else is connecting.
ReplayLossIsDegraded ==
  Quiet => \A s \in Sessions :
    HasSlot(stream, s) => degraded \/ AccountsFor(stream, s, emitted[s])

(***************************************************************************)
(* Liveness.  The event loop runs every coroutine that can go on and keeps *)
(* up with the socket; the gateway completes handshakes and answers.       *)
(* Nothing is assumed of time-outs, losses and restarts.  The first two    *)
(* conjuncts are weak fairness of ConnectStep and of the Take steps, given  *)
(* by what enables them (events are finitely many).                        *)
(***************************************************************************)
Runnable(c) == connector[c].answered \/ (At(c, "joining") /\ state = "open")

Fairness ==
  /\ \A c \in Connectors : []<>~Runnable(c)
  /\ []<>(wire = <<>>)
  /\ WF_vars(Handshake)
  /\ WF_vars(\E call \in asked : Answer(call))

FairSpec == Spec /\ Fairness

(***************************************************************************)
(* On a socket that stays open every stream reaches the gateway's latest   *)
(* event, or is marked degraded; none is stuck behind a gap unnoticed.     *)
(***************************************************************************)
StreamCatchesUp ==
  \A s \in Sessions :
    <>[](state = "open") =>
      <>[](HasSlot(stream, s) /\ s \notin stream.gaps
             => degraded \/ stream.watermark[s] = emitted[s])

(***************************************************************************)
(* A connect call comes back, although calls may time out, their late      *)
(* answers close the socket under other calls, and the socket may be lost  *)
(* at any step.                                                            *)
(***************************************************************************)
ConnectReturns == \A c \in Connectors : ~At(c, "idle") ~> At(c, "idle")
=============================================================================
