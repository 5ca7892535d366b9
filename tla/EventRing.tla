------------------------------ MODULE EventRing ------------------------------
(***************************************************************************)
(* What the live client keeps of the event streams (live_client.py,        *)
(* _accept_event and what it calls): a slot and watermark per session and  *)
(* a ring of events per session under three budgets - events and bytes of  *)
(* one session, bytes of all sessions - whose oldest events are evicted.   *)
(*                                                                         *)
(* Values and operators only: EventStream has the steps that use them.     *)
(***************************************************************************)
EXTENDS Integers, Sequences, SequencesExt

CONSTANTS
  Sessions,      \* runtime session ids
  MaxEvents,     \* bound: events of a session in one gateway process
  Size,          \* bytes of the event with a sequence number
  BufferMax,     \* gateway_event_buffer_max: events of one session
  BufferBytes,   \* gateway_event_buffer_bytes: bytes of one session
  TotalBytes,    \* gateway_event_buffer_total_bytes
  MaxSlots       \* gateway_event_sessions_max

ASSUME SizeAssumption == MaxEvents \in Nat /\ Size \in [1 .. MaxEvents -> Nat \ {0}]
ASSUME BudgetAssumption ==
  \A budget \in {BufferMax, BufferBytes, TotalBytes, MaxSlots} : budget \in Nat \ {0}

Seqs == 1 .. MaxEvents

\* An absent dictionary entry is 0, or the empty ring.
NoStream ==
  [slots     |-> <<>>,                        \* keys of _watermarks, oldest insertion first
   watermark |-> [s \in Sessions |-> 0],
   ring      |-> [s \in Sessions |-> <<>>],   \* _events
   order     |-> <<>>,                        \* keys of _events, last append last
   bytes     |-> [s \in Sessions |-> 0],      \* _event_bytes
   total     |-> 0,                           \* _event_total_bytes
   evicted   |-> [s \in Sessions |-> 0],      \* _event_evicted_through
   gaps      |-> {},                          \* _replay_gap_allowed
   base      |-> [s \in Sessions |-> 0]]      \* observer: what precedes a slot's first event

Streams ==
  [slots : Seq(Sessions), watermark : [Sessions -> 0 .. MaxEvents],
   ring : [Sessions -> Seq(Seqs)], order : Seq(Sessions),
   bytes : [Sessions -> Nat], total : Nat, evicted : [Sessions -> 0 .. MaxEvents],
   gaps : SUBSET Sessions, base : [Sessions -> 0 .. MaxEvents]]

HasSlot(st, s) == s \in ToSet(st.slots)

Later(m, n) == IF m > n THEN m ELSE n

SumOf(weight, seq) ==
  LET sum[i \in 0 .. Len(seq)] == IF i = 0 THEN 0 ELSE sum[i - 1] + weight[seq[i]]
  IN  sum[Len(seq)]

Bytes(seqs) == SumOf(Size, seqs)

\* A key is in a dictionary once.
Without(keys, s) ==
  IF s \in ToSet(keys) THEN RemoveAt(keys, CHOOSE i \in DOMAIN keys : keys[i] = s) ELSE keys

-----------------------------------------------------------------------------
(* Slots.                                                                  *)

\* _drop_session_state.
Dropped(st, s) ==
  [st EXCEPT !.slots = Without(@, s), !.watermark[s] = 0, !.ring[s] = <<>>,
             !.order = Without(@, s), !.bytes[s] = 0, !.total = @ - st.bytes[s],
             !.evicted[s] = 0, !.gaps = @ \ {s}, !.base[s] = 0]

\* _ensure_session_slot: the slot inserted first makes room for a new one.
Slotted(st, s) ==
  IF HasSlot(st, s) THEN st
  ELSE LET roomy == IF Len(st.slots) >= MaxSlots THEN Dropped(st, Head(st.slots)) ELSE st
       IN [roomy EXCEPT !.slots = Append(@, s)]

-----------------------------------------------------------------------------
(* The ring.                                                               *)

Oldest(seqs, k) == SubSeq(seqs, 1, k)

Rest(seqs, k) == SubSeq(seqs, k + 1, Len(seqs))

\* Mutant of Cut: what is pushed out by the budgets is forgotten.
CutSilently(st, s, k) ==
  LET freed == Bytes(Oldest(st.ring[s], k)) IN
  [st EXCEPT !.ring[s] = Rest(@, k), !.bytes[s] = @ - freed, !.total = @ - freed]

\* The ring without its k oldest events, the last of which is remembered.
Cut(st, s, k) ==
  IF k = 0 THEN st
  ELSE LET freed == Bytes(Oldest(st.ring[s], k)) IN
       [st EXCEPT !.ring[s] = Rest(@, k), !.bytes[s] = @ - freed,
                  !.total = @ - freed, !.evicted[s] = Later(@, st.ring[s][k])]

\* As many of the oldest events go as must until the rest is within the budgets.
Trimmed(st, s) ==
  Cut(st, s, Min({k \in 0 .. Len(st.ring[s]) :
                    /\ Len(st.ring[s]) - k <= BufferMax
                    /\ st.bytes[s] - Bytes(Oldest(st.ring[s], k)) <= BufferBytes}))

(***************************************************************************)
(* Over the total, the session longest without a new event loses first:    *)
(* session by session in that order, each as much as is still needed.      *)
(***************************************************************************)
Relieved(st, s) ==
  Cut(st, s, Min({k \in 0 .. Len(st.ring[s]) :
                    \/ k = Len(st.ring[s])
                    \/ st.total - Bytes(Oldest(st.ring[s], k)) <= TotalBytes}))

TotalTrimmed(st) ==
  LET acc[i \in 0 .. Len(st.order)] == IF i = 0 THEN st ELSE Relieved(acc[i - 1], st.order[i])
  IN  acc[Len(st.order)]

Pushed(st, s, n) ==
  [st EXCEPT !.ring[s] = Append(@, n), !.order = Append(Without(@, s), s),
             !.bytes[s] = @ + Size[n], !.total = @ + Size[n]]

-----------------------------------------------------------------------------
(* _accept_event.                                                          *)

\* Only the next event, unless it is the first or a gap is allowed.
Acceptable(st, s, n, gap) ==
  LET seen == st.watermark[s] IN
  n > seen /\ (seen = 0 \/ n = seen + 1 \/ gap \/ s \in st.gaps)

\* The session has a slot and its watermark is n.
Seen(st, s, n) ==
  [Slotted(st, s) EXCEPT !.watermark[s] = n, !.base[s] = IF HasSlot(st, s) THEN @ ELSE n - 1]

\* Mutant of Accepted: the total is not looked at.
AcceptedOverTotal(st, s, n) ==
  LET seen == Seen(st, s, n) IN
  IF Size[n] > BufferBytes THEN [seen EXCEPT !.evicted[s] = Later(@, n)]
  ELSE Trimmed(Pushed(seen, s, n), s)

\* Mutant of Accepted: an event too large for a ring does not move the watermark.
AcceptedUnmarked(st, s, n) ==
  IF Size[n] > BufferBytes THEN [Slotted(st, s) EXCEPT !.evicted[s] = Later(@, n)]
  ELSE TotalTrimmed(Trimmed(Pushed(Seen(st, s, n), s, n), s))

\* An event larger than a ring is not kept and counts as evicted.
Accepted(st, s, n) ==
  LET seen == Seen(st, s, n) IN
  IF Size[n] > BufferBytes THEN [seen EXCEPT !.evicted[s] = Later(@, n)]
  ELSE TotalTrimmed(Trimmed(Pushed(seen, s, n), s))

\* A replay's events one after another, up to the first that is not accepted.
AcceptedNext(acc, s, n, gap) ==
  IF acc.ok /\ Acceptable(acc.st, s, n, gap) THEN [ok |-> TRUE, st |-> Accepted(acc.st, s, n)]
                                             ELSE [ok |-> FALSE, st |-> acc.st]

AcceptedAll(st, s, seqs, gap) ==
  LET acc[i \in 0 .. Len(seqs)] ==
        IF i = 0 THEN [ok |-> TRUE, st |-> st] ELSE AcceptedNext(acc[i - 1], s, seqs[i], gap)
  IN  acc[Len(seqs)]

\* events_truncated: what lay after the cursor is no longer complete.
StreamTruncated(st, s, cursor) == cursor < st.evicted[s]

-----------------------------------------------------------------------------
(* What properties of EventStream say of a stream.                         *)

Kept(st, s) == ToSet(st.ring[s])

\* The rings are within the budgets, and the byte counts are those of the rings.
WithinBudgets(st) ==
  /\ Len(st.slots) <= MaxSlots
  /\ st.total <= TotalBytes
  /\ st.total = SumOf([s \in Sessions |-> Bytes(st.ring[s])], st.order)
  /\ \A s \in Sessions :
       /\ Len(st.ring[s]) <= BufferMax
       /\ st.bytes[s] <= BufferBytes
       /\ st.bytes[s] = Bytes(st.ring[s])

\* Everything from the slot's first event to n is in the ring or known evicted.
AccountsFor(st, s, n) ==
  \A m \in st.base[s] + 1 .. n : m \in Kept(st, s) \/ StreamTruncated(st, s, m - 1)
=============================================================================
