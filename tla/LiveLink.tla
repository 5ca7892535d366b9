------------------------------- MODULE LiveLink -------------------------------
(***************************************************************************)
(* The bridge's WebSocket to the gateway and what it keeps of the event    *)
(* stream of the shared session (live_client.py): connection generation,   *)
(* adopted replay epoch, watermark, bounded ring of completions, and the   *)
(* outcome of the last reconnect's replay.  All of it is process memory.   *)
(*                                                                         *)
(* Only message.complete events are represented; the others matter here    *)
(* because they push completions out of the ring (RingPressure).           *)
(***************************************************************************)
EXTENDS LiveGateway

CONSTANT MaxConnections   \* bound: connections opened, over all bridge processes

ASSUME ConnectionBoundAssumption == MaxConnections \in Nat \ {0}

VARIABLES
  link,          \* "down", "holding" (replay outstanding, live events parked),
                 \* "settling" (replay applied, its outcome not yet published), "open"
  conn,          \* connections opened so far, over all bridge processes
  gen,           \* _generation
  epoch,         \* _replay_epoch; 0 is None
  received,      \* completions taken off the current socket, parked ones excluded
  slot,          \* session \in _watermarks
  watermark,     \* completions up to _watermarks[session]
  ring,          \* _events[session]
  evictedTo,     \* _event_evicted_through[session]
  gapAllowed,    \* session \in _replay_gap_allowed
  degraded,      \* what replay_degraded answers
  nextDegraded   \* what it will answer once _last_replay is replaced

linkVars == <<link, conn, gen, epoch, received, slot, watermark, ring,
              evictedTo, gapAllowed, degraded, nextDegraded>>

ringVars == <<slot, watermark, ring, evictedTo, gapAllowed>>

Events == [seq : Nat \ {0}, turn : Turns, kind : Kinds]

LinkTypeOK ==
  /\ link \in {"down", "holding", "settling", "open"}
  /\ conn \in Nat
  /\ gen \in Nat
  /\ epoch \in Nat
  /\ received \in Nat
  /\ slot \in BOOLEAN
  /\ watermark \in Nat
  /\ ring \in SUBSET Events
  /\ evictedTo \in Nat
  /\ gapAllowed \in BOOLEAN
  /\ degraded \in BOOLEAN
  /\ nextDegraded \in BOOLEAN

LinkInit ==
  /\ link = "down"
  /\ conn = 0
  /\ gen = 0
  /\ epoch = 0
  /\ received = 0
  /\ slot = FALSE
  /\ watermark = 0
  /\ ring = {}
  /\ evictedTo = 0
  /\ gapAllowed = FALSE
  /\ degraded = FALSE
  /\ nextDegraded = FALSE

\* A new bridge process starts with none of it.
LinkReset ==
  /\ link' = "down"
  /\ gen' = 0
  /\ epoch' = 0
  /\ received' = 0
  /\ slot' = FALSE
  /\ watermark' = 0
  /\ ring' = {}
  /\ evictedTo' = 0
  /\ gapAllowed' = FALSE
  /\ degraded' = FALSE
  /\ nextDegraded' = FALSE
  /\ UNCHANGED conn

-----------------------------------------------------------------------------
(* RPC replies and events share one ordered socket.                        *)

Connected == link # "down"

Reachable == Connected /\ live

Snapshots == {NoSnapshot} \cup (IF Reachable THEN Evidence ELSE {})

\* The reply comes after every completion emitted before it; during a replay
\* those are parked and count as taken although the watermark has not moved.
Arrived(snapshot) == link = "holding" \/ received >= snapshot.upto

\* What becomes of a reply when the socket closes: lost unless it had arrived.
AfterDrop(snapshot) ==
  IF Arrived(snapshot) THEN [snapshot EXCEPT !.upto = 0] ELSE NoSnapshot

-----------------------------------------------------------------------------
(* Connection life cycle.                                                  *)

Event(i) == [seq |-> i, turn |-> log[i].turn, kind |-> log[i].kind]

EventsIn(first, last) == {Event(i) : i \in first .. last}

Drop ==
  /\ Connected
  /\ link' = "down"
  /\ received' = 0
  /\ nextDegraded' = FALSE
  /\ UNCHANGED <<conn, gen, epoch, ringVars, degraded>>

(***************************************************************************)
(* A socket opens and gateway.ready has been handled.  A changed epoch     *)
(* discards every cursor and skips the replay; a session that has a slot   *)
(* is replayed; without one there is nothing to replay.                    *)
(***************************************************************************)
EpochChanged == epoch \notin {0, gwRun}

Reopen ==
  /\ ~Connected
  /\ conn < MaxConnections
  /\ conn' = conn + 1
  /\ gen' = gen + 1
  /\ epoch' = gwRun
  /\ received' = Len(log)
  /\ IF EpochChanged
       THEN /\ slot' = FALSE
            /\ watermark' = 0
            /\ ring' = {}
            /\ evictedTo' = 0
            /\ gapAllowed' = FALSE
       ELSE UNCHANGED ringVars
  /\ link' = IF EpochChanged \/ ~slot THEN "settling" ELSE "holding"
  /\ nextDegraded' = EpochChanged
  /\ UNCHANGED degraded

\* The replay and the parked live events, up to completion n, are accepted.
ReplayWhole ==
  /\ link = "holding"
  /\ live
  /\ \E n \in received .. Len(log) :
       /\ ring' = ring \cup EventsIn(watermark + 1, n)
       /\ watermark' = IF n > watermark THEN n ELSE watermark
       /\ received' = n
  /\ link' = "settling"
  /\ nextDegraded' = FALSE
  /\ UNCHANGED <<conn, gen, epoch, slot, evictedTo, gapAllowed, degraded>>

\* The gateway no longer has events up to k; the rest is accepted with a gap.
ReplayTruncated ==
  /\ link = "holding"
  /\ live
  /\ \E n \in received .. Len(log) :
       \E k \in watermark .. n :
         /\ ring' = ring \cup EventsIn(k + 1, n)
         /\ watermark' = IF k < n THEN n ELSE watermark
         /\ received' = n
  /\ gapAllowed' = TRUE
  /\ link' = "settling"
  /\ nextDegraded' = TRUE
  /\ UNCHANGED <<conn, gen, epoch, slot, evictedTo, degraded>>

\* The replay call fails or is rejected: the parked events are discarded.
ReplayFails ==
  /\ link = "holding"
  /\ \E n \in received .. Len(log) : received' = n
  /\ link' = "settling"
  /\ nextDegraded' = TRUE
  /\ UNCHANGED <<conn, gen, epoch, ringVars, degraded>>

\* _last_replay is replaced, after the events it is about were accepted.
Settle ==
  /\ link = "settling"
  /\ link' = "open"
  /\ degraded' = nextDegraded
  /\ nextDegraded' = FALSE
  /\ UNCHANGED <<conn, gen, epoch, received, ringVars>>

-----------------------------------------------------------------------------
(* Events of the open socket.                                              *)

\* _accept_event: only the next sequence number, unless nothing was seen
\* before or a truncated replay allowed gaps; anything else is dropped silently.
InOrder(seq) ==
  /\ seq > watermark
  /\ ~slot \/ seq = watermark + 1 \/ gapAllowed

Deliver ==
  /\ link \in {"settling", "open"}
  /\ received < Len(log)
  /\ received' = received + 1
  /\ IF InOrder(received + 1)
       THEN /\ ring' = ring \cup {Event(received + 1)}
            /\ watermark' = received + 1
            /\ slot' = TRUE
       ELSE UNCHANGED <<slot, watermark, ring>>
  /\ UNCHANGED <<link, conn, gen, epoch, evictedTo, gapAllowed, degraded, nextDegraded>>

\* An event of another kind gives the session its slot.
FirstEvent ==
  /\ link \in {"settling", "open"}
  /\ ~slot
  /\ slot' = TRUE
  /\ watermark' = received
  /\ UNCHANGED <<link, conn, gen, epoch, received, ring, evictedTo, gapAllowed,
                 degraded, nextDegraded>>

\* Accepting further events overflows the ring: the oldest one goes.
RingPressure ==
  /\ Connected
  /\ \E e \in ring :
       /\ \A o \in ring : e.seq <= o.seq
       /\ ring' = ring \ {e}
       /\ evictedTo' = IF e.seq > evictedTo THEN e.seq ELSE evictedTo
  /\ UNCHANGED <<link, conn, gen, epoch, received, slot, watermark, gapAllowed,
                 degraded, nextDegraded>>

LinkStep ==
  \/ ReplayWhole
  \/ ReplayTruncated
  \/ ReplayFails
  \/ Settle
  \/ Deliver
  \/ FirstEvent
  \/ RingPressure

(***************************************************************************)
(* The candidate completion after a cursor, lowest sequence number first,  *)
(* and whether the ring has lost something after that cursor.              *)
(***************************************************************************)
Candidates(cursor) ==
  {e \in ring : e.seq > cursor /\ \A o \in ring : o.seq > cursor => e.seq <= o.seq}

\* Mutant of Truncated: the first event after the cursor does not count.
TruncatedOffByOne(cursor) == cursor + 1 < evictedTo

Truncated(cursor) == cursor < evictedTo
=============================================================================
