------------------------------ MODULE DurableRun ------------------------------
(***************************************************************************)
(* run_start, run_status, run_wait and run_stop (service.py) over the      *)
(* requests and lane_bindings tables (registry.py) and the Hermes Runs     *)
(* API, of one profile.                                                    *)
(*                                                                         *)
(* Calls run on worker threads; each registry transaction and each HTTP    *)
(* request is one action, the code between them belongs to the action      *)
(* before it.  run_wait is a caller that repeats run_status.               *)
(***************************************************************************)
EXTENDS Integers, FiniteSets

CONSTANTS
  Requests,                  \* request_ids
  Keys,                      \* idempotency keys, explicit or derived from a request_id
  Payloads,                  \* what a fingerprint stands for: lane, prompt, session, model ...
  Lanes, LaneOf,             \* the lane of a payload
  Sessions, SessionOf,       \* the session_id supplied in it, or NoSession
  Callers,                   \* worker threads
  NoRequest, NoRun, NoPayload, NoSession, NoLane,
  MaxStarts,                 \* bound: run_start calls
  MaxCrashes                 \* bound: restarts of the bridge process

ASSUME NamesAssumption ==
  /\ NoRequest \notin Requests
  /\ NoRun \notin Keys
  /\ NoPayload \notin Payloads
  /\ NoLane \notin Lanes
  /\ Sessions \cap Keys = {}
  /\ NoSession \notin Sessions \cup Keys
ASSUME PayloadAssumption ==
  /\ LaneOf \in [Payloads -> Lanes]
  /\ SessionOf \in [Payloads -> Sessions \cup {NoSession}]
ASSUME BoundsAssumption == MaxStarts \in Nat /\ MaxCrashes \in Nat

VARIABLES
  api,        \* the run the API keeps for each idempotency key; the key names it
  row,        \* requests, by request_id
  binding,    \* lane_bindings, by lane
  call,       \* calls in progress
  starts,     \* run_start calls so far
  crashes,    \* restarts so far
  \* Observers, read by properties only.
  sent,       \* keys the API accepted a submit of the request under
  replaced    \* requests whose recorded row was replaced by a later admission

vars == <<api, row, binding, call, starts, crashes, sent, replaced>>

Ended == {"completed", "failed", "cancelled"}

Words == {"pending", "unknown", "started", "running", "stopping"} \cup Ended

\* A run without a session of its own is given the run id as its session.
AnySession == Sessions \cup Keys

NoApiRun == [status |-> "none", payload |-> NoPayload, session |-> NoSession]

AbsentRow == [status |-> "absent", key |-> NoRun, payload |-> NoPayload,
              run |-> NoRun, session |-> NoSession]

IdleCall == [pc |-> "idle", op |-> "none", req |-> NoRequest, key |-> NoRun,
             payload |-> NoPayload, existing |-> AbsentRow, session |-> NoSession,
             run |-> NoRun, rec |-> NoRequest, lane |-> NoLane,
             word |-> "pending", reply |-> NoSession]

-----------------------------------------------------------------------------
ApiRun == [status : {"none", "running", "stopping"} \cup Ended,
           payload : Payloads \cup {NoPayload}, session : AnySession \cup {NoSession}]

Row == [status : {"absent"} \cup Words, key : Keys \cup {NoRun},
        payload : Payloads \cup {NoPayload}, run : Keys \cup {NoRun},
        session : AnySession \cup {NoSession}]

CallPc == {"idle", "key", "lane", "save", "resolve", "ask", "store", "mark",
           "submit", "record", "fail", "bind"}

Call == [pc : CallPc, op : {"none", "start", "retry", "status", "stop"},
         req : Requests \cup {NoRequest}, key : Keys \cup {NoRun},
         payload : Payloads \cup {NoPayload}, existing : Row,
         session : AnySession \cup {NoSession}, run : Keys \cup {NoRun},
         rec : Requests \cup {NoRequest}, lane : Lanes \cup {NoLane},
         word : Words, reply : AnySession \cup {NoSession}]

TypeOK ==
  /\ api \in [Keys -> ApiRun]
  /\ row \in [Requests -> Row]
  /\ binding \in [Lanes -> AnySession \cup {NoSession}]
  /\ call \in [Callers -> Call]
  /\ \A c \in Callers : call[c].pc = "bind" => call[c].reply # NoSession
  /\ starts \in Nat
  /\ crashes \in Nat
  /\ sent \in [Requests -> SUBSET Keys]
  /\ replaced \in SUBSET Requests

Init ==
  /\ api = [k \in Keys |-> NoApiRun]
  /\ row = [r \in Requests |-> AbsentRow]
  /\ binding = [l \in Lanes |-> NoSession]
  /\ call = [c \in Callers |-> IdleCall]
  /\ starts = 0
  /\ crashes = 0
  /\ sent = [r \in Requests |-> {}]
  /\ replaced = {}

At(c, pc) == call[c].pc = pc

Becomes(c, next) == call' = [call EXCEPT ![c] = next]

Registry == <<row, binding, replaced>>
External == <<api, sent>>
Budget == <<starts, crashes>>

\* A step that only reads.
Moves(c, next) == Becomes(c, next) /\ UNCHANGED <<Registry, External, Budget>>

Present(record) == record.status # "absent"

Holders(key) == {r \in Requests : row[r].key = key}

Owners(run) == {r \in Requests : row[r].run = run}

-----------------------------------------------------------------------------
(* run_start, up to the submit.                                            *)

\* request_by_id.  The key is the caller's or the one derived from r.
StartRead(c, r, key, payload) ==
  /\ At(c, "idle")
  /\ starts < MaxStarts
  /\ starts' = starts + 1
  /\ Becomes(c, [IdleCall EXCEPT !.pc = "key", !.op = "start", !.req = r, !.key = key,
                   !.payload = payload, !.lane = LaneOf[payload], !.existing = row[r]])
  /\ UNCHANGED <<Registry, External, crashes>>

\* request_by_idempotency.  A new request whose key another request holds is
\* answered with that request's record, or refused: either way it ends.
StartKey(c) ==
  LET d == call[c]
      taken == ~Present(d.existing) /\ Holders(d.key) \ {d.req} # {}
  IN
  /\ At(c, "key")
  /\ Moves(c, IF taken THEN IdleCall ELSE [d EXCEPT !.pc = "lane"])

\* Mutant of OtherPayload: the fingerprints are not compared.
OtherPayloadIgnored(d) == FALSE

\* The request_id was used with another payload.
OtherPayload(d) == Present(d.existing) /\ d.existing.payload # d.payload

\* Mutant of StoredKey: a retry goes by the key its caller supplies.
CallersKey(d) == d.key

\* A retry goes by the key of the record.
StoredKey(d) == d.existing.key

(***************************************************************************)
(* _lane_session, then what the record found at the beginning says: a      *)
(* different payload is refused, a settled run is replayed, an unknown run *)
(* is asked for, anything else is submitted again under its stored key.    *)
(***************************************************************************)
StartLane(c) ==
  LET d == call[c]
      found == d.existing
      current == binding[d.lane]
      supplied == SessionOf[d.payload]
      refused == \/ supplied # NoSession /\ current \notin {NoSession, supplied}
                 \/ OtherPayload(d)
      replayed == Present(found) /\ found.run # NoRun /\ found.status \notin {"unknown", "pending"}
      uncertain == found.status = "unknown" /\ found.run # NoRun
      next == [d EXCEPT !.existing = AbsentRow,
                        !.session = IF supplied # NoSession THEN supplied ELSE current]
  IN
  /\ At(c, "lane")
  /\ Moves(c,
       IF refused \/ replayed THEN IdleCall
       ELSE IF ~Present(found) THEN [next EXCEPT !.pc = "save"]
       ELSE IF uncertain THEN [next EXCEPT !.pc = "resolve", !.op = "retry",
                                           !.key = StoredKey(d), !.run = found.run]
       ELSE [next EXCEPT !.pc = "submit", !.key = StoredKey(d)])

\* save_request: an upsert by request_id.  A key that another row has taken in
\* the meantime violates the UNIQUE constraint, and the call dies of it.
StartSave(c) ==
  LET d == call[c]
      r == d.req
  IN
  /\ At(c, "save")
  /\ IF Holders(d.key) \ {r} # {}
       THEN Becomes(c, IdleCall) /\ UNCHANGED Registry
       ELSE /\ row' = [row EXCEPT ![r] = [status |-> "pending", key |-> d.key, payload |-> d.payload,
                                          run |-> NoRun, session |-> d.session]]
            /\ replaced' = IF Present(row[r]) THEN replaced \cup {r} ELSE replaced
            /\ Becomes(c, [d EXCEPT !.pc = "submit"])
            /\ UNCHANGED binding
  /\ UNCHANGED <<External, Budget>>

-----------------------------------------------------------------------------
(* The submit and what becomes of it.                                      *)

\* Mutant of Assumed: there is no session but the selected one.
AssumedSelected(d) == d.session

\* The session of a run whose reply names none.
Assumed(d) == IF d.session = NoSession THEN d.key ELSE d.session

\* POST /v1/runs as the bridge relies on it: one run per idempotency key.
ApiAccepts(d) ==
  IF api[d.key].status # "none" THEN api[d.key]
  ELSE [status |-> "running", payload |-> d.payload,
        session |-> IF d.session = NoSession THEN d.key ELSE d.session]

\* The reply may leave the session out; it says "started" or the run's status.
SubmitAccepted(c) ==
  LET d == call[c]
      run == ApiAccepts(d)
  IN
  /\ At(c, "submit")
  /\ api' = [api EXCEPT ![d.key] = run]
  /\ sent' = [sent EXCEPT ![d.req] = @ \cup {d.key}]
  /\ \E word \in {"started", run.status}, session \in {run.session, Assumed(d)} :
       Becomes(c, [d EXCEPT !.pc = "record", !.word = word, !.run = d.key, !.reply = session])
  /\ UNCHANGED <<Registry, Budget>>

\* The reply is lost or names no run, or an accepted run is reported as an
\* error: an HTTP status from in between, or a body that is not JSON.
SubmitLost(c) ==
  LET d == call[c] IN
  /\ At(c, "submit")
  /\ api' = [api EXCEPT ![d.key] = ApiAccepts(d)]
  /\ sent' = [sent EXCEPT ![d.req] = @ \cup {d.key}]
  /\ \E word \in {"failed", "unknown"} : Becomes(c, [d EXCEPT !.pc = "fail", !.word = word])
  /\ UNCHANGED <<Registry, Budget>>

\* The submit is answered with an error, or does not reach the API.
SubmitRefused(c) ==
  /\ At(c, "submit")
  /\ \E word \in {"failed", "unknown"} :
       Moves(c, [call[c] EXCEPT !.pc = "fail", !.word = word])

\* Mutant of StartRecord: the run id is not stored with the status.
StartRecordStatus(c) ==
  LET d == call[c] IN
  /\ At(c, "record")
  /\ row' = [row EXCEPT ![d.req] = [@ EXCEPT !.status = d.word, !.session = d.reply]]
  /\ Becomes(c, [d EXCEPT !.pc = "bind"])
  /\ UNCHANGED <<binding, replaced, External, Budget>>

StartRecord(c) ==
  LET d == call[c] IN
  /\ At(c, "record")
  /\ row' = [row EXCEPT ![d.req] = [@ EXCEPT !.status = d.word, !.run = d.run, !.session = d.reply]]
  /\ Becomes(c, [d EXCEPT !.pc = "bind"])
  /\ UNCHANGED <<binding, replaced, External, Budget>>

\* _record_error; a run id the row may have is kept.
StartFail(c) ==
  LET d == call[c] IN
  /\ At(c, "fail")
  /\ row' = [row EXCEPT ![d.req].status = d.word]
  /\ Becomes(c, IdleCall)
  /\ UNCHANGED <<binding, replaced, External, Budget>>

\* Where a status that run_start has asked for, and cannot use, leads: to the
\* submit.  Any other call is over.
Continues(d) ==
  IF d.op = "retry" THEN [d EXCEPT !.pc = "submit", !.op = "start", !.lane = LaneOf[d.payload]]
                    ELSE IdleCall

\* bind_profile_lane, after run_start's submit or after a status.
Bind(c) ==
  LET d == call[c] IN
  /\ At(c, "bind")
  /\ binding' = [binding EXCEPT ![d.lane] = d.reply]
  /\ Becomes(c, Continues(d))
  /\ UNCHANGED <<row, replaced, External, Budget>>

-----------------------------------------------------------------------------
(* run_status, alone or from run_start, and run_stop.                      *)

Begin(c, op, run) ==
  /\ At(c, "idle")
  /\ api[run].status # "none"
  /\ Moves(c, [IdleCall EXCEPT !.pc = "resolve", !.op = op, !.run = run])

StatusStart(c, run) == Begin(c, "status", run)

StopStart(c, run) == Begin(c, "stop", run)

\* _resolve_run.  (By lane: the lane's latest row; it is one of these as well.)
Resolve(c) ==
  LET d == call[c] IN
  /\ At(c, "resolve")
  /\ \/ \E r \in Owners(d.run) :
          Moves(c, [d EXCEPT !.pc = "ask", !.rec = r, !.lane = LaneOf[row[r].payload]])
     \/ Owners(d.run) = {} /\ Moves(c, [d EXCEPT !.pc = "ask"])

\* GET /v1/runs/<run>.  run_start returns what it got unless the run reports
\* an error, in which case it records the status and submits all the same.
StatusAnswered(c) ==
  LET d == call[c]
      run == api[d.run]
  IN
  /\ At(c, "ask")
  /\ d.op \in {"status", "retry"}
  /\ \E op \in {"status"} \cup (IF run.status = "failed" THEN {d.op} ELSE {}) :
       LET next == [d EXCEPT !.op = op, !.word = run.status, !.reply = run.session] IN
       Moves(c, IF d.rec = NoRequest THEN Continues(next) ELSE [next EXCEPT !.pc = "store"])

AskFails(c) ==
  /\ At(c, "ask")
  /\ Moves(c, Continues(call[c]))

\* Mutant of StatusStore: what looks final is not corrected.
StatusStoreOnce(c) ==
  LET d == call[c] IN
  /\ At(c, "store")
  /\ row' = IF row[d.rec].status \in Ended THEN row
            ELSE [row EXCEPT ![d.rec] = [@ EXCEPT !.status = d.word, !.session = d.reply]]
  /\ Becomes(c, [d EXCEPT !.pc = "bind"])
  /\ UNCHANGED <<binding, replaced, External, Budget>>

StatusStore(c) ==
  LET d == call[c] IN
  /\ At(c, "store")
  /\ row' = [row EXCEPT ![d.rec] = [@ EXCEPT !.status = d.word, !.session = d.reply]]
  /\ Becomes(c, [d EXCEPT !.pc = "bind"])
  /\ UNCHANGED <<binding, replaced, External, Budget>>

\* POST /v1/runs/<run>/stop: a running run is asked to end; the answer may be lost.
StopAsk(c) ==
  LET d == call[c]
      word == IF api[d.run].status = "running" THEN "stopping" ELSE api[d.run].status
  IN
  /\ At(c, "ask")
  /\ d.op = "stop"
  /\ api' = [api EXCEPT ![d.run].status = word]
  /\ \E answered \in BOOLEAN :
       Becomes(c, IF answered /\ d.rec # NoRequest THEN [d EXCEPT !.pc = "mark", !.word = word]
                                                   ELSE IdleCall)
  /\ UNCHANGED <<sent, Registry, Budget>>

StopMark(c) ==
  LET d == call[c] IN
  /\ At(c, "mark")
  /\ row' = [row EXCEPT ![d.rec].status = d.word]
  /\ Becomes(c, IdleCall)
  /\ UNCHANGED <<binding, replaced, External, Budget>>

-----------------------------------------------------------------------------
StartStep(c) ==
  \/ StartKey(c)
  \/ StartLane(c)
  \/ StartSave(c)
  \/ SubmitAccepted(c)
  \/ SubmitLost(c)
  \/ SubmitRefused(c)
  \/ StartRecord(c)
  \/ StartFail(c)
  \/ Bind(c)

StatusStep(c) ==
  \/ Resolve(c)
  \/ StatusAnswered(c)
  \/ AskFails(c)
  \/ StatusStore(c)
  \/ StopAsk(c)
  \/ StopMark(c)

CallBegins(c) ==
  \/ \E r \in Requests, key \in Keys, payload \in Payloads : StartRead(c, r, key, payload)
  \/ \E run \in Keys : StatusStart(c, run)
  \/ \E run \in Keys : StopStart(c, run)

RunEnds(run) ==
  /\ \E word \in Ended :
       /\ \/ api[run].status = "running" /\ word # "cancelled"
          \/ api[run].status = "stopping"
       /\ api' = [api EXCEPT ![run].status = word]
  /\ UNCHANGED <<Registry, call, Budget, sent>>

\* The bridge process is killed and restarted.
Crash ==
  /\ crashes < MaxCrashes
  /\ crashes' = crashes + 1
  /\ call' = [c \in Callers |-> IdleCall]
  /\ UNCHANGED <<Registry, External, starts>>

Next ==
  \/ \E c \in Callers : CallBegins(c)
  \/ \E c \in Callers : StartStep(c)
  \/ \E c \in Callers : StatusStep(c)
  \/ \E run \in Keys : RunEnds(run)
  \/ Crash

Spec == Init /\ [][Next]_vars

-----------------------------------------------------------------------------
(* Properties.  `replaced' sets the one known race aside: two admissions   *)
(* that both found nothing, the second replacing the first one's row.      *)

(***************************************************************************)
(* README: "one logical durable request keeps one idempotency identity".   *)
(* Through retries with other explicit keys, lost replies, refusals and    *)
(* restarts, every submit of a request the API accepts carries the key of  *)
(* its row.                                                                *)
(***************************************************************************)
OneIdentity == \A r \in Requests \ replaced : sent[r] \subseteq {row[r].key}

(***************************************************************************)
(* A recorded run is the request's own: it was created for the payload     *)
(* the request was made with, and no other request has it - although keys  *)
(* are the callers' to choose and the API replays whatever run a key has.  *)
(***************************************************************************)
RunIsOwn ==
  replaced = {} =>
    \A r \in Requests : row[r].run # NoRun =>
      /\ api[row[r].run].payload = row[r].payload
      /\ Owners(row[r].run) = {r}

(***************************************************************************)
(* What a replayed run_start answers from the row alone is no invention: a *)
(* row says "completed" or "cancelled" only of a run that ended that way.  *)
(* ("failed" also stands for a refused submit.)                            *)
(***************************************************************************)
RecordedOutcomeIsTrue ==
  replaced = {} =>
    \A r \in Requests : row[r].status \in {"completed", "cancelled"} =>
      row[r].run # NoRun /\ api[row[r].run].status = row[r].status

(***************************************************************************)
(* What the repository says and the code does not keep.                    *)
(***************************************************************************)

\* README: "one logical durable request keeps one idempotency identity", also
\* when two calls with one request_id and different explicit keys overlap.
OneIdempotencyIdentity == \A r \in Requests : Cardinality(sent[r]) <= 1

(***************************************************************************)
(* Liveness.  Worker threads are scheduled, somebody keeps asking for the  *)
(* status of every run (run_wait does, and tells its caller to call again) *)
(* and the API answers once in a while.                                    *)
(***************************************************************************)
Fairness ==
  /\ \A c \in Callers : WF_vars(StartStep(c) \/ StatusStep(c)) /\ SF_vars(StatusAnswered(c))
  /\ \A run \in Keys : SF_vars(\E c \in Callers : StatusStart(c, run))

FairSpec == Spec /\ Fairness

(***************************************************************************)
(* Late answers may overwrite newer ones, an acknowledgement a terminal    *)
(* status; in the end the row has the outcome of the run it names, and     *)
(* keeps it.                                                               *)
(***************************************************************************)
OutcomeSettles ==
  \A r \in Requests, run \in Keys :
    <>[](replaced = {} /\ row[r].run = run /\ api[run].status \in Ended)
      => <>[](row[r].status = api[run].status)
=============================================================================
