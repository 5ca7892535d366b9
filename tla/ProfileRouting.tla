--------------------------- MODULE ProfileRouting ---------------------------
(***************************************************************************)
(* Which Hermes profile a call goes out under (service.py, live_service.py *)
(* with the profile columns of registry.py): profiles inferred from        *)
(* requests, sessions, runtimes and lanes, conflicts refused, bindings     *)
(* written after the remote call, and what of it a restart leaves.         *)
(*                                                                         *)
(* Tool calls run on worker threads.  What a call reads before its first   *)
(* write or remote call is one step here, and a refused call is no step;   *)
(* DurableRun and LiveTurn have the inside of admissions and waits.        *)
(* Callers may leave the profile out, or supply any, in every call.        *)
(***************************************************************************)
EXTENDS Integers, FiniteSets

CONSTANTS
  Profiles, Default,   \* canonical profile ids
  Lanes,
  Requests,            \* request_ids of run_start
  Prompts,             \* request_ids of live_prompt
  LaneOf,              \* the lane a request is made for
  SessionOf,           \* the session run_start is given for a request
  Named,               \* stored sessions there may be from the beginning
  Runtimes,            \* bound: runtime session ids the gateway can mint
  Callers,             \* worker threads
  None,                \* "not supplied", "not known"
  MaxCalls             \* bound: tool calls and restarts of the bridge process

\* The API's run for a request, and the session of a run that was given none.
Runs == Profiles \X Requests

\* A created session is named after its first runtime.
Sessions == Named \cup Runs \cup Runtimes

ASSUME ProfileAssumption == Default \in Profiles
ASSUME RequestAssumption ==
  /\ LaneOf \in [Requests \cup Prompts -> Lanes]
  /\ SessionOf \in [Requests -> Named \cup {None}]
  /\ Requests \cap Prompts = {}
ASSUME NoneAssumption ==
  None \notin Profiles \cup Lanes \cup Requests \cup Prompts \cup Runs \cup Sessions
ASSUME SessionAssumption ==
  Named \cap Runs = {} /\ Named \cap Runtimes = {} /\ Runs \cap Runtimes = {}
ASSUME CallBoundAssumption == MaxCalls \in Nat

VARIABLES
  \* Hermes.
  home,       \* the stored sessions of each profile
  runs,       \* the session of each run, None if there is no such run
  opened,     \* the profile and session a runtime was opened for
  alive,      \* runtimes of the present gateway process
  \* The registry.
  row,        \* requests
  liveRow,    \* live_requests
  binding,    \* lane_bindings
  \* The bridge process.
  runtimes,   \* _runtimes
  stored,     \* _stored_by_runtime
  call,       \* the tool calls
  calls,      \* tool calls and restarts of the bridge so far
  \* Observers: read by properties only.
  submitted,  \* the profiles a request was submitted under
  replaced,   \* requests whose row a later admission has replaced
  guessed     \* runtimes used while no profile was known for them

hermes == <<home, runs, opened, alive>>
registry == <<row, liveRow, binding>>
process == <<runtimes, stored>>
observers == <<submitted, replaced, guessed>>
vars == <<hermes, registry, process, call, calls, observers>>

AbsentRow == [profile |-> None, session |-> None, run |-> None]

AbsentLiveRow == [profile |-> None, runtime |-> None]

Unopened == [profile |-> None, session |-> None]

Idle == [pc |-> "idle", op |-> "none", profile |-> None, lane |-> None, req |-> None,
         run |-> None, session |-> None, runtime |-> None]

-----------------------------------------------------------------------------
OrNone(S) == S \cup {None}

Pcs == {"idle", "save", "submit", "record", "bind", "ask", "attach", "remember",
        "reserve", "prompt", "ack", "use"}

Ops == {"none", "start", "status", "run", "open", "reopen", "prompt", "live"}

Call == [pc : Pcs, op : Ops, profile : OrNone(Profiles), lane : OrNone(Lanes),
         req : OrNone(Requests \cup Prompts), run : OrNone(Runs), session : OrNone(Sessions),
         runtime : OrNone(Runtimes)]

TypeOK ==
  /\ home \in [Profiles -> SUBSET Sessions]
  /\ runs \in [Runs -> OrNone(Sessions)]
  /\ opened \in [Runtimes -> [profile : OrNone(Profiles), session : OrNone(Sessions)]]
  /\ alive \in SUBSET Runtimes
  /\ row \in [Requests ->
                [profile : OrNone(Profiles), session : OrNone(Sessions), run : OrNone(Runs)]]
  /\ liveRow \in [Prompts -> [profile : OrNone(Profiles), runtime : OrNone(Runtimes)]]
  /\ binding \in [Profiles -> [Lanes -> OrNone(Sessions)]]
  /\ runtimes \in [Profiles -> [Lanes -> OrNone(Runtimes)]]
  /\ stored \in [Runtimes -> OrNone(Sessions)]
  /\ call \in [Callers -> Call]
  /\ \A c \in Callers : call[c].pc = "bind" => call[c].session # None
  /\ calls \in Nat
  /\ submitted \in [Requests \cup Prompts -> SUBSET Profiles]
  /\ replaced \in SUBSET Requests
  /\ guessed \in SUBSET Runtimes

Init ==
  /\ home \in [Profiles -> SUBSET Named]
  /\ runs = [n \in Runs |-> None]
  /\ opened = [x \in Runtimes |-> Unopened]
  /\ alive = {}
  /\ row = [r \in Requests |-> AbsentRow]
  /\ liveRow = [v \in Prompts |-> AbsentLiveRow]
  /\ binding = [p \in Profiles |-> [l \in Lanes |-> None]]
  /\ runtimes = [p \in Profiles |-> [l \in Lanes |-> None]]
  /\ stored = [x \in Runtimes |-> None]
  /\ call = [c \in Callers |-> Idle]
  /\ calls = 0
  /\ submitted = [r \in Requests \cup Prompts |-> {}]
  /\ replaced = {}
  /\ guessed = {}

At(c, pc) == call[c].pc = pc

Becomes(c, next) == call' = [call EXCEPT ![c] = next]

\* A tool call gets as far as its first write or remote call.
Begins(c, next) ==
  /\ Becomes(c, next)
  /\ UNCHANGED <<hermes, registry, process, submitted, replaced>>

-----------------------------------------------------------------------------
(* What the registry and the process know.                                 *)

Present(record) == record.profile # None

\* profiles_for_lane, profiles_for_session.
LaneProfiles(l) == {p \in Profiles : binding[p][l] # None}

BindingProfiles(s) == {p \in Profiles : \E l \in Lanes : binding[p][l] = s}

\* request_profiles_for_lane, profiles_for_request_session.
RequestLaneProfiles(l) ==
  {row[r].profile : r \in {q \in Requests : Present(row[q]) /\ LaneOf[q] = l}}

RequestSessionProfiles(s) ==
  {row[r].profile : r \in {q \in Requests : Present(row[q]) /\ row[q].session = s}}

SessionProfiles(s) == BindingProfiles(s) \cup RequestSessionProfiles(s)

\* live_request_profiles_for_runtime; a live row keeps its runtime id for good.
LiveRequestProfiles(x) ==
  {liveRow[v].profile : v \in {w \in Prompts : Present(liveRow[w]) /\ liveRow[w].runtime = x}}

\* _profiles_for_runtime.
RuntimeProfiles(x) ==
  LiveRequestProfiles(x) \cup IF stored[x] = None THEN {} ELSE BindingProfiles(stored[x])

-----------------------------------------------------------------------------
(* The rules, as the set of profiles a call may go out under: one profile, *)
(* or none when the call is refused.  `p' is the profile the caller        *)
(* supplies, or None.                                                      *)

\* lane_profile_ambiguous, unless there is one.
Sole(known) == IF Cardinality(known) = 1 THEN known ELSE {}

Inferred(known) == IF known = {} THEN {Default} ELSE Sole(known)

\* Mutant of Directed: the supplied profile always wins.
DirectedAsAsked(p, known) == IF p = None THEN Inferred(known) ELSE {p}

\* A run, request or runtime that is known (_resolve_run, prompt,
\* _resolve_live_target): another profile is a conflict, not a reroute.
Directed(p, known) ==
  IF p = None THEN Inferred(known) ELSE {p} \ (IF known = {} THEN {} ELSE Profiles \ known)

\* _lane_profile: by the bindings of the lane.
ForLane(p, l) == IF p = None THEN Inferred(LaneProfiles(l)) ELSE {p}

\* _open_profile: a session that is known outranks the lane.
ForOpen(p, l, s) ==
  IF p = None /\ s # None /\ SessionProfiles(s) # {} THEN Sole(SessionProfiles(s))
                                                     ELSE ForLane(p, l)

\* _start_profile: a request that is known outranks both.
ForStart(p, r) ==
  LET s == SessionOf[r] IN
  IF p # None THEN {p}
  ELSE IF Present(row[r]) THEN {row[r].profile}
  ELSE IF s # None /\ SessionProfiles(s) # {} THEN Sole(SessionProfiles(s))
  ELSE Inferred(LaneProfiles(LaneOf[r]) \cup RequestLaneProfiles(LaneOf[r]))

\* lane_session_conflict and lane_profile_conflict.  Only bindings are looked
\* at: a session that only a request row has under another profile passes.
SessionFits(p, l, s) ==
  s # None => /\ binding[p][l] \in {None, s}
              /\ BindingProfiles(s) # {} => p \in BindingProfiles(s)

Target(p, l, s) == IF s # None THEN s ELSE binding[p][l]

\* _runtime_for_lane: the runtime supplied, if it is not known under others, or the lane's.
RuntimeFor(p, l, x) ==
  IF x = None THEN {runtimes[p][l]} \ {None}
  ELSE IF RuntimeProfiles(x) = {} \/ p \in RuntimeProfiles(x) THEN {x} ELSE {}

\* The observer of runtimes used without any knowledge.
Guesses(x) ==
  guessed' = IF x # None /\ RuntimeProfiles(x) = {} THEN guessed \cup {x} ELSE guessed

-----------------------------------------------------------------------------
(* run_start.                                                              *)

\* Mutant of SameProfile: a request may come back under another profile.
SameProfileIgnored(r, p) == TRUE

\* request_profile_conflict.
SameProfile(r, p) == Present(row[r]) => row[r].profile = p

\* A recorded run is replayed, a request without one submitted (again).
StartBegins(c, asked, r) ==
  \E p \in ForStart(asked, r) :
    LET l == LaneOf[r] IN
    /\ SessionFits(p, l, SessionOf[r])
    /\ SameProfile(r, p)
    /\ row[r].run = None
    /\ Begins(c, [Idle EXCEPT !.pc = IF Present(row[r]) THEN "submit" ELSE "save", !.op = "start",
                              !.profile = p, !.lane = l, !.req = r,
                              !.session = Target(p, l, SessionOf[r])])
    /\ UNCHANGED guessed

\* save_request, an upsert that replaces the profile too.
StartSave(c) ==
  LET d == call[c] IN
  /\ At(c, "save")
  /\ row' = [row EXCEPT ![d.req] = [profile |-> d.profile, session |-> d.session, run |-> None]]
  /\ replaced' = IF Present(row[d.req]) THEN replaced \cup {d.req} ELSE replaced
  /\ Becomes(c, [d EXCEPT !.pc = "submit"])
  /\ UNCHANGED <<hermes, liveRow, binding, process, calls, submitted, guessed>>

\* Mutant of Assumed: there is no session but the selected one.
AssumedSelected(d, run) == d.session

\* The session of a run whose reply names none.
Assumed(d, run) == IF d.session = None THEN run ELSE d.session

\* The profile's API makes the run, once; its reply may leave the session
\* out, or be lost.
StartSubmit(c) ==
  LET d == call[c]
      run == <<d.profile, d.req>>
      made == IF runs[run] # None THEN runs[run] ELSE IF d.session = None THEN run ELSE d.session
  IN
  /\ At(c, "submit")
  /\ runs' = [runs EXCEPT ![run] = made]
  /\ home' = [home EXCEPT ![d.profile] = @ \cup {made}]
  /\ submitted' = [submitted EXCEPT ![d.req] = @ \cup {d.profile}]
  /\ \/ \E s \in {made, Assumed(d, run)} :
          Becomes(c, [d EXCEPT !.pc = "record", !.run = run, !.session = s])
     \/ Becomes(c, Idle)
  /\ UNCHANGED <<opened, alive, registry, process, calls, replaced, guessed>>

\* update_request: run and session, whatever profile the row has by now.
StartRecord(c) ==
  LET d == call[c] IN
  /\ At(c, "record")
  /\ row' = [row EXCEPT ![d.req] = [@ EXCEPT !.run = d.run, !.session = d.session]]
  /\ Becomes(c, [d EXCEPT !.pc = "bind"])
  /\ UNCHANGED <<hermes, liveRow, binding, process, calls, observers>>

\* Mutant of Bind: the profile is left out.
BindDefault(c) ==
  LET d == call[c] IN
  /\ At(c, "bind")
  /\ binding' = [binding EXCEPT ![Default][d.lane] = d.session]
  /\ Becomes(c, IF d.runtime = None THEN Idle ELSE [d EXCEPT !.pc = "remember"])
  /\ UNCHANGED <<hermes, row, liveRow, process, calls, observers>>

\* bind_profile_lane, of run_start, run_status or live_session_open.
Bind(c) ==
  LET d == call[c] IN
  /\ At(c, "bind")
  /\ binding' = [binding EXCEPT ![d.profile][d.lane] = d.session]
  /\ Becomes(c, IF d.runtime = None THEN Idle ELSE [d EXCEPT !.pc = "remember"])
  /\ UNCHANGED <<hermes, row, liveRow, process, calls, observers>>

-----------------------------------------------------------------------------
(* run_status, and run_events, run_stop and run_steer, which do the same   *)
(* without binding.  (By lane: the lane's latest run; it is one of these.) *)

Owners(run) == {r \in Requests : row[r].run = run}

RunCallBegins(c, asked, run, op) ==
  /\ runs[run] # None
  /\ \E r \in IF Owners(run) = {} THEN {None} ELSE Owners(run) :
     \E p \in Directed(asked, IF r = None THEN {} ELSE {row[r].profile}) :
       Begins(c, [Idle EXCEPT !.pc = "ask", !.op = op, !.profile = p, !.run = run, !.req = r,
                              !.lane = IF r = None THEN None ELSE LaneOf[r],
                              !.session = IF r = None THEN None ELSE row[r].session])
  /\ UNCHANGED guessed

\* Only the profile the run was made in knows it.  A status is stored and its
\* session, or the one the row had, bound to the request's lane.
RunAnswers(c) ==
  LET d == call[c] IN
  /\ At(c, "ask")
  /\ d.run[1] = d.profile
  /\ IF d.op = "status" /\ d.req # None
       THEN \E s \in {runs[d.run], d.session} :
              /\ row' = [row EXCEPT ![d.req].session = s]
              /\ Becomes(c, [d EXCEPT !.pc = "bind", !.session = s])
       ELSE UNCHANGED row /\ Becomes(c, Idle)
  /\ UNCHANGED <<hermes, liveRow, binding, process, calls, observers>>

-----------------------------------------------------------------------------
(* live_session_open, also as a part of other calls.                       *)

OpenBegins(c, asked, l, s) ==
  /\ \E p \in ForOpen(asked, l, s) :
       /\ SessionFits(p, l, s)
       /\ Begins(c, [Idle EXCEPT !.pc = "attach", !.op = "open", !.profile = p, !.lane = l,
                                 !.session = Target(p, l, s)])
  /\ UNCHANGED guessed

\* The gateway attaches to the session's runtime, if the profile has the
\* session, or makes a new runtime or a new session.
Attach(c) ==
  LET d == call[c] IN
  /\ At(c, "attach")
  /\ d.session \in OrNone(home[d.profile])
  /\ \E x \in Runtimes :
       LET s == IF d.session = None THEN x ELSE d.session
           this == [profile |-> d.profile, session |-> s]
       IN
       /\ opened[x] = Unopened \/ (x \in alive /\ opened[x] = this /\ d.session # None)
       /\ opened' = [opened EXCEPT ![x] = this]
       /\ alive' = alive \cup {x}
       /\ home' = [home EXCEPT ![d.profile] = @ \cup {s}]
       /\ Becomes(c, [d EXCEPT !.pc = "bind", !.session = s, !.runtime = x])
  /\ UNCHANGED <<runs, registry, process, calls, observers>>

\* Mutant of Rotated: the live rows of the lane in every profile are rewritten.
RotatedAnywhere(p, l, x) ==
  [v \in Prompts |-> IF Present(liveRow[v]) /\ LaneOf[v] = l
                       THEN [liveRow[v] EXCEPT !.runtime = x] ELSE liveRow[v]]

\* The lane's live rows of this profile follow the runtime id.
Rotated(p, l, x) ==
  [v \in Prompts |-> IF liveRow[v].profile = p /\ LaneOf[v] = l
                       THEN [liveRow[v] EXCEPT !.runtime = x] ELSE liveRow[v]]

\* _remember_runtime; a call that had to reopen its lane goes on with the runtime.
Remember(c) ==
  LET d == call[c] IN
  /\ At(c, "remember")
  /\ runtimes' = [runtimes EXCEPT ![d.profile][d.lane] = d.runtime]
  /\ stored' = [stored EXCEPT ![d.runtime] = d.session]
  /\ liveRow' = Rotated(d.profile, d.lane, d.runtime)
  /\ Becomes(c, IF d.op = "reopen" THEN [d EXCEPT !.pc = "use"] ELSE Idle)
  /\ UNCHANGED <<hermes, row, binding, calls, observers>>

-----------------------------------------------------------------------------
(* live_prompt.                                                            *)

\* A known request keeps its profile.
ForPrompt(asked, v) ==
  IF Present(liveRow[v]) THEN Directed(asked, {liveRow[v].profile}) ELSE ForLane(asked, LaneOf[v])

PromptBegins(c, asked, v, supplied) ==
  /\ \E p \in ForPrompt(asked, v) :
     \E x \in RuntimeFor(p, LaneOf[v], supplied) :
       Begins(c, [Idle EXCEPT !.pc = "reserve", !.op = "prompt", !.profile = p,
                              !.lane = LaneOf[v], !.req = v, !.runtime = x])
  /\ Guesses(supplied)

\* reserve_live_request; a record that is there already is replayed or refused.
PromptReserve(c) ==
  LET d == call[c] IN
  /\ At(c, "reserve")
  /\ IF Present(liveRow[d.req])
       THEN UNCHANGED liveRow /\ Becomes(c, Idle)
       ELSE /\ liveRow' = [liveRow EXCEPT ![d.req] = [profile |-> d.profile, runtime |-> d.runtime]]
            /\ Becomes(c, [d EXCEPT !.pc = "prompt"])
  /\ UNCHANGED <<hermes, row, binding, process, calls, observers>>

\* prompt.submit.
PromptSubmit(c) ==
  LET d == call[c] IN
  /\ At(c, "prompt")
  /\ submitted' = [submitted EXCEPT ![d.req] = @ \cup {d.profile}]
  /\ \E next \in {Idle, [d EXCEPT !.pc = "ack"]} : Becomes(c, next)
  /\ UNCHANGED <<hermes, registry, process, calls, replaced, guessed>>

\* The runtime is stored again, also if the lane has another one by now.
PromptAck(c) ==
  LET d == call[c] IN
  /\ At(c, "ack")
  /\ liveRow' = [liveRow EXCEPT ![d.req].runtime = d.runtime]
  /\ Becomes(c, Idle)
  /\ UNCHANGED <<hermes, row, binding, process, calls, observers>>

-----------------------------------------------------------------------------
(* The other live calls, from their decision to the remote call.           *)

Uses(p, x) == [Idle EXCEPT !.pc = "use", !.op = "live", !.profile = p, !.runtime = x]

\* live_wait, by request id.  (By lane: the lane's latest row; it is one of these.)
WaitBegins(c, asked, v) ==
  /\ Present(liveRow[v])
  /\ \E p \in Directed(asked, {liveRow[v].profile}) : Begins(c, Uses(p, liveRow[v].runtime))
  /\ UNCHANGED guessed

\* live_reconcile opens the request's lane in the request's profile.
ReconcileBegins(c, v) ==
  LET p == liveRow[v].profile IN
  /\ Present(liveRow[v])
  /\ Begins(c, [Idle EXCEPT !.pc = "attach", !.op = "reopen", !.profile = p, !.lane = LaneOf[v],
                            !.session = binding[p][LaneOf[v]]])
  /\ UNCHANGED guessed

\* live_status, live_history, live_events, live_steer and live_interrupt, by
\* runtime ...
RuntimeCallBegins(c, asked, x) ==
  /\ \E p \in Directed(asked, RuntimeProfiles(x)) : Begins(c, Uses(p, x))
  /\ Guesses(x)

\* ... and by lane, with or without a runtime.
LaneCallBegins(c, asked, l, supplied) ==
  /\ \E p \in ForLane(asked, l) :
     \E x \in RuntimeFor(p, l, supplied) : Begins(c, Uses(p, x))
  /\ Guesses(supplied)

\* A lane without a runtime is reopened first by those that only read.
LaneCallReopens(c, asked, l) ==
  /\ \E p \in ForLane(asked, l) :
       /\ runtimes[p][l] = None
       /\ binding[p][l] # None
       /\ Begins(c, [Idle EXCEPT !.pc = "attach", !.op = "reopen", !.profile = p, !.lane = l,
                                 !.session = binding[p][l]])
  /\ UNCHANGED guessed

-----------------------------------------------------------------------------
\* A remote call is answered with an error, is lost, or was the last of its tool call.
RemoteEnds(c) ==
  /\ call[c].pc \in {"submit", "ask", "attach", "prompt", "use"}
  /\ Becomes(c, Idle)
  /\ UNCHANGED <<hermes, registry, process, calls, observers>>

GatewayRestarts ==
  /\ alive # {}
  /\ alive' = {}
  /\ UNCHANGED <<home, runs, opened, registry, process, call, calls, observers>>

\* The bridge process is killed and restarted: only the registry survives.
Crash ==
  /\ calls < MaxCalls
  /\ calls' = calls + 1
  /\ runtimes' = [p \in Profiles |-> [l \in Lanes |-> None]]
  /\ stored' = [x \in Runtimes |-> None]
  /\ call' = [c \in Callers |-> Idle]
  /\ UNCHANGED <<hermes, registry, observers>>

\* Runtime ids a caller may have.
Minted == {x \in Runtimes : opened[x] # Unopened}

Durable(c) ==
  \/ StartSave(c)
  \/ StartSubmit(c)
  \/ StartRecord(c)
  \/ Bind(c)
  \/ RunAnswers(c)

Live(c) ==
  \/ Attach(c)
  \/ Remember(c)
  \/ PromptReserve(c)
  \/ PromptSubmit(c)
  \/ PromptAck(c)

CallFor(c, asked) ==
  \/ \E r \in Requests : StartBegins(c, asked, r)
  \/ \E run \in Runs, op \in {"status", "run"} : RunCallBegins(c, asked, run, op)
  \/ \E l \in Lanes, s \in OrNone(Named) : OpenBegins(c, asked, l, s)
  \/ \E v \in Prompts, x \in OrNone(Minted) : PromptBegins(c, asked, v, x)
  \/ \E v \in Prompts : WaitBegins(c, asked, v)
  \/ \E x \in Minted : RuntimeCallBegins(c, asked, x)
  \/ \E l \in Lanes, x \in OrNone(Minted) : LaneCallBegins(c, asked, l, x)
  \/ \E l \in Lanes : LaneCallReopens(c, asked, l)

\* A tool call comes in, with a profile or without one.
CallBegins(c) ==
  /\ At(c, "idle")
  /\ calls < MaxCalls
  /\ calls' = calls + 1
  /\ \/ \E asked \in OrNone(Profiles) : CallFor(c, asked)
     \/ \E v \in Prompts : ReconcileBegins(c, v)

Next ==
  \/ \E c \in Callers : CallBegins(c)
  \/ \E c \in Callers : Durable(c)
  \/ \E c \in Callers : Live(c)
  \/ \E c \in Callers : RemoteEnds(c)
  \/ GatewayRestarts
  \/ Crash

Spec == Init /\ [][Next]_vars

-----------------------------------------------------------------------------
(* Properties.                                                             *)

(***************************************************************************)
(* Stage 2.2B brief: "a request replay may never cross profile             *)
(* boundaries".  Whatever profiles the callers of one request_id supply or *)
(* leave out, and whatever was lost in between, it is only ever submitted  *)
(* under the profile of its row.  Durable rows that a concurrent first     *)
(* admission has replaced are set aside (DurableRun's identity_race).      *)
(***************************************************************************)
RequestStaysInProfile ==
  /\ \A r \in Requests \ replaced : submitted[r] \subseteq {row[r].profile}
  /\ \A v \in Prompts : submitted[v] \subseteq {liveRow[v].profile}

(***************************************************************************)
(* "status/events/stop/steer remain on the originating profile": a call    *)
(* about a recorded run asks the API the run was made in.                  *)
(***************************************************************************)
RunStaysInProfile ==
  \A c \in Callers : At(c, "ask") /\ call[c].req \notin replaced \cup {None}
                       => call[c].run[1] = call[c].profile

(***************************************************************************)
(* A lane is bound only to a session that its own profile has, or to the   *)
(* id of a run of its own whose session the API left out: whatever call    *)
(* binds it, however stale the record or the decision it binds from.  (The *)
(* status of a run whose row was replaced may bind a session of the other  *)
(* profile.)                                                               *)
(***************************************************************************)
LaneBoundInProfile ==
  replaced = {} =>
    \A p \in Profiles, l \in Lanes : binding[p][l] \in OrNone(home[p] \cup {p} \X Requests)

(***************************************************************************)
(* "A reconnect may rotate runtime IDs but must not rotate profile         *)
(* identity": a live call goes out under the profile its runtime was       *)
(* opened in, through rotations, restarts of either process, shared lane   *)
(* names and calls that supply a runtime, a lane and a profile in any      *)
(* combination.  Set aside: a runtime that was ever used while nothing was *)
(* known of it, a session two profiles have under one id, and what a       *)
(* replaced row may have bound.                                            *)
(***************************************************************************)
Shared(s) == \E p, q \in Profiles : p # q /\ s \in home[p] \cap home[q]

LiveStaysInProfile ==
  replaced = {} =>
    \A c \in Callers :
      LET x == call[c].runtime IN
      call[c].pc \in {"reserve", "prompt", "use"} /\ x \notin guessed /\ ~Shared(opened[x].session)
        => call[c].profile = opened[x].profile
=============================================================================
