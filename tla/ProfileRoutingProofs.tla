-------------------------- MODULE ProfileRoutingProofs --------------------------
(***************************************************************************)
(* Theorems about ProfileRouting, for every number of profiles, lanes,     *)
(* requests, sessions, callers and restarts.                               *)
(*                                                                         *)
(* First the types: which fields of a call its program counter fills in.   *)
(* Then the invariant the four routing properties follow from: everything  *)
(* a call, a row, a binding or the process remembers was true of Hermes    *)
(* when it was learned, and what Hermes has once said it does not unsay.   *)
(***************************************************************************)
EXTENDS ProfileRouting, TLAPS

USE ProfileAssumption, RequestAssumption, NoneAssumption DEF OrNone

WellFilled(d) ==
  /\ d.pc # "idle" => d.profile \in Profiles
  /\ d.pc \in {"save", "submit", "record", "bind", "remember", "attach"} => d.lane \in Lanes
  /\ d.pc \in {"save", "submit", "record"} => d.req \in Requests
  /\ d.pc \in {"record", "ask"} => d.run \in Runs
  /\ d.pc = "ask" => d.req \in OrNone(Requests) /\ (d.req # None => d.lane \in Lanes)
  /\ d.pc \in {"reserve", "prompt", "ack"} => d.req \in Prompts
  /\ d.pc \in {"remember", "reserve", "prompt", "ack", "use"} => d.runtime \in Runtimes

WellCall == {d \in Call : WellFilled(d)}

Row == {d \in [profile : OrNone(Profiles), session : OrNone(Sessions), run : OrNone(Runs)] :
          d.run # None => Present(d)}

LiveRow == {d \in [profile : OrNone(Profiles), runtime : OrNone(Runtimes)] :
              Present(d) => d.runtime \in Runtimes}

\* The parts of the types by who changes them.
HermesTypes ==
  /\ home \in [Profiles -> SUBSET Sessions]
  /\ runs \in [Runs -> OrNone(Sessions)]
  /\ opened \in [Runtimes -> [profile : OrNone(Profiles), session : OrNone(Sessions)]]
  /\ alive \in SUBSET Runtimes

RegistryTypes ==
  /\ row \in [Requests -> Row]
  /\ liveRow \in [Prompts -> LiveRow]
  /\ binding \in [Profiles -> [Lanes -> OrNone(Sessions)]]

ProcessTypes ==
  /\ runtimes \in [Profiles -> [Lanes -> OrNone(Runtimes)]]
  /\ stored \in [Runtimes -> OrNone(Sessions)]

ObserverTypes ==
  /\ submitted \in [Requests \cup Prompts -> SUBSET Profiles]
  /\ replaced \in SUBSET Requests
  /\ guessed \in SUBSET Runtimes

\* A submit is made for a request that has its row.
RowsPlaced == \A c \in Callers : call[c].pc \in {"submit", "record"} => Present(row[call[c].req])

TypeInv ==
  /\ HermesTypes
  /\ RegistryTypes
  /\ ProcessTypes
  /\ ObserverTypes
  /\ call \in [Callers -> WellCall]
  /\ RowsPlaced
  /\ calls \in Nat

-----------------------------------------------------------------------------
(* The profiles a call may go out under are profiles.                      *)

LEMMA SoleKnown ==
  ASSUME NEW known
  PROVE  Sole(known) \subseteq known
BY DEF Sole

LEMMA Known ==
  ASSUME RegistryTypes, ProcessTypes
  PROVE  /\ \A l : LaneProfiles(l) \subseteq Profiles
         /\ \A l : RequestLaneProfiles(l) \subseteq Profiles
         /\ \A s : BindingProfiles(s) \subseteq Profiles
         /\ \A s : RequestSessionProfiles(s) \subseteq Profiles
         /\ \A x : LiveRequestProfiles(x) \subseteq Profiles
         /\ \A s : SessionProfiles(s) \subseteq Profiles
         /\ \A x : RuntimeProfiles(x) \subseteq Profiles
<1>1. \A l : LaneProfiles(l) \subseteq Profiles
  BY DEF LaneProfiles
<1>2. \A s : BindingProfiles(s) \subseteq Profiles
  BY DEF BindingProfiles
<1>3. \A r \in Requests : Present(row[r]) => row[r].profile \in Profiles
  BY DEF RegistryTypes, Row, Present
<1>4. \A l : RequestLaneProfiles(l) \subseteq Profiles
  BY <1>3 DEF RequestLaneProfiles
<1>5. \A s : RequestSessionProfiles(s) \subseteq Profiles
  BY <1>3 DEF RequestSessionProfiles
<1>6. \A v \in Prompts : Present(liveRow[v]) => liveRow[v].profile \in Profiles
  BY DEF RegistryTypes, LiveRow, Present
<1>7. \A x : LiveRequestProfiles(x) \subseteq Profiles
  BY <1>6 DEF LiveRequestProfiles
<1>8. \A s : SessionProfiles(s) \subseteq Profiles
  BY <1>2, <1>5 DEF SessionProfiles
<1>9. \A x : RuntimeProfiles(x) \subseteq Profiles
  BY <1>2, <1>7 DEF RuntimeProfiles
<1> QED
  BY <1>1, <1>2, <1>4, <1>5, <1>7, <1>8, <1>9

LEMMA DirectedKnown ==
  ASSUME NEW p \in OrNone(Profiles), NEW known \in SUBSET Profiles
  PROVE  /\ Inferred(known) \subseteq Profiles
         /\ Directed(p, known) \subseteq Profiles
         /\ known # {} => Directed(p, known) \subseteq known
<1>1. Inferred(known) \subseteq Profiles /\ (known # {} => Inferred(known) \subseteq known)
  BY SoleKnown DEF Inferred
<1> QED
  BY <1>1 DEF Directed

LEMMA RulesKnown ==
  ASSUME RegistryTypes, ProcessTypes, NEW p \in OrNone(Profiles)
  PROVE  /\ \A l : ForLane(p, l) \subseteq Profiles
         /\ \A l, s : ForOpen(p, l, s) \subseteq Profiles
         /\ \A r \in Requests : ForStart(p, r) \subseteq Profiles
         /\ \A v \in Prompts : ForPrompt(p, v) \subseteq Profiles
<1>1. \A l : ForLane(p, l) \subseteq Profiles
  BY Known, DirectedKnown DEF ForLane
<1>2. \A l, s : ForOpen(p, l, s) \subseteq Profiles
  BY <1>1, Known, SoleKnown DEF ForOpen
<1>3. ASSUME NEW r \in Requests PROVE ForStart(p, r) \subseteq Profiles
  <2>1. Present(row[r]) => row[r].profile \in Profiles
    BY DEF RegistryTypes, Row, Present
  <2>2. Sole(SessionProfiles(SessionOf[r])) \subseteq Profiles
    BY Known, SoleKnown
  <2>3. Inferred(LaneProfiles(LaneOf[r]) \cup RequestLaneProfiles(LaneOf[r])) \subseteq Profiles
    BY Known, DirectedKnown
  <2> QED
    BY <2>1, <2>2, <2>3 DEF ForStart
<1>4. ASSUME NEW v \in Prompts PROVE ForPrompt(p, v) \subseteq Profiles
  <2>1. Present(liveRow[v]) => liveRow[v].profile \in Profiles
    BY DEF RegistryTypes, LiveRow, Present
  <2> QED
    BY <1>1, <2>1, DirectedKnown DEF ForPrompt
<1> QED
  BY <1>1, <1>2, <1>3, <1>4

-----------------------------------------------------------------------------
(* Types are kept.                                                         *)

LEMMA IdleWell == Idle \in WellCall
BY DEF Idle, WellCall, WellFilled, Call, Pcs, Ops

LEMMA InitTypeInv == Init => TypeInv
<1> SUFFICES ASSUME Init PROVE TypeInv
  OBVIOUS
<1>1. HermesTypes
  BY DEF Init, HermesTypes, Sessions, Unopened
<1>2. RegistryTypes
  BY DEF Init, RegistryTypes, Row, LiveRow, AbsentRow, AbsentLiveRow, Present
<1>3. ProcessTypes /\ ObserverTypes
  BY DEF Init, ProcessTypes, ObserverTypes
<1>4. call \in [Callers -> WellCall] /\ calls \in Nat
  BY IdleWell DEF Init
<1>5. RowsPlaced
  BY DEF Init, RowsPlaced, Idle
<1> QED
  BY <1>1, <1>2, <1>3, <1>4, <1>5 DEF TypeInv

\* One call moves; rows are not forgotten.
CallMoves(c, d) ==
  /\ Becomes(c, d)
  /\ \A r \in Requests : Present(row[r]) => Present(row'[r])
  /\ d.pc \in {"submit", "record"} => Present(row'[d.req])

LEMMA CallTypes ==
  ASSUME TypeInv, NEW c \in Callers, NEW d \in WellCall, CallMoves(c, d)
  PROVE  call' \in [Callers -> WellCall] /\ RowsPlaced'
<1>1. call' = [call EXCEPT ![c] = d] /\ call \in [Callers -> WellCall]
  BY DEF CallMoves, Becomes, TypeInv
<1>2. ASSUME NEW b \in Callers, call[b].pc \in {"submit", "record"} PROVE call[b].req \in Requests
  BY <1>1, <1>2 DEF WellCall, WellFilled
<1>3. RowsPlaced'
  BY <1>1, <1>2 DEF CallMoves, TypeInv, RowsPlaced
<1> QED
  BY <1>1, <1>3

\* What is kept when only Hermes, the registry, the process is written.
LEMMA OthersKept ==
  ASSUME TypeInv, call' \in [Callers -> WellCall], RowsPlaced', calls' \in Nat
  PROVE  /\ UNCHANGED <<registry, process>> /\ HermesTypes' /\ ObserverTypes' => TypeInv'
         /\ UNCHANGED <<hermes, process>> /\ RegistryTypes' /\ ObserverTypes' => TypeInv'
         /\ UNCHANGED <<hermes, observers>> /\ RegistryTypes' /\ ProcessTypes' => TypeInv'
         /\ UNCHANGED observers => ObserverTypes'
BY DEF TypeInv, HermesTypes, RegistryTypes, ProcessTypes, ObserverTypes, hermes, registry, process,
       observers

LEMMA Given ==
  ASSUME NEW r \in Requests
  PROVE  LaneOf[r] \in Lanes /\ SessionOf[r] \in OrNone(Sessions)
BY DEF Sessions

LEMMA TargetTypes ==
  ASSUME RegistryTypes, NEW p \in Profiles, NEW l \in Lanes, NEW s \in OrNone(Sessions)
  PROVE  Target(p, l, s) \in OrNone(Sessions)
BY DEF Target, RegistryTypes

LEMMA BeginTypes ==
  ASSUME TypeInv, NEW c \in Callers, NEW d \in WellCall, Begins(c, d),
         d.pc \in {"submit", "record"} => Present(row[d.req]),
         calls' \in Nat, guessed' \in SUBSET Runtimes
  PROVE  TypeInv'
<1>1. row' = row /\ CallMoves(c, d)
  BY DEF Begins, registry, CallMoves
<1>2. call' \in [Callers -> WellCall] /\ RowsPlaced'
  BY <1>1, CallTypes
<1>3. ObserverTypes'
  BY DEF Begins, TypeInv, ObserverTypes
<1> QED
  BY <1>2, <1>3, OthersKept DEF Begins, TypeInv, HermesTypes, hermes

LEMMA GuessTypes ==
  ASSUME TypeInv, NEW x \in OrNone(Runtimes), Guesses(x)
  PROVE  guessed' \in SUBSET Runtimes
BY DEF Guesses, TypeInv, ObserverTypes

LEMMA RuntimeForTypes ==
  ASSUME TypeInv, NEW p \in Profiles, NEW l \in Lanes, NEW x \in OrNone(Runtimes)
  PROVE  RuntimeFor(p, l, x) \subseteq Runtimes
BY DEF RuntimeFor, TypeInv, ProcessTypes

LEMMA UsesTypes ==
  ASSUME NEW p \in Profiles, NEW x \in Runtimes
  PROVE  Uses(p, x) \in WellCall
BY DEF Uses, Idle, WellCall, WellFilled, Call, Pcs, Ops

LEMMA StartBeginsTypes ==
  ASSUME TypeInv, NEW c \in Callers, NEW asked \in OrNone(Profiles), NEW r \in Requests,
         StartBegins(c, asked, r), calls' \in Nat
  PROVE  TypeInv'
<1>1. PICK p \in ForStart(asked, r) :
        Begins(c, [Idle EXCEPT !.pc = IF Present(row[r]) THEN "submit" ELSE "save", !.op = "start",
                               !.profile = p, !.lane = LaneOf[r], !.req = r,
                               !.session = Target(p, LaneOf[r], SessionOf[r])])
  BY DEF StartBegins
<1>2. p \in Profiles
  BY RulesKnown DEF TypeInv
<1>3. ASSUME NEW pc \in {"submit", "save"}, NEW s \in OrNone(Sessions), NEW l \in Lanes
      PROVE  LET d == [Idle EXCEPT !.pc = pc, !.op = "start", !.profile = p, !.lane = l, !.req = r,
                                   !.session = s]
             IN  d \in WellCall /\ d.pc = pc /\ d.req = r
  BY <1>2, <1>3 DEF Idle, WellCall, WellFilled, Call, Pcs, Ops
<1>4. Target(p, LaneOf[r], SessionOf[r]) \in OrNone(Sessions)
  BY <1>2, Given, TargetTypes DEF TypeInv
<1>5. guessed' \in SUBSET Runtimes
  BY DEF StartBegins, TypeInv, ObserverTypes
<1> QED
  BY <1>1, <1>3, <1>4, <1>5, Given, BeginTypes

LEMMA RunCallBeginsTypes ==
  ASSUME TypeInv, NEW c \in Callers, NEW asked \in OrNone(Profiles), NEW run \in Runs,
         NEW op \in {"status", "run"}, RunCallBegins(c, asked, run, op), calls' \in Nat
  PROVE  TypeInv'
<1>1. PICK r \in IF Owners(run) = {} THEN {None} ELSE Owners(run) :
        \E p \in Directed(asked, IF r = None THEN {} ELSE {row[r].profile}) :
          Begins(c, [Idle EXCEPT !.pc = "ask", !.op = op, !.profile = p, !.run = run, !.req = r,
                                 !.lane = IF r = None THEN None ELSE LaneOf[r],
                                 !.session = IF r = None THEN None ELSE row[r].session])
  BY DEF RunCallBegins
<1>2. r \in OrNone(Requests) /\ (r # None => row[r].run = run)
  BY DEF Owners
<1> DEFINE known == IF r = None THEN {} ELSE {row[r].profile}
<1> PICK p \in Directed(asked, known) :
      Begins(c, [Idle EXCEPT !.pc = "ask", !.op = op, !.profile = p, !.run = run, !.req = r,
                             !.lane = IF r = None THEN None ELSE LaneOf[r],
                             !.session = IF r = None THEN None ELSE row[r].session])
  BY <1>1
<1>3. p \in Profiles
  <2>1. known \subseteq Profiles
    BY <1>2 DEF TypeInv, RegistryTypes, Row, Present
  <2> QED
    BY <2>1, DirectedKnown
<1>4. ASSUME NEW l \in OrNone(Lanes), NEW s \in OrNone(Sessions), r # None => l \in Lanes
      PROVE  LET d == [Idle EXCEPT !.pc = "ask", !.op = op, !.profile = p, !.run = run, !.req = r,
                                   !.lane = l, !.session = s]
             IN  d \in WellCall /\ d.pc = "ask"
  BY <1>2, <1>3, <1>4 DEF Idle, WellCall, WellFilled, Call, Pcs, Ops
<1>5. r # None => LaneOf[r] \in Lanes /\ row[r].session \in OrNone(Sessions)
  BY <1>2, Given DEF TypeInv, RegistryTypes, Row
<1>6. guessed' \in SUBSET Runtimes
  BY DEF RunCallBegins, TypeInv, ObserverTypes
<1>7. CASE r = None
  BY <1>4, <1>6, <1>7, BeginTypes
<1>8. CASE r # None
  BY <1>4, <1>5, <1>6, <1>8, BeginTypes
<1> QED
  BY <1>7, <1>8

LEMMA OpenBeginsTypes ==
  ASSUME TypeInv, NEW c \in Callers, NEW asked \in OrNone(Profiles), NEW l \in Lanes,
         NEW s \in OrNone(Named), OpenBegins(c, asked, l, s), calls' \in Nat
  PROVE  TypeInv'
<1>1. PICK p \in ForOpen(asked, l, s) :
        Begins(c, [Idle EXCEPT !.pc = "attach", !.op = "open", !.profile = p, !.lane = l,
                               !.session = Target(p, l, s)])
  BY DEF OpenBegins
<1>2. p \in Profiles
  BY RulesKnown DEF TypeInv
<1>3. Target(p, l, s) \in OrNone(Sessions)
  BY <1>2, TargetTypes DEF TypeInv, Sessions
<1>4. ASSUME NEW t \in OrNone(Sessions)
      PROVE  LET d == [Idle EXCEPT !.pc = "attach", !.op = "open", !.profile = p, !.lane = l,
                                   !.session = t]
             IN  d \in WellCall /\ d.pc = "attach"
  BY <1>2, <1>4 DEF Idle, WellCall, WellFilled, Call, Pcs, Ops
<1>5. guessed' \in SUBSET Runtimes
  BY DEF OpenBegins, TypeInv, ObserverTypes
<1> QED
  BY <1>1, <1>3, <1>4, <1>5, BeginTypes

LEMMA PromptBeginsTypes ==
  ASSUME TypeInv, NEW c \in Callers, NEW asked \in OrNone(Profiles), NEW v \in Prompts,
         NEW supplied \in OrNone(Runtimes), PromptBegins(c, asked, v, supplied), calls' \in Nat
  PROVE  TypeInv'
<1>1. PICK p \in ForPrompt(asked, v) :
        \E x \in RuntimeFor(p, LaneOf[v], supplied) :
          Begins(c, [Idle EXCEPT !.pc = "reserve", !.op = "prompt", !.profile = p,
                                 !.lane = LaneOf[v], !.req = v, !.runtime = x])
  BY DEF PromptBegins
<1>2. p \in Profiles /\ LaneOf[v] \in Lanes
  BY RulesKnown DEF TypeInv
<1>3. PICK x \in RuntimeFor(p, LaneOf[v], supplied) :
        Begins(c, [Idle EXCEPT !.pc = "reserve", !.op = "prompt", !.profile = p,
                               !.lane = LaneOf[v], !.req = v, !.runtime = x])
  BY <1>1
<1>4. x \in Runtimes
  BY <1>2, RuntimeForTypes
<1>5. ASSUME NEW l \in Lanes
      PROVE  LET d == [Idle EXCEPT !.pc = "reserve", !.op = "prompt", !.profile = p,
                                   !.lane = l, !.req = v, !.runtime = x]
             IN  d \in WellCall /\ d.pc = "reserve"
  BY <1>2, <1>4, <1>5 DEF Idle, WellCall, WellFilled, Call, Pcs, Ops
<1>6. guessed' \in SUBSET Runtimes
  BY GuessTypes DEF PromptBegins
<1> QED
  BY <1>2, <1>3, <1>5, <1>6, BeginTypes

LEMMA UsesBegin ==
  ASSUME TypeInv, NEW c \in Callers, NEW p \in Profiles, NEW x \in Runtimes,
         Begins(c, Uses(p, x)), calls' \in Nat, guessed' \in SUBSET Runtimes
  PROVE  TypeInv'
<1>1. Uses(p, x).pc = "use"
  BY DEF Uses, Idle
<1> QED
  BY <1>1, UsesTypes, BeginTypes

LEMMA WaitBeginsTypes ==
  ASSUME TypeInv, NEW c \in Callers, NEW asked \in OrNone(Profiles), NEW v \in Prompts,
         WaitBegins(c, asked, v), calls' \in Nat
  PROVE  TypeInv'
<1>1. PICK p \in Directed(asked, {liveRow[v].profile}) : Begins(c, Uses(p, liveRow[v].runtime))
  BY DEF WaitBegins
<1>2. liveRow[v].profile \in Profiles /\ liveRow[v].runtime \in Runtimes
  BY DEF WaitBegins, TypeInv, RegistryTypes, LiveRow, Present
<1>3. p \in Profiles /\ guessed' \in SUBSET Runtimes
  BY <1>2, DirectedKnown DEF WaitBegins, TypeInv, ObserverTypes
<1> QED
  BY <1>1, <1>2, <1>3, UsesBegin

LEMMA RuntimeCallBeginsTypes ==
  ASSUME TypeInv, NEW c \in Callers, NEW asked \in OrNone(Profiles), NEW x \in Runtimes,
         RuntimeCallBegins(c, asked, x), calls' \in Nat
  PROVE  TypeInv'
<1>1. PICK p \in Directed(asked, RuntimeProfiles(x)) : Begins(c, Uses(p, x))
  BY DEF RuntimeCallBegins
<1>2. p \in Profiles
  BY Known, DirectedKnown DEF TypeInv
<1>3. guessed' \in SUBSET Runtimes
  BY GuessTypes DEF RuntimeCallBegins
<1> QED
  BY <1>1, <1>2, <1>3, UsesBegin

LEMMA LaneCallBeginsTypes ==
  ASSUME TypeInv, NEW c \in Callers, NEW asked \in OrNone(Profiles), NEW l \in Lanes,
         NEW supplied \in OrNone(Runtimes), LaneCallBegins(c, asked, l, supplied), calls' \in Nat
  PROVE  TypeInv'
<1>1. PICK p \in ForLane(asked, l) : \E x \in RuntimeFor(p, l, supplied) : Begins(c, Uses(p, x))
  BY DEF LaneCallBegins
<1>2. PICK x \in RuntimeFor(p, l, supplied) : Begins(c, Uses(p, x))
  BY <1>1
<1>3. p \in Profiles
  BY RulesKnown DEF TypeInv
<1>4. x \in Runtimes
  BY <1>3, RuntimeForTypes
<1>5. guessed' \in SUBSET Runtimes
  BY GuessTypes DEF LaneCallBegins
<1> QED
  BY <1>2, <1>3, <1>4, <1>5, UsesBegin

\* live_reconcile and the reopening of a lane.
Reopens(p, l) ==
  [Idle EXCEPT !.pc = "attach", !.op = "reopen", !.profile = p, !.lane = l,
               !.session = binding[p][l]]

LEMMA ReopensTypes ==
  ASSUME TypeInv, NEW c \in Callers, NEW p \in Profiles, NEW l \in Lanes,
         Begins(c, Reopens(p, l)), calls' \in Nat, guessed' = guessed
  PROVE  TypeInv'
<1>1. ASSUME NEW t \in OrNone(Sessions)
      PROVE  LET d == [Idle EXCEPT !.pc = "attach", !.op = "reopen", !.profile = p, !.lane = l,
                                   !.session = t]
             IN  d \in WellCall /\ d.pc = "attach"
  BY <1>1 DEF Idle, WellCall, WellFilled, Call, Pcs, Ops
<1>2. Reopens(p, l) \in WellCall /\ Reopens(p, l).pc = "attach"
  <2>1. binding[p][l] \in OrNone(Sessions)
    BY DEF TypeInv, RegistryTypes
  <2> QED
    BY <1>1, <2>1 DEF Reopens
<1>3. guessed' \in SUBSET Runtimes
  BY DEF TypeInv, ObserverTypes
<1> QED
  BY <1>2, <1>3, BeginTypes

LEMMA ReconcileBeginsTypes ==
  ASSUME TypeInv, NEW c \in Callers, NEW v \in Prompts, ReconcileBegins(c, v), calls' \in Nat
  PROVE  TypeInv'
<1>1. liveRow[v].profile \in Profiles /\ LaneOf[v] \in Lanes
  BY DEF ReconcileBegins, TypeInv, RegistryTypes, LiveRow, Present
<1>2. Begins(c, Reopens(liveRow[v].profile, LaneOf[v])) /\ guessed' = guessed
  BY DEF ReconcileBegins, Reopens
<1> QED
  BY <1>1, <1>2, ReopensTypes

LEMMA LaneCallReopensTypes ==
  ASSUME TypeInv, NEW c \in Callers, NEW asked \in OrNone(Profiles), NEW l \in Lanes,
         LaneCallReopens(c, asked, l), calls' \in Nat
  PROVE  TypeInv'
<1>1. PICK p \in ForLane(asked, l) : Begins(c, Reopens(p, l)) /\ guessed' = guessed
  BY DEF LaneCallReopens, Reopens
<1>2. p \in Profiles
  BY RulesKnown DEF TypeInv
<1> QED
  BY <1>1, <1>2, ReopensTypes

\* A call goes on, or ends, and no more of its tables is written than `d' shows.
LEMMA FieldTypes ==
  ASSUME TypeInv, NEW c \in Callers
  PROVE  /\ call[c] \in WellCall
         /\ call[c].pc # "idle" => call[c].profile \in Profiles
BY DEF TypeInv, WellCall, WellFilled

LEMMA StartSaveTypes ==
  ASSUME TypeInv, NEW c \in Callers, StartSave(c)
  PROVE  TypeInv'
<1> DEFINE d == call[c]
           e == [d EXCEPT !.pc = "submit"]
           new == [profile |-> d.profile, session |-> d.session, run |-> None]
<1>1. d \in WellCall /\ d.pc = "save" /\ d.profile \in Profiles /\ d.req \in Requests
  BY FieldTypes DEF StartSave, At, WellCall, WellFilled
<1>2. e \in WellCall /\ e.pc = "submit" /\ e.req = d.req
  BY <1>1 DEF WellCall, WellFilled, Call, Pcs
<1>3. new \in Row /\ Present(new)
  BY <1>1 DEF Row, Present, WellCall, Call
<1>4. row' = [row EXCEPT ![d.req] = new] /\ call' = [call EXCEPT ![c] = e]
  BY DEF StartSave, Becomes
<1> HIDE DEF d, e, new
<1>5. row' \in [Requests -> Row]
  BY <1>1, <1>3, <1>4 DEF TypeInv, RegistryTypes
<1>6. CallMoves(c, e)
  BY <1>1, <1>2, <1>3, <1>4 DEF CallMoves, Becomes, TypeInv, RegistryTypes
<1>7. calls' \in Nat /\ call' \in [Callers -> WellCall] /\ RowsPlaced'
  BY <1>2, <1>6, CallTypes DEF StartSave, TypeInv
<1>8. RegistryTypes'
  BY <1>5 DEF StartSave, TypeInv, RegistryTypes
<1>9. ObserverTypes'
  BY <1>1 DEF StartSave, TypeInv, ObserverTypes, d
<1> QED
  BY <1>7, <1>8, <1>9, OthersKept DEF StartSave

LEMMA StartSubmitTypes ==
  ASSUME TypeInv, NEW c \in Callers, StartSubmit(c)
  PROVE  TypeInv'
<1> DEFINE d == call[c]
           run == <<d.profile, d.req>>
           made == IF runs[run] # None THEN runs[run]
                   ELSE IF d.session = None THEN run ELSE d.session
<1>1. d \in WellCall /\ d.pc = "submit" /\ d.profile \in Profiles /\ d.req \in Requests
  BY FieldTypes DEF StartSubmit, At, WellCall, WellFilled
<1>2. run \in Runs /\ run \in Sessions /\ d.session \in OrNone(Sessions)
  BY <1>1 DEF Runs, Sessions, WellCall, Call
<1>3. made \in Sessions /\ Assumed(d, run) \in Sessions
  BY <1>2 DEF TypeInv, HermesTypes, Assumed
<1>4. ASSUME NEW s \in Sessions, NEW n \in Runs
      PROVE  LET e == [d EXCEPT !.pc = "record", !.run = n, !.session = s]
             IN  e \in WellCall /\ e.pc = "record" /\ e.req = d.req
  BY <1>1, <1>4 DEF WellCall, WellFilled, Call, Pcs
<1>5. /\ runs' = [runs EXCEPT ![run] = made]
      /\ home' = [home EXCEPT ![d.profile] = @ \cup {made}]
      /\ submitted' = [submitted EXCEPT ![d.req] = @ \cup {d.profile}]
      /\ UNCHANGED <<opened, alive, registry, process, calls, replaced, guessed>>
  BY DEF StartSubmit
<1>6. \E e \in WellCall : /\ Becomes(c, e)
                          /\ e = Idle \/ (e.pc = "record" /\ e.req = d.req)
  <2>1. \/ \E s \in {made, Assumed(d, run)} :
             Becomes(c, [d EXCEPT !.pc = "record", !.run = run, !.session = s])
        \/ Becomes(c, Idle)
    BY DEF StartSubmit
  <2> HIDE DEF d, run, made
  <2> QED
    BY <1>2, <1>3, <1>4, <2>1, IdleWell
<1>7. PICK e \in WellCall : Becomes(c, e) /\ (e = Idle \/ (e.pc = "record" /\ e.req = d.req))
  BY <1>6
<1>8. Present(row[d.req])
  BY <1>1 DEF TypeInv, RowsPlaced
<1>9. row' = row /\ calls' = calls
  BY <1>5 DEF registry
<1>10. CallMoves(c, e)
  BY <1>7, <1>8, <1>9 DEF CallMoves, Idle
<1>11. call' \in [Callers -> WellCall] /\ RowsPlaced' /\ calls' \in Nat
  BY <1>9, <1>10, CallTypes DEF TypeInv
<1> HIDE DEF d, run, made
<1>12. HermesTypes'
  BY <1>1, <1>2, <1>3, <1>5 DEF TypeInv, HermesTypes
<1>13. ObserverTypes'
  BY <1>1, <1>5 DEF TypeInv, ObserverTypes
<1> QED
  BY <1>5, <1>11, <1>12, <1>13, OthersKept

LEMMA StartRecordTypes ==
  ASSUME TypeInv, NEW c \in Callers, StartRecord(c)
  PROVE  TypeInv'
<1> DEFINE d == call[c]
           e == [d EXCEPT !.pc = "bind"]
           new == [row[d.req] EXCEPT !.run = d.run, !.session = d.session]
<1>1. /\ d \in WellCall /\ d.pc = "record" /\ d.profile \in Profiles /\ d.req \in Requests
      /\ d.run \in Runs
  BY FieldTypes DEF StartRecord, At, WellCall, WellFilled
<1>2. e \in WellCall /\ e.pc = "bind"
  BY <1>1 DEF WellCall, WellFilled, Call, Pcs
<1>3. Present(row[d.req]) /\ row[d.req] \in Row
  BY <1>1 DEF TypeInv, RowsPlaced, RegistryTypes
<1>4. new \in Row /\ Present(new)
  BY <1>1, <1>3 DEF Row, Present, WellCall, Call
<1>5. row' = [row EXCEPT ![d.req] = new] /\ call' = [call EXCEPT ![c] = e]
  BY DEF StartRecord, Becomes
<1> HIDE DEF d, e, new
<1>6. row' \in [Requests -> Row]
  BY <1>1, <1>4, <1>5 DEF TypeInv, RegistryTypes
<1>7. CallMoves(c, e)
  BY <1>1, <1>2, <1>4, <1>5 DEF CallMoves, Becomes, TypeInv, RegistryTypes
<1>8. calls' \in Nat /\ call' \in [Callers -> WellCall] /\ RowsPlaced'
  BY <1>2, <1>7, CallTypes DEF StartRecord, TypeInv
<1>9. RegistryTypes'
  BY <1>6 DEF StartRecord, TypeInv, RegistryTypes
<1> QED
  BY <1>8, <1>9, OthersKept DEF StartRecord, TypeInv

LEMMA BindTypes ==
  ASSUME TypeInv, NEW c \in Callers, Bind(c)
  PROVE  TypeInv'
<1> DEFINE d == call[c]
           e == IF d.runtime = None THEN Idle ELSE [d EXCEPT !.pc = "remember"]
<1>1. /\ d \in WellCall /\ d.pc = "bind" /\ d.profile \in Profiles /\ d.lane \in Lanes
      /\ d.session \in OrNone(Sessions)
  BY FieldTypes DEF Bind, At, WellCall, WellFilled, Call
<1>2. e \in WellCall /\ e.pc \in {"idle", "remember"}
  <2>1. d.runtime # None => [d EXCEPT !.pc = "remember"] \in WellCall
    BY <1>1 DEF WellCall, WellFilled, Call, Pcs
  <2>2. Idle.pc = "idle" /\ [d EXCEPT !.pc = "remember"].pc = "remember"
    BY <1>1 DEF Idle, WellCall, Call
  <2> QED
    BY <2>1, <2>2, IdleWell
<1>3. row' = row /\ Becomes(c, e)
  BY DEF Bind
<1> HIDE DEF d, e
<1>4. CallMoves(c, e)
  BY <1>2, <1>3 DEF CallMoves
<1>5. calls' \in Nat /\ call' \in [Callers -> WellCall] /\ RowsPlaced'
  BY <1>2, <1>4, CallTypes DEF Bind, TypeInv
<1>6. RegistryTypes'
  BY <1>1 DEF Bind, TypeInv, RegistryTypes, d
<1> QED
  BY <1>5, <1>6, OthersKept DEF Bind, TypeInv

\* A call that only moves, or ends.
LEMMA MoveTypes ==
  ASSUME TypeInv, NEW c \in Callers, NEW d \in WellCall, Becomes(c, d),
         UNCHANGED <<row, calls>>, d.pc \notin {"submit", "record"}
  PROVE  calls' \in Nat /\ call' \in [Callers -> WellCall] /\ RowsPlaced'
<1>1. CallMoves(c, d)
  BY DEF CallMoves
<1> QED
  BY <1>1, CallTypes DEF TypeInv

LEMMA IdleMoves == Idle.pc = "idle"
BY DEF Idle

LEMMA RunAnswersTypes ==
  ASSUME TypeInv, NEW c \in Callers, RunAnswers(c)
  PROVE  TypeInv'
<1> DEFINE d == call[c]
<1>1. d \in WellCall /\ d.pc = "ask" /\ d.run \in Runs /\ d.req \in OrNone(Requests)
  BY FieldTypes DEF RunAnswers, At, WellCall, WellFilled
<1>2. CASE d.op = "status" /\ d.req # None
  <2>1. PICK s \in {runs[d.run], d.session} :
          row' = [row EXCEPT ![d.req].session = s] /\ Becomes(c, [d EXCEPT !.pc = "bind", !.session = s])
    BY <1>2 DEF RunAnswers
  <2>2. s \in OrNone(Sessions)
    BY <1>1 DEF TypeInv, HermesTypes, WellCall, Call
  <2> DEFINE e == [d EXCEPT !.pc = "bind", !.session = s]
             new == [row[d.req] EXCEPT !.session = s]
  <2>3. e \in WellCall /\ e.pc = "bind"
    BY <1>1, <1>2, <2>2 DEF WellCall, WellFilled, Call, Pcs
  <2>4. d.req \in Requests /\ row[d.req] \in Row
    BY <1>1, <1>2 DEF TypeInv, RegistryTypes
  <2>5. new \in Row /\ (Present(row[d.req]) => Present(new))
    BY <2>2, <2>4 DEF Row, Present
  <2>6. row' = [row EXCEPT ![d.req] = new] /\ Becomes(c, e)
    BY <2>1
  <2> HIDE DEF d, e, new
  <2>7. row' \in [Requests -> Row]
    BY <2>4, <2>5, <2>6 DEF TypeInv, RegistryTypes
  <2>8. CallMoves(c, e)
    BY <2>3, <2>4, <2>5, <2>6 DEF CallMoves, TypeInv, RegistryTypes
  <2>9. calls' \in Nat /\ call' \in [Callers -> WellCall] /\ RowsPlaced'
    BY <2>3, <2>8, CallTypes DEF RunAnswers, TypeInv
  <2>10. RegistryTypes'
    BY <2>7 DEF RunAnswers, TypeInv, RegistryTypes
  <2> QED
    BY <2>9, <2>10, OthersKept DEF RunAnswers, TypeInv
<1>3. CASE ~(d.op = "status" /\ d.req # None)
  <2>1. row' = row /\ Becomes(c, Idle) /\ UNCHANGED <<hermes, liveRow, binding, process, calls, observers>>
    BY <1>3 DEF RunAnswers
  <2>2. calls' \in Nat /\ call' \in [Callers -> WellCall] /\ RowsPlaced'
    BY <2>1, IdleWell, IdleMoves, MoveTypes
  <2>3. RegistryTypes'
    BY <2>1 DEF TypeInv, RegistryTypes
  <2> QED
    BY <2>1, <2>2, <2>3, OthersKept DEF TypeInv
<1> QED
  BY <1>2, <1>3

LEMMA AttachTypes ==
  ASSUME TypeInv, NEW c \in Callers, Attach(c)
  PROVE  TypeInv'
<1> DEFINE d == call[c]
<1>1. d \in WellCall /\ d.pc = "attach" /\ d.profile \in Profiles /\ d.session \in OrNone(Sessions)
  BY FieldTypes DEF Attach, At, WellCall, WellFilled, Call
<1> DEFINE named(x) == IF d.session = None THEN x ELSE d.session
<1>2. PICK x \in Runtimes :
        /\ opened' = [opened EXCEPT ![x] = [profile |-> d.profile, session |-> named(x)]]
        /\ alive' = alive \cup {x}
        /\ home' = [home EXCEPT ![d.profile] = @ \cup {named(x)}]
        /\ Becomes(c, [d EXCEPT !.pc = "bind", !.session = named(x), !.runtime = x])
  BY DEF Attach
<1>3. named(x) \in Sessions
  BY <1>1 DEF Sessions
<1>4. PICK s \in Sessions : s = named(x)
  BY <1>3
<1> DEFINE e == [d EXCEPT !.pc = "bind", !.session = s, !.runtime = x]
<1>5. e \in WellCall /\ e.pc = "bind"
  BY <1>1 DEF WellCall, WellFilled, Call, Pcs
<1>6. /\ opened' = [opened EXCEPT ![x] = [profile |-> d.profile, session |-> s]]
      /\ alive' = alive \cup {x}
      /\ home' = [home EXCEPT ![d.profile] = @ \cup {s}]
      /\ Becomes(c, e)
      /\ UNCHANGED <<runs, registry, process, calls, observers>>
  BY <1>2, <1>4 DEF Attach
<1> HIDE DEF d, named, e
<1>7. calls' \in Nat /\ call' \in [Callers -> WellCall] /\ RowsPlaced'
  BY <1>5, <1>6, MoveTypes DEF registry
<1>8. HermesTypes'
  BY <1>1, <1>6 DEF TypeInv, HermesTypes
<1> QED
  BY <1>6, <1>7, <1>8, OthersKept DEF TypeInv

LEMMA RotatedTypes ==
  ASSUME TypeInv, NEW p, NEW l, NEW x \in Runtimes
  PROVE  Rotated(p, l, x) \in [Prompts -> LiveRow]
<1>1. ASSUME NEW v \in Prompts PROVE [liveRow[v] EXCEPT !.runtime = x] \in LiveRow
  BY DEF TypeInv, RegistryTypes, LiveRow, Present
<1> QED
  BY <1>1 DEF Rotated, TypeInv, RegistryTypes

LEMMA RememberTypes ==
  ASSUME TypeInv, NEW c \in Callers, Remember(c)
  PROVE  TypeInv'
<1> DEFINE d == call[c]
           e == IF d.op = "reopen" THEN [d EXCEPT !.pc = "use"] ELSE Idle
<1>1. /\ d \in WellCall /\ d.pc = "remember" /\ d.profile \in Profiles /\ d.lane \in Lanes
      /\ d.runtime \in Runtimes /\ d.session \in OrNone(Sessions)
  BY FieldTypes DEF Remember, At, WellCall, WellFilled, Call
<1>2. e \in WellCall /\ e.pc \in {"use", "idle"}
  <2>1. [d EXCEPT !.pc = "use"] \in WellCall /\ [d EXCEPT !.pc = "use"].pc = "use"
    BY <1>1 DEF WellCall, WellFilled, Call, Pcs
  <2> QED
    BY <2>1, IdleWell, IdleMoves
<1>3. /\ runtimes' = [runtimes EXCEPT ![d.profile][d.lane] = d.runtime]
      /\ stored' = [stored EXCEPT ![d.runtime] = d.session]
      /\ liveRow' = Rotated(d.profile, d.lane, d.runtime)
      /\ Becomes(c, e)
      /\ UNCHANGED <<hermes, row, binding, calls, observers>>
  BY DEF Remember
<1> HIDE DEF d, e
<1>4. calls' \in Nat /\ call' \in [Callers -> WellCall] /\ RowsPlaced'
  BY <1>2, <1>3, MoveTypes
<1>5. RegistryTypes'
  BY <1>1, <1>3, RotatedTypes DEF TypeInv, RegistryTypes
<1>6. ProcessTypes'
  BY <1>1, <1>3 DEF TypeInv, ProcessTypes
<1> QED
  BY <1>3, <1>4, <1>5, <1>6, OthersKept

LEMMA PromptReserveTypes ==
  ASSUME TypeInv, NEW c \in Callers, PromptReserve(c)
  PROVE  TypeInv'
<1> DEFINE d == call[c]
           e == [d EXCEPT !.pc = "prompt"]
           new == [profile |-> d.profile, runtime |-> d.runtime]
<1>1. /\ d \in WellCall /\ d.pc = "reserve" /\ d.profile \in Profiles /\ d.req \in Prompts
      /\ d.runtime \in Runtimes
  BY FieldTypes DEF PromptReserve, At, WellCall, WellFilled
<1>2. e \in WellCall /\ e.pc = "prompt"
  BY <1>1 DEF WellCall, WellFilled, Call, Pcs
<1>3. new \in LiveRow
  BY <1>1 DEF LiveRow
<1>4. /\ \/ liveRow' = liveRow /\ Becomes(c, Idle)
         \/ liveRow' = [liveRow EXCEPT ![d.req] = new] /\ Becomes(c, e)
      /\ UNCHANGED <<hermes, row, binding, process, calls, observers>>
  BY DEF PromptReserve
<1> HIDE DEF d, e, new
<1>5. calls' \in Nat /\ call' \in [Callers -> WellCall] /\ RowsPlaced'
  BY <1>2, <1>4, IdleWell, IdleMoves, MoveTypes
<1>6. RegistryTypes'
  BY <1>1, <1>3, <1>4 DEF TypeInv, RegistryTypes
<1> QED
  BY <1>4, <1>5, <1>6, OthersKept DEF TypeInv

LEMMA PromptSubmitTypes ==
  ASSUME TypeInv, NEW c \in Callers, PromptSubmit(c)
  PROVE  TypeInv'
<1> DEFINE d == call[c]
           e == [d EXCEPT !.pc = "ack"]
<1>1. d \in WellCall /\ d.pc = "prompt" /\ d.profile \in Profiles /\ d.req \in Prompts
  BY FieldTypes DEF PromptSubmit, At, WellCall, WellFilled
<1>2. e \in WellCall /\ e.pc = "ack"
  BY <1>1 DEF WellCall, WellFilled, Call, Pcs
<1>3. /\ submitted' = [submitted EXCEPT ![d.req] = @ \cup {d.profile}]
      /\ Becomes(c, Idle) \/ Becomes(c, e)
      /\ UNCHANGED <<hermes, registry, process, calls, replaced, guessed>>
  BY DEF PromptSubmit
<1> HIDE DEF d, e
<1>4. calls' \in Nat /\ call' \in [Callers -> WellCall] /\ RowsPlaced'
  BY <1>2, <1>3, IdleWell, IdleMoves, MoveTypes DEF registry
<1>5. ObserverTypes'
  BY <1>1, <1>3 DEF TypeInv, ObserverTypes
<1> QED
  BY <1>3, <1>4, <1>5, OthersKept DEF TypeInv, HermesTypes, hermes

LEMMA PromptAckTypes ==
  ASSUME TypeInv, NEW c \in Callers, PromptAck(c)
  PROVE  TypeInv'
<1> DEFINE d == call[c]
           new == [liveRow[d.req] EXCEPT !.runtime = d.runtime]
<1>1. d \in WellCall /\ d.pc = "ack" /\ d.req \in Prompts /\ d.runtime \in Runtimes
  BY FieldTypes DEF PromptAck, At, WellCall, WellFilled
<1>2. new \in LiveRow
  BY <1>1 DEF TypeInv, RegistryTypes, LiveRow, Present
<1>3. /\ liveRow' = [liveRow EXCEPT ![d.req] = new] /\ Becomes(c, Idle)
      /\ UNCHANGED <<hermes, row, binding, process, calls, observers>>
  BY DEF PromptAck
<1> HIDE DEF d, new
<1>4. calls' \in Nat /\ call' \in [Callers -> WellCall] /\ RowsPlaced'
  BY <1>3, IdleWell, IdleMoves, MoveTypes
<1>5. RegistryTypes'
  BY <1>1, <1>2, <1>3 DEF TypeInv, RegistryTypes
<1> QED
  BY <1>3, <1>4, <1>5, OthersKept DEF TypeInv

LEMMA RemoteEndsTypes ==
  ASSUME TypeInv, NEW c \in Callers, RemoteEnds(c)
  PROVE  TypeInv'
<1>1. Becomes(c, Idle) /\ UNCHANGED <<hermes, registry, process, calls, observers>>
  BY DEF RemoteEnds
<1>2. calls' \in Nat /\ call' \in [Callers -> WellCall] /\ RowsPlaced'
  BY <1>1, IdleWell, IdleMoves, MoveTypes DEF registry
<1> QED
  BY <1>1, <1>2, OthersKept DEF TypeInv, HermesTypes, hermes

LEMMA GatewayRestartsTypes ==
  ASSUME TypeInv, GatewayRestarts
  PROVE  TypeInv'
<1>1. UNCHANGED <<call, calls, row>>
  BY DEF GatewayRestarts, registry
<1>2. calls' \in Nat /\ call' \in [Callers -> WellCall] /\ RowsPlaced'
  BY <1>1 DEF TypeInv, RowsPlaced
<1>3. HermesTypes'
  BY DEF GatewayRestarts, TypeInv, HermesTypes
<1> QED
  BY <1>2, <1>3, OthersKept DEF GatewayRestarts, TypeInv

LEMMA CrashTypes ==
  ASSUME TypeInv, Crash
  PROVE  TypeInv'
<1>1. calls' \in Nat /\ call' = [c \in Callers |-> Idle]
  BY DEF Crash, TypeInv
<1>2. call' \in [Callers -> WellCall] /\ RowsPlaced'
  BY <1>1, IdleWell, IdleMoves DEF RowsPlaced
<1>3. ProcessTypes'
  BY DEF Crash, ProcessTypes
<1>4. RegistryTypes'
  BY DEF Crash, TypeInv, RegistryTypes, registry
<1> QED
  BY <1>1, <1>2, <1>3, <1>4, OthersKept DEF Crash

\* A tool call begins.
LEMMA CallBeginsTypes ==
  ASSUME TypeInv, NEW c \in Callers, CallBegins(c)
  PROVE  TypeInv'
<1>1. calls' \in Nat
  BY DEF CallBegins, TypeInv
<1>2. CASE \E v \in Prompts : ReconcileBegins(c, v)
  BY <1>1, <1>2, ReconcileBeginsTypes
<1>3. CASE \E asked \in OrNone(Profiles) : CallFor(c, asked)
  <2>1. PICK asked \in OrNone(Profiles) : CallFor(c, asked)
    BY <1>3
  <2>2. Minted \subseteq Runtimes
    BY DEF Minted
  <2>3. CASE \E r \in Requests : StartBegins(c, asked, r)
    BY <1>1, <2>3, StartBeginsTypes
  <2>4. CASE \E run \in Runs, op \in {"status", "run"} : RunCallBegins(c, asked, run, op)
    BY <1>1, <2>4, RunCallBeginsTypes
  <2>5. CASE \E l \in Lanes, s \in OrNone(Named) : OpenBegins(c, asked, l, s)
    BY <1>1, <2>5, OpenBeginsTypes
  <2>6. CASE \E v \in Prompts, x \in OrNone(Minted) : PromptBegins(c, asked, v, x)
    BY <1>1, <2>2, <2>6, PromptBeginsTypes
  <2>7. CASE \E v \in Prompts : WaitBegins(c, asked, v)
    BY <1>1, <2>7, WaitBeginsTypes
  <2>8. CASE \E x \in Minted : RuntimeCallBegins(c, asked, x)
    BY <1>1, <2>2, <2>8, RuntimeCallBeginsTypes
  <2>9. CASE \E l \in Lanes, x \in OrNone(Minted) : LaneCallBegins(c, asked, l, x)
    BY <1>1, <2>2, <2>9, LaneCallBeginsTypes
  <2>10. CASE \E l \in Lanes : LaneCallReopens(c, asked, l)
    BY <1>1, <2>10, LaneCallReopensTypes
  <2> QED
    BY <2>1, <2>3, <2>4, <2>5, <2>6, <2>7, <2>8, <2>9, <2>10 DEF CallFor
<1> QED
  BY <1>2, <1>3 DEF CallBegins

LEMMA NextTypeInv ==
  ASSUME TypeInv, [Next]_vars
  PROVE  TypeInv'
<1>1. CASE \E c \in Callers : CallBegins(c)
  BY <1>1, CallBeginsTypes
<1>2. CASE \E c \in Callers : Durable(c)
  BY <1>2, StartSaveTypes, StartSubmitTypes, StartRecordTypes, BindTypes, RunAnswersTypes
     DEF Durable
<1>3. CASE \E c \in Callers : Live(c)
  BY <1>3, AttachTypes, RememberTypes, PromptReserveTypes, PromptSubmitTypes, PromptAckTypes
     DEF Live
<1>4. CASE \E c \in Callers : RemoteEnds(c)
  BY <1>4, RemoteEndsTypes
<1>5. CASE GatewayRestarts
  BY <1>5, GatewayRestartsTypes
<1>6. CASE Crash
  BY <1>6, CrashTypes
<1>7. CASE UNCHANGED vars
  BY <1>7 DEF vars, hermes, registry, process, observers, TypeInv, HermesTypes, RegistryTypes,
              ProcessTypes, ObserverTypes, RowsPlaced
<1> QED
  BY <1>1, <1>2, <1>3, <1>4, <1>5, <1>6, <1>7 DEF Next

-----------------------------------------------------------------------------
(* The profile of a request.  A row that nothing has replaced keeps the    *)
(* profile it was admitted under, so what a call decided when it began     *)
(* still holds at each of its later steps.                                 *)

RowsKeep ==
  /\ replaced \subseteq replaced'
  /\ \A r \in Requests \ replaced' : Present(row[r]) => row'[r].profile = row[r].profile
  /\ \A v \in Prompts : Present(liveRow[v]) => liveRow'[v].profile = liveRow[v].profile

OwnCall(d) ==
  /\ d.pc \in {"submit", "record"} /\ d.req \notin replaced
       => Present(row[d.req]) /\ row[d.req].profile = d.profile
  /\ d.pc = "record" => d.run = <<d.profile, d.req>>
  /\ d.pc = "ask" /\ d.req \notin replaced \cup {None}
       => /\ Present(row[d.req]) /\ row[d.req].profile = d.profile
          /\ d.run[1] = d.profile
  /\ d.pc \in {"prompt", "ack"} => liveRow[d.req].profile = d.profile

RunsOwned ==
  \A r \in Requests \ replaced : row[r].run # None => row[r].run[1] = row[r].profile

SubmitsOwned ==
  /\ \A r \in Requests : submitted[r] # {} => Present(row[r])
  /\ \A r \in Requests \ replaced : submitted[r] \subseteq {row[r].profile}
  /\ \A v \in Prompts : submitted[v] \subseteq {liveRow[v].profile}

RequestInv ==
  /\ \A c \in Callers : OwnCall(call[c])
  /\ RunsOwned
  /\ SubmitsOwned

LEMMA RequestInvImplies == TypeInv /\ RequestInv => RequestStaysInProfile /\ RunStaysInProfile
BY DEF RequestInv, SubmitsOwned, OwnCall, RequestStaysInProfile, RunStaysInProfile, At

LEMMA InitRequestInv == Init => RequestInv
BY DEF Init, RequestInv, OwnCall, RunsOwned, SubmitsOwned, Idle, AbsentRow, AbsentLiveRow, Present

\* A call that waits still fits what it was decided from.
LEMMA OwnCallStays ==
  ASSUME NEW d \in WellCall, OwnCall(d), RowsKeep, replaced \subseteq Requests
  PROVE  OwnCall(d)'
<1>1. d.pc \in {"prompt", "ack"} => Present(liveRow[d.req]) /\ d.req \in Prompts
  BY DEF OwnCall, WellCall, WellFilled, Present
<1>2. d.pc \in {"submit", "record"} => d.req \in Requests
  BY DEF WellCall, WellFilled
<1>3. d.pc = "ask" => d.req \in OrNone(Requests)
  BY DEF WellCall, WellFilled
<1> QED
  BY <1>1, <1>2, <1>3 DEF OwnCall, RowsKeep, Present

\* Steps of one call.
LEMMA OwnCallMoves ==
  ASSUME TypeInv, RequestInv, RowsKeep, NEW c \in Callers, NEW d, Becomes(c, d), OwnCall(d)'
  PROVE  \A b \in Callers : OwnCall(call[b])'
<1> SUFFICES ASSUME NEW b \in Callers PROVE OwnCall(call[b])'
  OBVIOUS
<1>1. call' = [call EXCEPT ![c] = d] /\ call[b] \in WellCall /\ replaced \subseteq Requests
  BY DEF Becomes, TypeInv, ObserverTypes
<1>2. CASE b = c
  <2>1. call'[b] = d
    BY <1>1, <1>2 DEF TypeInv
  <2> QED
    BY <2>1 DEF OwnCall
<1>3. CASE b # c
  <2>1. call'[b] = call[b]
    BY <1>1, <1>3
  <2>2. OwnCall(call[b])
    BY DEF RequestInv
  <2> DEFINE e == call[b]
  <2>3. e \in WellCall /\ OwnCall(e)
    BY <1>1, <2>2
  <2> QED
    BY <1>1, <2>1, <2>3, OwnCallStays DEF OwnCall
<1> QED
  BY <1>2, <1>3

LEMMA BeginOwn ==
  ASSUME TypeInv, RequestInv, NEW c \in Callers, NEW d, Begins(c, d), OwnCall(d)
  PROVE  RequestInv'
<1>1. UNCHANGED <<row, liveRow, submitted, replaced>>
  BY DEF Begins, registry
<1>2. RowsKeep /\ OwnCall(d)'
  BY <1>1 DEF RowsKeep, OwnCall, Present
<1>3. RunsOwned' /\ SubmitsOwned'
  BY <1>1 DEF RequestInv, RunsOwned, SubmitsOwned, Present
<1> QED
  BY <1>2, <1>3, OwnCallMoves DEF Begins, RequestInv

\* A call that stands at none of the places OwnCall speaks of.
LEMMA OwnCallFree ==
  ASSUME NEW d, d.pc \notin {"submit", "record", "ask", "prompt", "ack"}
  PROVE  OwnCall(d) /\ OwnCall(d)'
BY DEF OwnCall

LEMMA FreeBeginOwn ==
  ASSUME TypeInv, RequestInv, NEW c \in Callers, NEW d, Begins(c, d),
         d.pc \notin {"submit", "record", "ask", "prompt", "ack"}
  PROVE  RequestInv'
BY BeginOwn, OwnCallFree

LEMMA StartBeginsOwn ==
  ASSUME TypeInv, RequestInv, NEW c \in Callers, NEW asked \in OrNone(Profiles),
         NEW r \in Requests, StartBegins(c, asked, r)
  PROVE  RequestInv'
<1>1. PICK p \in ForStart(asked, r) :
        /\ SameProfile(r, p)
        /\ Begins(c, [Idle EXCEPT !.pc = IF Present(row[r]) THEN "submit" ELSE "save",
                                  !.op = "start", !.profile = p, !.lane = LaneOf[r], !.req = r,
                                  !.session = Target(p, LaneOf[r], SessionOf[r])])
  BY DEF StartBegins
<1> DEFINE d == [Idle EXCEPT !.pc = IF Present(row[r]) THEN "submit" ELSE "save",
                             !.op = "start", !.profile = p, !.lane = LaneOf[r], !.req = r,
                             !.session = Target(p, LaneOf[r], SessionOf[r])]
<1>2. d.pc = (IF Present(row[r]) THEN "submit" ELSE "save") /\ d.req = r /\ d.profile = p
  BY DEF Idle
<1>3. OwnCall(d)
  BY <1>1, <1>2 DEF OwnCall, SameProfile
<1> QED
  BY <1>1, <1>3, BeginOwn

LEMMA RunCallBeginsOwn ==
  ASSUME TypeInv, RequestInv, NEW c \in Callers, NEW asked \in OrNone(Profiles), NEW run \in Runs,
         NEW op \in {"status", "run"}, RunCallBegins(c, asked, run, op)
  PROVE  RequestInv'
<1>1. PICK r \in IF Owners(run) = {} THEN {None} ELSE Owners(run) :
        \E p \in Directed(asked, IF r = None THEN {} ELSE {row[r].profile}) :
          Begins(c, [Idle EXCEPT !.pc = "ask", !.op = op, !.profile = p, !.run = run, !.req = r,
                                 !.lane = IF r = None THEN None ELSE LaneOf[r],
                                 !.session = IF r = None THEN None ELSE row[r].session])
  BY DEF RunCallBegins
<1>2. r \in OrNone(Requests) /\ (r # None => row[r].run = run)
  BY DEF Owners
<1> DEFINE d(p) == [Idle EXCEPT !.pc = "ask", !.op = op, !.profile = p, !.run = run, !.req = r,
                                !.lane = IF r = None THEN None ELSE LaneOf[r],
                                !.session = IF r = None THEN None ELSE row[r].session]
<1>3. PICK p \in Directed(asked, IF r = None THEN {} ELSE {row[r].profile}) : Begins(c, d(p))
  BY <1>1
<1>4. d(p).pc = "ask" /\ d(p).req = r /\ d(p).profile = p /\ d(p).run = run
  BY DEF Idle
<1>5. ASSUME r \notin replaced \cup {None}
      PROVE  Present(row[r]) /\ row[r].profile = p /\ run[1] = p
  <2>1. run # None /\ row[r] \in Row
    BY <1>2, <1>5 DEF TypeInv, RegistryTypes, Runs
  <2>2. Present(row[r]) /\ row[r].profile \in Profiles /\ run[1] = row[r].profile
    BY <1>2, <1>5, <2>1 DEF Row, RequestInv, RunsOwned, Present
  <2>3. p \in Directed(asked, {row[r].profile})
    BY <1>3, <1>5
  <2> QED
    BY <2>2, <2>3, DirectedKnown
<1>6. OwnCall(d(p))
  BY <1>4, <1>5 DEF OwnCall
<1> QED
  BY <1>3, <1>6, BeginOwn

LEMMA CallBeginsOwn ==
  ASSUME TypeInv, RequestInv, NEW c \in Callers, CallBegins(c)
  PROVE  RequestInv'
<1>1. ASSUME NEW p, NEW x, Begins(c, Uses(p, x)) PROVE RequestInv'
  BY <1>1, FreeBeginOwn DEF Uses, Idle
<1>2. ASSUME NEW p, NEW l, Begins(c, Reopens(p, l)) PROVE RequestInv'
  BY <1>2, FreeBeginOwn DEF Reopens, Idle
<1>3. CASE \E v \in Prompts : ReconcileBegins(c, v)
  BY <1>2, <1>3 DEF ReconcileBegins, Reopens
<1>4. CASE \E asked \in OrNone(Profiles) : CallFor(c, asked)
  <2>1. PICK asked \in OrNone(Profiles) : CallFor(c, asked)
    BY <1>4
  <2>2. CASE \E r \in Requests : StartBegins(c, asked, r)
    BY <2>2, StartBeginsOwn
  <2>3. CASE \E run \in Runs, op \in {"status", "run"} : RunCallBegins(c, asked, run, op)
    BY <2>3, RunCallBeginsOwn
  <2>4. CASE \E l \in Lanes, s \in OrNone(Named) : OpenBegins(c, asked, l, s)
    BY <2>4, FreeBeginOwn DEF OpenBegins, Idle
  <2>5. CASE \E v \in Prompts, x \in OrNone(Minted) : PromptBegins(c, asked, v, x)
    BY <2>5, FreeBeginOwn DEF PromptBegins, Idle
  <2>6. CASE \E v \in Prompts : WaitBegins(c, asked, v)
    BY <1>1, <2>6 DEF WaitBegins
  <2>7. CASE \E x \in Minted : RuntimeCallBegins(c, asked, x)
    BY <1>1, <2>7 DEF RuntimeCallBegins
  <2>8. CASE \E l \in Lanes, x \in OrNone(Minted) : LaneCallBegins(c, asked, l, x)
    BY <1>1, <2>8 DEF LaneCallBegins
  <2>9. CASE \E l \in Lanes : LaneCallReopens(c, asked, l)
    BY <1>2, <2>9 DEF LaneCallReopens, Reopens
  <2> QED
    BY <2>1, <2>2, <2>3, <2>4, <2>5, <2>6, <2>7, <2>8, <2>9 DEF CallFor
<1> QED
  BY <1>3, <1>4 DEF CallBegins

LEMMA StartSaveOwn ==
  ASSUME TypeInv, RequestInv, NEW c \in Callers, StartSave(c)
  PROVE  RequestInv' /\ RowsKeep
<1> DEFINE d == call[c]
           new == [profile |-> d.profile, session |-> d.session, run |-> None]
<1>1. d \in WellCall /\ d.pc = "save" /\ d.profile \in Profiles /\ d.req \in Requests
  BY FieldTypes DEF StartSave, At, WellCall, WellFilled
<1> PICK e : e = [d EXCEPT !.pc = "submit"]
  OBVIOUS
<1>2. e.pc = "submit" /\ e.req = d.req /\ e.profile = d.profile
  BY <1>1 DEF WellCall, Call
<1>3. new.profile = d.profile /\ new.run = None /\ Present(new)
  BY <1>1 DEF Present
<1>4. /\ row' = [row EXCEPT ![d.req] = new] /\ Becomes(c, e)
      /\ replaced' = IF Present(row[d.req]) THEN replaced \cup {d.req} ELSE replaced
      /\ UNCHANGED <<liveRow, submitted>>
  BY <1>2 DEF StartSave
<1> HIDE DEF d, new
<1>5. row'[d.req] = new /\ \A r \in Requests \ {d.req} : row'[r] = row[r]
  BY <1>1, <1>4 DEF TypeInv, RegistryTypes
<1>6. RowsKeep
  BY <1>4, <1>5 DEF RowsKeep
<1>7. OwnCall(e)'
  BY <1>1, <1>2, <1>3, <1>5 DEF OwnCall, Present
<1>8. RunsOwned'
  BY <1>3, <1>4, <1>5 DEF RequestInv, RunsOwned
<1>9. SubmitsOwned'
  <2>1. ASSUME NEW r \in Requests, submitted'[r] # {} PROVE Present(row'[r])
    BY <1>3, <1>4, <1>5, <2>1 DEF RequestInv, SubmitsOwned
  <2>2. ASSUME NEW r \in Requests \ replaced' PROVE submitted'[r] \subseteq {row'[r].profile}
    BY <1>4, <1>5, <2>2 DEF RequestInv, SubmitsOwned
  <2> QED
    BY <1>4, <2>1, <2>2 DEF RequestInv, SubmitsOwned, Present
<1> QED
  BY <1>4, <1>6, <1>7, <1>8, <1>9, OwnCallMoves DEF RequestInv

LEMMA StartSubmitOwn ==
  ASSUME TypeInv, RequestInv, NEW c \in Callers, StartSubmit(c)
  PROVE  RequestInv'
<1> DEFINE d == call[c]
           run == <<d.profile, d.req>>
<1>1. /\ d \in WellCall /\ d.pc = "submit" /\ d.profile \in Profiles /\ d.req \in Requests
      /\ Present(row[d.req]) /\ (d.req \notin replaced => row[d.req].profile = d.profile)
  BY FieldTypes DEF StartSubmit, At, WellCall, WellFilled, RequestInv, OwnCall, TypeInv, RowsPlaced
<1>2. /\ submitted' = [submitted EXCEPT ![d.req] = @ \cup {d.profile}]
      /\ UNCHANGED <<row, liveRow, replaced>>
  BY DEF StartSubmit, registry
<1>3. RowsKeep
  BY <1>2 DEF RowsKeep
<1>4. \E e : Becomes(c, e) /\ (e = Idle \/ (/\ e.pc = "record" /\ e.req = d.req
                                            /\ e.profile = d.profile /\ e.run = run))
  <2>1. ASSUME NEW s
        PROVE  LET e == [d EXCEPT !.pc = "record", !.run = run, !.session = s]
               IN  e.pc = "record" /\ e.req = d.req /\ e.profile = d.profile /\ e.run = run
    BY <1>1 DEF WellCall, Call
  <2>2. \/ \E s : Becomes(c, [d EXCEPT !.pc = "record", !.run = run, !.session = s])
        \/ Becomes(c, Idle)
    BY DEF StartSubmit
  <2> HIDE DEF d, run
  <2> QED
    BY <2>1, <2>2
<1>5. PICK e : Becomes(c, e) /\ (e = Idle \/ (/\ e.pc = "record" /\ e.req = d.req
                                              /\ e.profile = d.profile /\ e.run = run))
  BY <1>4
<1> HIDE DEF d
<1>6. OwnCall(e)'
  <2>1. CASE e = Idle
    BY <2>1, IdleMoves, OwnCallFree
  <2>2. CASE e # Idle
    BY <1>1, <1>2, <1>5, <2>2 DEF OwnCall, Present
  <2> QED
    BY <2>1, <2>2
<1>7. RunsOwned'
  BY <1>2 DEF RequestInv, RunsOwned
<1>8. SubmitsOwned'
  <2>1. \A q \in Requests \cup Prompts : q # d.req => submitted'[q] = submitted[q]
    BY <1>1, <1>2 DEF TypeInv, ObserverTypes
  <2>2. submitted'[d.req] = submitted[d.req] \cup {d.profile}
    BY <1>1, <1>2 DEF TypeInv, ObserverTypes
  <2>3. d.req \notin Prompts
    BY <1>1
  <2>4. ASSUME NEW r \in Requests, submitted'[r] # {} PROVE Present(row'[r])
    BY <1>1, <1>2, <2>1, <2>4 DEF RequestInv, SubmitsOwned, Present
  <2>5. ASSUME NEW r \in Requests \ replaced' PROVE submitted'[r] \subseteq {row'[r].profile}
    BY <1>1, <1>2, <2>1, <2>2, <2>5 DEF RequestInv, SubmitsOwned
  <2>6. ASSUME NEW v \in Prompts PROVE submitted'[v] \subseteq {liveRow'[v].profile}
    BY <1>2, <2>1, <2>3, <2>6 DEF RequestInv, SubmitsOwned
  <2> QED
    BY <2>4, <2>5, <2>6 DEF SubmitsOwned, Present
<1> QED
  BY <1>3, <1>5, <1>6, <1>7, <1>8, OwnCallMoves DEF RequestInv

LEMMA StartRecordOwn ==
  ASSUME TypeInv, RequestInv, NEW c \in Callers, StartRecord(c)
  PROVE  RequestInv' /\ RowsKeep
<1> DEFINE d == call[c]
           new == [row[d.req] EXCEPT !.run = d.run, !.session = d.session]
<1>1. /\ d \in WellCall /\ d.pc = "record" /\ d.req \in Requests /\ row[d.req] \in Row
      /\ Present(row[d.req]) /\ (d.req \notin replaced => row[d.req].profile = d.profile)
      /\ d.run[1] = d.profile
  BY FieldTypes DEF StartRecord, At, WellCall, WellFilled, RequestInv, OwnCall, TypeInv, RowsPlaced,
                    RegistryTypes
<1> PICK e : e = [d EXCEPT !.pc = "bind"]
  OBVIOUS
<1>2. e.pc = "bind"
  BY <1>1 DEF WellCall, Call
<1>3. new.profile = row[d.req].profile /\ new.run = d.run
  BY <1>1 DEF Row
<1>4. row' = [row EXCEPT ![d.req] = new] /\ Becomes(c, e) /\ UNCHANGED <<liveRow, submitted, replaced>>
  BY <1>2 DEF StartRecord, observers
<1> HIDE DEF d, new
<1>5. row'[d.req] = new /\ \A r \in Requests \ {d.req} : row'[r] = row[r]
  BY <1>1, <1>4 DEF TypeInv, RegistryTypes
<1>6. RowsKeep
  BY <1>3, <1>4, <1>5 DEF RowsKeep
<1>7. OwnCall(e)'
  BY <1>2, OwnCallFree
<1>8. RunsOwned'
  BY <1>1, <1>3, <1>4, <1>5 DEF RequestInv, RunsOwned
<1>9. \A r \in Requests : row'[r].profile = row[r].profile
  BY <1>3, <1>5
<1>10. SubmitsOwned'
  BY <1>4, <1>9 DEF RequestInv, SubmitsOwned, Present
<1> QED
  BY <1>4, <1>6, <1>7, <1>8, <1>10, OwnCallMoves DEF RequestInv

LEMMA RunAnswersOwn ==
  ASSUME TypeInv, RequestInv, NEW c \in Callers, RunAnswers(c)
  PROVE  RequestInv' /\ RowsKeep
<1> DEFINE d == call[c]
<1>1. d \in WellCall /\ d.pc = "ask" /\ d.req \in OrNone(Requests)
  BY FieldTypes DEF RunAnswers, At, WellCall, WellFilled
<1>2. /\ \A r \in Requests : row'[r].profile = row[r].profile /\ row'[r].run = row[r].run
      /\ \E e : Becomes(c, e) /\ e.pc \in {"bind", "idle"}
  <2>1. CASE d.op = "status" /\ d.req # None
    <3>1. PICK s : /\ row' = [row EXCEPT ![d.req].session = s]
                   /\ Becomes(c, [d EXCEPT !.pc = "bind", !.session = s])
      BY <2>1 DEF RunAnswers
    <3>2. [d EXCEPT !.pc = "bind", !.session = s].pc = "bind"
      BY <1>1 DEF WellCall, Call
    <3>3. d.req \in Requests /\ row[d.req] \in Row
      BY <1>1, <2>1 DEF TypeInv, RegistryTypes
    <3>4. [row[d.req] EXCEPT !.session = s].profile = row[d.req].profile
      BY <3>3 DEF Row
    <3>5. [row[d.req] EXCEPT !.session = s].run = row[d.req].run
      BY <3>3 DEF Row
    <3>6. row'[d.req] = [row[d.req] EXCEPT !.session = s] /\ \A r \in Requests \ {d.req} : row'[r] = row[r]
      BY <3>1, <3>3 DEF TypeInv, RegistryTypes
    <3>7. \A r \in Requests : row'[r].profile = row[r].profile /\ row'[r].run = row[r].run
      BY <3>4, <3>5, <3>6
    <3> QED
      BY <3>1, <3>2, <3>7
  <2>2. CASE ~(d.op = "status" /\ d.req # None)
    BY <2>2, IdleMoves DEF RunAnswers
  <2> QED
    BY <2>1, <2>2
<1>3. PICK e : Becomes(c, e) /\ e.pc \in {"bind", "idle"}
  BY <1>2
<1>4. UNCHANGED <<liveRow, submitted, replaced>>
  BY DEF RunAnswers, observers
<1>5. RowsKeep
  BY <1>2, <1>4 DEF RowsKeep
<1>6. OwnCall(e)'
  BY <1>3, OwnCallFree
<1>7. RunsOwned' /\ SubmitsOwned'
  BY <1>2, <1>4 DEF RequestInv, RunsOwned, SubmitsOwned, Present
<1> QED
  BY <1>3, <1>5, <1>6, <1>7, OwnCallMoves DEF RequestInv

\* A step of a call that writes no durable row and no submission, and leaves
\* the profiles of the live rows alone.
LEMMA QuietOwn ==
  ASSUME TypeInv, RequestInv, NEW c \in Callers, NEW d, Becomes(c, d), UNCHANGED <<row, observers>>,
         \A v \in Prompts : Present(liveRow[v]) => liveRow'[v].profile = liveRow[v].profile,
         d.pc \notin {"submit", "record", "ask", "prompt", "ack"}
  PROVE  RequestInv' /\ RowsKeep
<1>1. RowsKeep
  BY DEF RowsKeep, observers
<1>2. RunsOwned'
  BY DEF RequestInv, RunsOwned, observers
<1>3. SubmitsOwned'
  <2>1. ASSUME NEW v \in Prompts PROVE submitted[v] \subseteq {liveRow'[v].profile}
    <3>1. CASE Present(liveRow[v])
      BY <3>1 DEF RequestInv, SubmitsOwned
    <3>2. CASE ~Present(liveRow[v])
      <4>1. submitted[v] \subseteq {None} /\ submitted[v] \subseteq Profiles
        BY <3>2 DEF RequestInv, SubmitsOwned, Present, TypeInv, ObserverTypes
      <4> QED
        BY <4>1
    <3> QED
      BY <3>1, <3>2
  <2> QED
    BY <2>1 DEF RequestInv, SubmitsOwned, observers, Present
<1> QED
  BY <1>1, <1>2, <1>3, OwnCallFree, OwnCallMoves DEF RequestInv

LEMMA LiveStepOwn ==
  ASSUME TypeInv, RequestInv, NEW c \in Callers, Bind(c) \/ Attach(c) \/ Remember(c) \/ PromptAck(c)
  PROVE  RequestInv' /\ RowsKeep
<1>1. call[c] \in Call
  BY FieldTypes DEF WellCall
<1>2. CASE Bind(c)
  <2>1. UNCHANGED <<row, observers, liveRow>>
    BY <1>2 DEF Bind
  <2>2. PICK e : Becomes(c, e) /\ e.pc \in {"idle", "remember"}
    BY <1>1, <1>2, IdleMoves DEF Bind, Call
  <2> QED
    BY <2>1, <2>2, QuietOwn
<1>3. CASE Attach(c)
  <2>1. UNCHANGED <<row, observers, liveRow>>
    BY <1>3 DEF Attach, registry
  <2>2. PICK s, x : Becomes(c, [call[c] EXCEPT !.pc = "bind", !.session = s, !.runtime = x])
    BY <1>3 DEF Attach
  <2> PICK e : e = [call[c] EXCEPT !.pc = "bind", !.session = s, !.runtime = x]
    OBVIOUS
  <2>3. e.pc = "bind" /\ Becomes(c, e)
    BY <1>1, <2>2 DEF Call
  <2> QED
    BY <2>1, <2>3, QuietOwn
<1>4. CASE Remember(c)
  <2>1. UNCHANGED <<row, observers>>
    BY <1>4 DEF Remember
  <2>2. PICK e : Becomes(c, e) /\ e.pc \in {"idle", "use"}
    BY <1>1, <1>4, IdleMoves DEF Remember, Call
  <2>3. ASSUME NEW v \in Prompts PROVE liveRow'[v].profile = liveRow[v].profile
    BY <1>4 DEF Remember, Rotated, TypeInv, RegistryTypes, LiveRow
  <2> QED
    BY <2>1, <2>2, <2>3, QuietOwn
<1>5. CASE PromptAck(c)
  <2>1. UNCHANGED <<row, observers>> /\ Becomes(c, Idle)
    BY <1>5 DEF PromptAck
  <2>2. ASSUME NEW v \in Prompts PROVE liveRow'[v].profile = liveRow[v].profile
    BY <1>5 DEF PromptAck, TypeInv, RegistryTypes, LiveRow
  <2> QED
    BY <2>1, <2>2, IdleMoves, QuietOwn
<1> QED
  BY <1>2, <1>3, <1>4, <1>5

LEMMA PromptReserveOwn ==
  ASSUME TypeInv, RequestInv, NEW c \in Callers, PromptReserve(c)
  PROVE  RequestInv' /\ RowsKeep
<1> DEFINE d == call[c]
           new == [profile |-> d.profile, runtime |-> d.runtime]
<1>1. d \in WellCall /\ d.pc = "reserve" /\ d.profile \in Profiles /\ d.req \in Prompts
  BY FieldTypes DEF PromptReserve, At, WellCall, WellFilled
<1>2. UNCHANGED <<row, observers>>
  BY DEF PromptReserve
<1>3. CASE Present(liveRow[d.req])
  BY <1>2, <1>3, IdleMoves, QuietOwn DEF PromptReserve
<1>4. CASE ~Present(liveRow[d.req])
  <2> PICK e : e = [d EXCEPT !.pc = "prompt"]
    OBVIOUS
  <2>1. e.pc = "prompt" /\ e.req = d.req /\ e.profile = d.profile
    BY <1>1 DEF WellCall, Call
  <2>2. liveRow' = [liveRow EXCEPT ![d.req] = new] /\ Becomes(c, e)
    BY <1>4, <2>1 DEF PromptReserve
  <2>3. new.profile = d.profile
    OBVIOUS
  <2> HIDE DEF d, new
  <2>4. liveRow'[d.req] = new /\ \A v \in Prompts \ {d.req} : liveRow'[v] = liveRow[v]
    BY <1>1, <2>2 DEF TypeInv, RegistryTypes
  <2>5. RowsKeep
    BY <1>2, <1>4, <2>4 DEF RowsKeep, observers
  <2>6. OwnCall(e)'
    BY <2>1, <2>3, <2>4 DEF OwnCall
  <2>7. RunsOwned'
    BY <1>2 DEF RequestInv, RunsOwned, observers
  <2>8. submitted[d.req] = {}
    <3>1. submitted[d.req] \subseteq {None} /\ submitted[d.req] \subseteq Profiles
      BY <1>1, <1>4 DEF RequestInv, SubmitsOwned, Present, TypeInv, ObserverTypes
    <3> QED
      BY <3>1
  <2>9. SubmitsOwned'
    BY <1>2, <2>4, <2>8 DEF RequestInv, SubmitsOwned, observers, Present
  <2> QED
    BY <2>2, <2>5, <2>6, <2>7, <2>9, OwnCallMoves DEF RequestInv
<1> QED
  BY <1>3, <1>4

LEMMA PromptSubmitOwn ==
  ASSUME TypeInv, RequestInv, NEW c \in Callers, PromptSubmit(c)
  PROVE  RequestInv'
<1> DEFINE d == call[c]
<1>1. /\ d \in WellCall /\ d.pc = "prompt" /\ d.req \in Prompts
      /\ liveRow[d.req].profile = d.profile
  BY FieldTypes DEF PromptSubmit, At, WellCall, WellFilled, RequestInv, OwnCall
<1> PICK e : e = [d EXCEPT !.pc = "ack"]
  OBVIOUS
<1>2. e.pc = "ack" /\ e.req = d.req /\ e.profile = d.profile
  BY <1>1 DEF WellCall, Call
<1>3. /\ submitted' = [submitted EXCEPT ![d.req] = @ \cup {d.profile}]
      /\ Becomes(c, Idle) \/ Becomes(c, e)
      /\ UNCHANGED <<row, liveRow, replaced>>
  BY <1>2 DEF PromptSubmit, registry
<1> HIDE DEF d
<1>4. RowsKeep
  BY <1>3 DEF RowsKeep
<1>5. OwnCall(e)' /\ OwnCall(Idle)'
  BY <1>1, <1>2, <1>3, IdleMoves, OwnCallFree DEF OwnCall
<1>6. RunsOwned'
  BY <1>3 DEF RequestInv, RunsOwned
<1>7. SubmitsOwned'
  <2>1. \A q \in Requests \cup Prompts : q # d.req => submitted'[q] = submitted[q]
    BY <1>1, <1>3 DEF TypeInv, ObserverTypes
  <2>2. submitted'[d.req] = submitted[d.req] \cup {d.profile}
    BY <1>1, <1>3 DEF TypeInv, ObserverTypes
  <2>3. d.req \notin Requests
    BY <1>1
  <2>4. ASSUME NEW r \in Requests PROVE submitted'[r] = submitted[r]
    BY <2>1, <2>3
  <2>5. ASSUME NEW v \in Prompts PROVE submitted'[v] \subseteq {liveRow'[v].profile}
    BY <1>1, <1>3, <2>1, <2>2, <2>5 DEF RequestInv, SubmitsOwned
  <2> QED
    BY <1>3, <2>4, <2>5 DEF RequestInv, SubmitsOwned, Present
<1> QED
  BY <1>3, <1>4, <1>5, <1>6, <1>7, OwnCallMoves DEF RequestInv

LEMMA NextRequestInv ==
  ASSUME TypeInv, RequestInv, [Next]_vars
  PROVE  RequestInv'
<1>1. CASE \E c \in Callers : CallBegins(c)
  BY <1>1, CallBeginsOwn
<1>2. CASE \E c \in Callers : Durable(c)
  BY <1>2, StartSaveOwn, StartSubmitOwn, StartRecordOwn, LiveStepOwn, RunAnswersOwn DEF Durable
<1>3. CASE \E c \in Callers : Live(c)
  BY <1>3, LiveStepOwn, PromptReserveOwn, PromptSubmitOwn DEF Live
<1>4. CASE \E c \in Callers : RemoteEnds(c)
  <2>1. PICK c \in Callers : RemoteEnds(c)
    BY <1>4
  <2>2. Becomes(c, Idle) /\ UNCHANGED <<row, liveRow, observers>>
    BY <2>1 DEF RemoteEnds, registry
  <2> QED
    BY <2>2, IdleMoves, QuietOwn
<1>5. CASE GatewayRestarts
  BY <1>5 DEF GatewayRestarts, registry, observers, RequestInv, OwnCall, RunsOwned, SubmitsOwned,
              Present
<1>6. CASE Crash
  <2>1. \A c \in Callers : OwnCall(call[c])'
    BY <1>6, IdleMoves DEF Crash, OwnCall
  <2>2. RunsOwned' /\ SubmitsOwned'
    BY <1>6 DEF Crash, registry, observers, RequestInv, RunsOwned, SubmitsOwned, Present
  <2> QED
    BY <2>1, <2>2 DEF RequestInv
<1>7. CASE UNCHANGED vars
  BY <1>7 DEF vars, registry, observers, RequestInv, OwnCall, RunsOwned, SubmitsOwned, Present
<1> QED
  BY <1>1, <1>2, <1>3, <1>4, <1>5, <1>6, <1>7 DEF Next

LEMMA RequestsInductive == Spec => [](TypeInv /\ RequestInv)
<1>1. Init => TypeInv /\ RequestInv
  BY InitTypeInv, InitRequestInv
<1>2. TypeInv /\ RequestInv /\ [Next]_vars => TypeInv' /\ RequestInv'
  BY NextTypeInv, NextRequestInv
<1> QED
  BY <1>1, <1>2, PTL DEF Spec

\* A request, durable or live, is only ever submitted under the profile of its
\* row, whatever profiles its callers supply or leave out.
THEOREM RequestsStayInProfile == Spec => []RequestStaysInProfile
<1>1. TypeInv /\ RequestInv => RequestStaysInProfile
  BY RequestInvImplies
<1> QED
  BY <1>1, RequestsInductive, PTL

\* Every call about a run of a recorded request goes to the API that made the run.
THEOREM RunsStayInProfile == Spec => []RunStaysInProfile
<1>1. TypeInv /\ RequestInv => RunStaysInProfile
  BY RequestInvImplies
<1> QED
  BY <1>1, RequestsInductive, PTL
=============================================================================
