-------------------------- MODULE ProfileBindingProofs --------------------------
(***************************************************************************)
(* Theorems about ProfileRouting: which sessions a lane is bound to, and   *)
(* which profile a live call goes out under.                               *)
(*                                                                         *)
(* Both say that what a call, a row, a binding or the process remembers    *)
(* was true of Hermes when it was learned, and that Hermes never unsays    *)
(* it: sessions stay in their profile, runs keep their session, runtimes   *)
(* what they were opened for.                                              *)
(***************************************************************************)
EXTENDS ProfileRoutingProofs

USE ProfileAssumption, RequestAssumption, NoneAssumption DEF OrNone

-----------------------------------------------------------------------------
(* Sessions.                                                               *)

\* A session a lane of `p' may be bound to.
Good(p, s) == s \in OrNone(home[p] \cup {p} \X Requests)

HermesKeeps ==
  /\ \A p \in Profiles : home[p] \subseteq home'[p]
  /\ \A n \in Runs : runs[n] # None => runs'[n] = runs[n]
  /\ replaced \subseteq replaced'

GoodCall(d) ==
  /\ d.pc \in {"save", "submit"} =>
       IF SessionOf[d.req] = None THEN replaced = {} => Good(d.profile, d.session)
                                  ELSE d.session = SessionOf[d.req]
  /\ d.pc = "record" => d.session # None /\ runs[d.run] # None
  /\ d.pc = "ask" => runs[d.run] # None
  /\ d.pc = "ask" /\ d.req # None => d.session # None
  /\ d.pc \in {"bind", "remember"} => d.session # None
  /\ replaced = {} /\ (d.pc \in {"record", "bind", "remember"} \/ (d.pc = "ask" /\ d.req # None))
       => Good(d.profile, d.session)

RunsHome ==
  \A n \in Runs : runs[n] # None =>
    /\ runs[n] \in home[n[1]]
    /\ SessionOf[n[2]] # None => runs[n] = SessionOf[n[2]]

RowsGood ==
  \A r \in Requests : row[r].run # None =>
    /\ row[r].session # None
    /\ runs[row[r].run] # None
    /\ replaced = {} => Good(row[r].profile, row[r].session)

LanesGood == replaced = {} => \A p \in Profiles, l \in Lanes : Good(p, binding[p][l])

BindingInv ==
  /\ \A c \in Callers : GoodCall(call[c])
  /\ RunsHome
  /\ RowsGood
  /\ LanesGood

-----------------------------------------------------------------------------
(* Runtimes.                                                               *)

Opened(x) == opened[x] # Unopened

\* `p' is the profile the runtime is open in, as far as that can be told.
Right(p, x) ==
  /\ Opened(x)
  /\ replaced = {} /\ x \notin guessed /\ ~Shared(opened[x].session) => opened[x].profile = p

RuntimesKeep ==
  /\ \A x \in Runtimes : Opened(x) => opened'[x] = opened[x]
  /\ guessed \subseteq guessed'

RightCall(d) ==
  /\ d.pc \in {"bind", "remember"} /\ d.runtime # None
       => opened[d.runtime] = [profile |-> d.profile, session |-> d.session]
  /\ d.pc \in {"save", "submit", "record", "ask", "attach"} => d.runtime = None
  /\ d.pc \in {"reserve", "prompt", "ack", "use"} => Right(d.profile, d.runtime)

OpenedHome ==
  \A x \in Runtimes : Opened(x) => /\ opened[x].profile \in Profiles
                                   /\ opened[x].session \in home[opened[x].profile]

\* The sessions that Hermes names after a run of another profile are its own.
RunsApart ==
  replaced = {} => \A p, q \in Profiles : p # q => home[p] \cap ({q} \X Requests) = {}

RowsRight ==
  \A v \in Prompts : Present(liveRow[v]) => Right(liveRow[v].profile, liveRow[v].runtime)

ProcessRight ==
  /\ \A p \in Profiles, l \in Lanes :
       runtimes[p][l] # None => Opened(runtimes[p][l]) /\ opened[runtimes[p][l]].profile = p
  /\ \A x \in Runtimes : stored[x] # None => Opened(x) /\ opened[x].session = stored[x]

RuntimeInv ==
  /\ \A c \in Callers : RightCall(call[c])
  /\ OpenedHome
  /\ RunsApart
  /\ RowsRight
  /\ ProcessRight
-----------------------------------------------------------------------------
(* The sessions of lanes are those of the profile.                         *)

LEMMA GoodStays ==
  ASSUME NEW p \in Profiles, NEW s, HermesKeeps, Good(p, s)
  PROVE  Good(p, s)'
BY DEF Good, HermesKeeps

LEMMA GoodCallStays ==
  ASSUME NEW d \in WellCall, GoodCall(d), HermesKeeps
  PROVE  GoodCall(d)'
<1>1. d.pc # "idle" => d.profile \in Profiles
  BY DEF WellCall, WellFilled
<1>2. d.pc \in {"record", "ask"} => d.run \in Runs
  BY DEF WellCall, WellFilled
<1>3. replaced' = {} => replaced = {}
  BY DEF HermesKeeps
<1>4. d.pc \in {"record", "ask"} => runs'[d.run] # None
  BY <1>2 DEF GoodCall, HermesKeeps
<1>5. d.pc # "idle" /\ Good(d.profile, d.session) => Good(d.profile, d.session)'
  BY <1>1, GoodStays
<1>6. d.pc \in {"save", "submit", "record", "bind", "remember", "ask"} => d.pc # "idle"
  OBVIOUS
<1> QED
  BY <1>3, <1>4, <1>5, <1>6 DEF GoodCall

LEMMA GoodCallMoves ==
  ASSUME TypeInv, BindingInv, HermesKeeps, NEW c \in Callers, NEW d, Becomes(c, d), GoodCall(d)'
  PROVE  \A b \in Callers : GoodCall(call[b])'
<1> SUFFICES ASSUME NEW b \in Callers PROVE GoodCall(call[b])'
  OBVIOUS
<1>1. call' = [call EXCEPT ![c] = d] /\ call[b] \in WellCall
  BY DEF Becomes, TypeInv
<1> PICK e : e = call'[b]
  OBVIOUS
<1>2. GoodCall(e)'
  <2>1. CASE b = c
    <3>1. e = d
      BY <1>1, <2>1 DEF TypeInv
    <3> QED
      BY <3>1
  <2>2. CASE b # c
    <3>1. e = call[b]
      BY <1>1, <2>2
    <3>2. GoodCall(e)
      BY <3>1 DEF BindingInv
    <3> QED
      BY <1>1, <3>1, <3>2, GoodCallStays
  <2> QED
    BY <2>1, <2>2
<1> QED
  BY <1>2 DEF GoodCall

LEMMA RunsHomeStays ==
  ASSUME TypeInv, RunsHome, HermesKeeps, runs' = runs
  PROVE  RunsHome'
<1>1. \A n \in Runs : n[1] \in Profiles
  BY DEF Runs
<1> QED
  BY <1>1 DEF RunsHome, HermesKeeps

LEMMA RowsGoodStay ==
  ASSUME TypeInv, RowsGood, HermesKeeps, row' = row
  PROVE  RowsGood'
<1> SUFFICES ASSUME NEW r \in Requests, row[r].run # None
             PROVE  /\ row[r].session # None
                    /\ runs'[row[r].run] # None
                    /\ replaced' = {} => Good(row[r].profile, row[r].session)'
  BY DEF RowsGood
<1>1. row[r].profile \in Profiles /\ row[r].run \in Runs
  BY DEF TypeInv, RegistryTypes, Row, Present
<1>2. /\ row[r].session # None
      /\ runs[row[r].run] # None
      /\ replaced = {} => Good(row[r].profile, row[r].session)
  BY DEF RowsGood
<1>3. replaced' = {} => replaced = {}
  BY DEF HermesKeeps
<1> PICK p \in Profiles : p = row[r].profile
  BY <1>1
<1> PICK s : s = row[r].session
  OBVIOUS
<1>4. replaced' = {} => Good(p, s)'
  BY <1>2, <1>3, GoodStays
<1>5. row'[r] = row[r]
  OBVIOUS
<1>6. runs'[row[r].run] # None
  BY <1>1, <1>2 DEF HermesKeeps
<1> QED
  BY <1>2, <1>4, <1>5, <1>6 DEF Good

LEMMA LanesGoodStay ==
  ASSUME LanesGood, HermesKeeps, binding' = binding
  PROVE  LanesGood'
BY DEF LanesGood, Good, HermesKeeps

\* A step that writes neither Hermes nor the tables of this invariant.
LEMMA QuietGood ==
  ASSUME TypeInv, BindingInv, UNCHANGED <<home, runs, row, binding, replaced>>
  PROVE  HermesKeeps /\ RunsHome' /\ RowsGood' /\ LanesGood'
<1>1. HermesKeeps
  BY DEF HermesKeeps
<1> QED
  BY <1>1, RunsHomeStays, RowsGoodStay, LanesGoodStay DEF BindingInv

LEMMA QuietCallGood ==
  ASSUME TypeInv, BindingInv, UNCHANGED <<home, runs, row, binding, replaced>>,
         NEW c \in Callers, NEW d, Becomes(c, d), GoodCall(d)
  PROVE  BindingInv'
<1>1. GoodCall(d)'
  BY DEF GoodCall, Good
<1> QED
  BY <1>1, QuietGood, GoodCallMoves DEF BindingInv

LEMMA BeginGood ==
  ASSUME TypeInv, BindingInv, NEW c \in Callers, NEW d, Begins(c, d), GoodCall(d)
  PROVE  BindingInv'
BY QuietCallGood DEF Begins, hermes, registry

\* A call that stands at none of the places GoodCall speaks of.
LEMMA GoodCallFree ==
  ASSUME NEW d, d.pc \notin {"save", "submit", "record", "ask", "bind", "remember"}
  PROVE  GoodCall(d) /\ GoodCall(d)'
BY DEF GoodCall

LEMMA FreeBeginGood ==
  ASSUME TypeInv, BindingInv, NEW c \in Callers, NEW d, Begins(c, d),
         d.pc \notin {"save", "submit", "record", "ask", "bind", "remember"}
  PROVE  BindingInv'
BY BeginGood, GoodCallFree

LEMMA StartBeginsGood ==
  ASSUME TypeInv, BindingInv, NEW c \in Callers, NEW asked \in OrNone(Profiles),
         NEW r \in Requests, StartBegins(c, asked, r)
  PROVE  BindingInv'
<1>1. PICK p \in ForStart(asked, r) :
        Begins(c, [Idle EXCEPT !.pc = IF Present(row[r]) THEN "submit" ELSE "save",
                               !.op = "start", !.profile = p, !.lane = LaneOf[r], !.req = r,
                               !.session = Target(p, LaneOf[r], SessionOf[r])])
  BY DEF StartBegins
<1> PICK d : d = [Idle EXCEPT !.pc = IF Present(row[r]) THEN "submit" ELSE "save",
                              !.op = "start", !.profile = p, !.lane = LaneOf[r], !.req = r,
                              !.session = Target(p, LaneOf[r], SessionOf[r])]
  OBVIOUS
<1>2. /\ d.pc \in {"save", "submit"} /\ d.req = r /\ d.profile = p
      /\ d.session = Target(p, LaneOf[r], SessionOf[r])
  BY DEF Idle
<1>3. p \in Profiles /\ LaneOf[r] \in Lanes
  BY RulesKnown, Given DEF TypeInv
<1>4. replaced = {} => Good(p, binding[p][LaneOf[r]])
  BY <1>3 DEF BindingInv, LanesGood
<1>5. GoodCall(d)
  BY <1>2, <1>4 DEF GoodCall, Target
<1> QED
  BY <1>1, <1>5, BeginGood

LEMMA RunCallBeginsGood ==
  ASSUME TypeInv, RequestInv, BindingInv, NEW c \in Callers, NEW asked \in OrNone(Profiles),
         NEW run \in Runs, NEW op \in {"status", "run"}, RunCallBegins(c, asked, run, op)
  PROVE  BindingInv'
<1>1. PICK r \in IF Owners(run) = {} THEN {None} ELSE Owners(run) :
        \E p \in Directed(asked, IF r = None THEN {} ELSE {row[r].profile}) :
          Begins(c, [Idle EXCEPT !.pc = "ask", !.op = op, !.profile = p, !.run = run, !.req = r,
                                 !.lane = IF r = None THEN None ELSE LaneOf[r],
                                 !.session = IF r = None THEN None ELSE row[r].session])
  BY DEF RunCallBegins
<1>2. r \in OrNone(Requests) /\ (r # None => row[r].run = run)
  BY DEF Owners
<1>3. PICK p \in Directed(asked, IF r = None THEN {} ELSE {row[r].profile}) :
        Begins(c, [Idle EXCEPT !.pc = "ask", !.op = op, !.profile = p, !.run = run, !.req = r,
                               !.lane = IF r = None THEN None ELSE LaneOf[r],
                               !.session = IF r = None THEN None ELSE row[r].session])
  BY <1>1
<1> PICK d : d = [Idle EXCEPT !.pc = "ask", !.op = op, !.profile = p, !.run = run, !.req = r,
                              !.lane = IF r = None THEN None ELSE LaneOf[r],
                              !.session = IF r = None THEN None ELSE row[r].session]
  OBVIOUS
<1>4. /\ d.pc = "ask" /\ d.req = r /\ d.profile = p /\ d.run = run
      /\ r # None => d.session = row[r].session
  BY DEF Idle
<1>5. ASSUME r # None
      PROVE  /\ row[r].session # None
             /\ replaced = {} => Good(p, row[r].session)
  <2>1. r \in Requests /\ row[r].run # None
    BY <1>2, <1>5 DEF Runs
  <2>2. row[r].profile \in Profiles
    BY <2>1 DEF TypeInv, RegistryTypes, Row, Present
  <2>3. p = row[r].profile
    BY <1>5, <2>2, DirectedKnown
  <2> QED
    BY <2>1, <2>3 DEF BindingInv, RowsGood
<1>6. runs[run] # None
  BY DEF RunCallBegins
<1>7. GoodCall(d)
  BY <1>4, <1>5, <1>6 DEF GoodCall
<1> QED
  BY <1>3, <1>7, BeginGood

LEMMA CallBeginsGood ==
  ASSUME TypeInv, RequestInv, BindingInv, NEW c \in Callers, CallBegins(c)
  PROVE  BindingInv'
<1>1. ASSUME NEW p, NEW x, Begins(c, Uses(p, x)) PROVE BindingInv'
  BY <1>1, FreeBeginGood DEF Uses, Idle
<1>2. ASSUME NEW p, NEW l, Begins(c, Reopens(p, l)) PROVE BindingInv'
  BY <1>2, FreeBeginGood DEF Reopens, Idle
<1>3. CASE \E v \in Prompts : ReconcileBegins(c, v)
  BY <1>2, <1>3 DEF ReconcileBegins, Reopens
<1>4. CASE \E asked \in OrNone(Profiles) : CallFor(c, asked)
  <2>1. PICK asked \in OrNone(Profiles) : CallFor(c, asked)
    BY <1>4
  <2>2. CASE \E r \in Requests : StartBegins(c, asked, r)
    BY <2>2, StartBeginsGood
  <2>3. CASE \E run \in Runs, op \in {"status", "run"} : RunCallBegins(c, asked, run, op)
    BY <2>3, RunCallBeginsGood
  <2>4. CASE \E l \in Lanes, s \in OrNone(Named) : OpenBegins(c, asked, l, s)
    BY <2>4, FreeBeginGood DEF OpenBegins, Idle
  <2>5. CASE \E v \in Prompts, x \in OrNone(Minted) : PromptBegins(c, asked, v, x)
    BY <2>5, FreeBeginGood DEF PromptBegins, Idle
  <2>6. CASE \E v \in Prompts : WaitBegins(c, asked, v)
    BY <1>1, <2>6 DEF WaitBegins
  <2>7. CASE \E x \in Minted : RuntimeCallBegins(c, asked, x)
    BY <1>1, <2>7 DEF RuntimeCallBegins
  <2>8. CASE \E l \in Lanes, x \in OrNone(Minted) : LaneCallBegins(c, asked, l, x)
    BY <1>1, <2>8 DEF LaneCallBegins
  <2>9. CASE \E l \in Lanes : LaneCallReopens(c, asked, l)
    BY <1>2, <2>9 DEF LaneCallReopens, Reopens
  <2> QED
    BY <2>1, <2>2, <2>3, <2>4, <2>5, <2>6, <2>7, <2>8, <2>9 DEF CallFor
<1> QED
  BY <1>3, <1>4 DEF CallBegins
LEMMA StartSaveGood ==
  ASSUME TypeInv, BindingInv, NEW c \in Callers, StartSave(c)
  PROVE  BindingInv'
<1> DEFINE d == call[c]
           new == [profile |-> d.profile, session |-> d.session, run |-> None]
<1>1. d \in WellCall /\ d.pc = "save" /\ d.profile \in Profiles /\ d.req \in Requests /\ GoodCall(d)
  BY FieldTypes DEF StartSave, At, WellCall, WellFilled, BindingInv
<1> PICK e : e = [d EXCEPT !.pc = "submit"]
  OBVIOUS
<1>2. e.pc = "submit" /\ e.req = d.req /\ e.profile = d.profile /\ e.session = d.session
  BY <1>1 DEF WellCall, Call
<1>3. new.run = None
  OBVIOUS
<1>4. /\ row' = [row EXCEPT ![d.req] = new] /\ Becomes(c, e)
      /\ UNCHANGED <<home, runs, binding>> /\ replaced \subseteq replaced'
  BY DEF StartSave, hermes
<1> HIDE DEF d, new
<1>5. row'[d.req] = new /\ \A r \in Requests \ {d.req} : row'[r] = row[r]
  BY <1>1, <1>4 DEF TypeInv, RegistryTypes
<1>6. HermesKeeps
  BY <1>4 DEF HermesKeeps
<1>7. GoodCall(e)'
  <2>1. GoodCall(e)
    BY <1>1, <1>2 DEF GoodCall
  <2> QED
    BY <1>4, <2>1 DEF GoodCall, Good
<1>8. RowsGood'
  BY <1>3, <1>4, <1>5 DEF BindingInv, RowsGood, Good
<1>9. RunsHome' /\ LanesGood'
  BY <1>4, <1>6, RunsHomeStays, LanesGoodStay DEF BindingInv
<1> QED
  BY <1>4, <1>6, <1>7, <1>8, <1>9, GoodCallMoves DEF BindingInv

LEMMA StartSubmitGood ==
  ASSUME TypeInv, BindingInv, NEW c \in Callers, StartSubmit(c)
  PROVE  BindingInv'
<1> DEFINE d == call[c]
           run == <<d.profile, d.req>>
           made == IF runs[run] # None THEN runs[run]
                   ELSE IF d.session = None THEN run ELSE d.session
<1>1. /\ d \in WellCall /\ d.pc = "submit" /\ d.profile \in Profiles /\ d.req \in Requests
      /\ GoodCall(d)
  BY FieldTypes DEF StartSubmit, At, WellCall, WellFilled, BindingInv
<1>2. run \in Runs /\ run \in Sessions /\ run[1] = d.profile /\ run[2] = d.req
  BY <1>1 DEF Runs, Sessions
<1>3. made # None /\ (SessionOf[d.req] # None => made = SessionOf[d.req])
  <2>1. runs[run] # None /\ SessionOf[d.req] # None => runs[run] = SessionOf[d.req]
    BY <1>2 DEF BindingInv, RunsHome
  <2>2. SessionOf[d.req] # None => d.session = SessionOf[d.req]
    BY <1>1 DEF GoodCall
  <2> QED
    BY <1>2, <2>1, <2>2
<1>4. /\ runs' = [runs EXCEPT ![run] = made]
      /\ home' = [home EXCEPT ![d.profile] = @ \cup {made}]
      /\ UNCHANGED <<row, binding, replaced>>
  BY DEF StartSubmit, registry
<1>5. runs[run] # None => made = runs[run]
  OBVIOUS
<1>6. \/ \E s \in {made, Assumed(d, run)} :
           Becomes(c, [d EXCEPT !.pc = "record", !.run = run, !.session = s])
      \/ Becomes(c, Idle)
  BY DEF StartSubmit
<1>7. /\ Assumed(d, run) # None
      /\ Assumed(d, run) \in {d.session, run}
      /\ d.session # None => Assumed(d, run) = d.session
  BY <1>2 DEF Assumed
<1> HIDE DEF d, run, made
<1>8. /\ runs'[run] = made /\ \A n \in Runs \ {run} : runs'[n] = runs[n]
      /\ made \in home'[d.profile] /\ \A p \in Profiles : home[p] \subseteq home'[p]
  BY <1>1, <1>2, <1>4 DEF TypeInv, HermesTypes
<1>9. HermesKeeps
  BY <1>4, <1>5, <1>8 DEF HermesKeeps
<1>10. RunsHome'
  <2>1. SUFFICES ASSUME NEW n \in Runs, runs'[n] # None
                 PROVE  /\ runs'[n] \in home'[n[1]]
                        /\ SessionOf[n[2]] # None => runs'[n] = SessionOf[n[2]]
    BY DEF RunsHome
  <2>2. CASE n = run
    BY <1>2, <1>3, <1>8, <2>2
  <2>3. CASE n # run
    <3>1. runs'[n] = runs[n] /\ n[1] \in Profiles
      BY <1>8, <2>3 DEF Runs
    <3> QED
      BY <1>8, <2>1, <3>1 DEF BindingInv, RunsHome
  <2> QED
    BY <2>2, <2>3
<1>11. RowsGood' /\ LanesGood'
  BY <1>4, <1>9, RowsGoodStay, LanesGoodStay DEF BindingInv
<1>12. ASSUME NEW s \in {made, Assumed(d, run)}, replaced = {}
       PROVE  s \in home'[d.profile] \cup {d.profile} \X Requests
  <2>1. run \in {d.profile} \X Requests
    BY <1>1 DEF run
  <2>2. CASE s = made
    BY <1>8, <2>2
  <2>3. CASE s # made
    <3>1. s = Assumed(d, run)
      BY <2>3
    <3>2. CASE d.session = None
      BY <1>7, <1>12, <2>1, <3>1, <3>2
    <3>3. CASE d.session # None
      <4>1. s = d.session
        BY <1>7, <3>1, <3>3
      <4>2. SessionOf[d.req] = None
        BY <1>1, <1>3, <2>3, <4>1 DEF GoodCall
      <4>3. Good(d.profile, d.session)
        BY <1>1, <1>12, <4>2 DEF GoodCall
      <4> QED
        BY <1>1, <1>8, <3>3, <4>1, <4>3 DEF Good
    <3> QED
      BY <3>2, <3>3
  <2> QED
    BY <2>2, <2>3
<1>13. \A b \in Callers : GoodCall(call[b])'
  <2>1. CASE Becomes(c, Idle)
    BY <1>9, <2>1, IdleMoves, GoodCallFree, GoodCallMoves
  <2>2. CASE \E s \in {made, Assumed(d, run)} :
               Becomes(c, [d EXCEPT !.pc = "record", !.run = run, !.session = s])
    <3>1. PICK s \in {made, Assumed(d, run)} :
            Becomes(c, [d EXCEPT !.pc = "record", !.run = run, !.session = s])
      BY <2>2
    <3> PICK e : e = [d EXCEPT !.pc = "record", !.run = run, !.session = s]
      OBVIOUS
    <3>2. e.pc = "record" /\ e.run = run /\ e.session = s /\ e.profile = d.profile
      BY <1>1 DEF WellCall, Call
    <3>3. GoodCall(e)'
      BY <1>3, <1>4, <1>7, <1>8, <1>12, <3>2 DEF GoodCall, Good
    <3> QED
      BY <1>9, <3>1, <3>3, GoodCallMoves
  <2> QED
    BY <1>6, <2>1, <2>2
<1> QED
  BY <1>10, <1>11, <1>13 DEF BindingInv

LEMMA StartRecordGood ==
  ASSUME TypeInv, RequestInv, BindingInv, NEW c \in Callers, StartRecord(c)
  PROVE  BindingInv'
<1> DEFINE d == call[c]
           new == [row[d.req] EXCEPT !.run = d.run, !.session = d.session]
<1>1. /\ d \in WellCall /\ d.pc = "record" /\ d.profile \in Profiles /\ d.req \in Requests
      /\ row[d.req] \in Row /\ GoodCall(d)
      /\ d.req \notin replaced => row[d.req].profile = d.profile
  BY FieldTypes DEF StartRecord, At, WellCall, WellFilled, BindingInv, RequestInv, OwnCall, TypeInv,
                    RegistryTypes
<1> PICK e : e = [d EXCEPT !.pc = "bind"]
  OBVIOUS
<1>2. e.pc = "bind" /\ e.profile = d.profile /\ e.session = d.session
  BY <1>1 DEF WellCall, Call
<1>3. new.profile = row[d.req].profile /\ new.run = d.run /\ new.session = d.session
  BY <1>1 DEF Row
<1>4. /\ row' = [row EXCEPT ![d.req] = new] /\ Becomes(c, e)
      /\ UNCHANGED <<home, runs, binding, replaced>>
  BY DEF StartRecord, observers, hermes
<1>5. d.session # None /\ runs[d.run] # None /\ (replaced = {} => Good(d.profile, d.session))
  BY <1>1 DEF GoodCall
<1> HIDE DEF d, new
<1>6. row'[d.req] = new /\ \A r \in Requests \ {d.req} : row'[r] = row[r]
  BY <1>1, <1>4 DEF TypeInv, RegistryTypes
<1>7. HermesKeeps
  BY <1>4 DEF HermesKeeps
<1>8. GoodCall(e)'
  BY <1>2, <1>4, <1>5 DEF GoodCall, Good
<1>9. RowsGood'
  <2>1. ASSUME NEW r \in Requests, row'[r].run # None
        PROVE  /\ row'[r].session # None
               /\ runs'[row'[r].run] # None
               /\ replaced' = {} => Good(row'[r].profile, row'[r].session)
    <3>1. CASE r = d.req
      BY <1>1, <1>3, <1>4, <1>5, <1>6, <3>1
    <3>2. CASE r # d.req
      BY <1>4, <1>6, <2>1, <3>2 DEF BindingInv, RowsGood
    <3> QED
      BY <3>1, <3>2
  <2> QED
    BY <1>4, <2>1 DEF RowsGood, Good
<1>10. RunsHome' /\ LanesGood'
  BY <1>4, <1>7, RunsHomeStays, LanesGoodStay DEF BindingInv
<1> QED
  BY <1>4, <1>7, <1>8, <1>9, <1>10, GoodCallMoves DEF BindingInv

LEMMA BindGood ==
  ASSUME TypeInv, BindingInv, NEW c \in Callers, Bind(c)
  PROVE  BindingInv'
<1> DEFINE d == call[c]
<1>1. /\ d \in WellCall /\ d.pc = "bind" /\ d.profile \in Profiles /\ d.lane \in Lanes /\ GoodCall(d)
  BY FieldTypes DEF Bind, At, WellCall, WellFilled, BindingInv
<1>2. /\ binding' = [binding EXCEPT ![d.profile][d.lane] = d.session]
      /\ UNCHANGED <<home, runs, row, replaced>>
  BY DEF Bind, hermes, observers
<1>3. replaced = {} => Good(d.profile, d.session)
  BY <1>1 DEF GoodCall
<1> PICK e : e = IF d.runtime = None THEN Idle ELSE [d EXCEPT !.pc = "remember"]
  OBVIOUS
<1>4. /\ Becomes(c, e)
      /\ e.pc = "idle" \/ (e.pc = "remember" /\ e.profile = d.profile /\ e.session = d.session)
  BY <1>1, IdleMoves DEF Bind, WellCall, Call
<1>5. d.session # None
  BY <1>1 DEF GoodCall
<1> HIDE DEF d
<1>6. HermesKeeps
  BY <1>2 DEF HermesKeeps
<1>7. GoodCall(e)'
  BY <1>2, <1>3, <1>4, <1>5 DEF GoodCall, Good
<1>8. LanesGood'
  <2>1. ASSUME NEW p \in Profiles, NEW l \in Lanes, replaced = {}
        PROVE  Good(p, binding'[p][l])
    <3>1. binding'[p][l] = IF p = d.profile /\ l = d.lane THEN d.session ELSE binding[p][l]
      BY <1>1, <1>2 DEF TypeInv, RegistryTypes
    <3> QED
      BY <1>3, <2>1, <3>1 DEF BindingInv, LanesGood
  <2> QED
    BY <1>2, <2>1 DEF LanesGood, Good
<1>9. RunsHome' /\ RowsGood'
  BY <1>2, <1>6, RunsHomeStays, RowsGoodStay DEF BindingInv
<1> QED
  BY <1>4, <1>6, <1>7, <1>8, <1>9, GoodCallMoves DEF BindingInv

LEMMA RunAnswersGood ==
  ASSUME TypeInv, RequestInv, BindingInv, NEW c \in Callers, RunAnswers(c)
  PROVE  BindingInv'
<1> DEFINE d == call[c]
<1>1. /\ d \in WellCall /\ d.pc = "ask" /\ d.profile \in Profiles /\ d.run \in Runs
      /\ d.req \in OrNone(Requests) /\ GoodCall(d) /\ OwnCall(d) /\ d.run[1] = d.profile
  BY FieldTypes DEF RunAnswers, At, WellCall, WellFilled, BindingInv, RequestInv
<1>2. UNCHANGED <<home, runs, binding, replaced>>
  BY DEF RunAnswers, hermes, observers
<1>3. CASE ~(d.op = "status" /\ d.req # None)
  <2>1. row' = row /\ Becomes(c, Idle)
    BY <1>3 DEF RunAnswers
  <2> QED
    BY <1>2, <2>1, IdleMoves, GoodCallFree, QuietCallGood
<1>4. CASE d.op = "status" /\ d.req # None
  <2>1. PICK s \in {runs[d.run], d.session} :
          row' = [row EXCEPT ![d.req].session = s] /\ Becomes(c, [d EXCEPT !.pc = "bind", !.session = s])
    BY <1>4 DEF RunAnswers
  <2> PICK e : e = [d EXCEPT !.pc = "bind", !.session = s]
    OBVIOUS
  <2> DEFINE new == [row[d.req] EXCEPT !.session = s]
  <2>2. e.pc = "bind" /\ e.profile = d.profile /\ e.session = s
    BY <1>1 DEF WellCall, Call
  <2>3. d.req \in Requests /\ row[d.req] \in Row
    BY <1>1, <1>4 DEF TypeInv, RegistryTypes
  <2>4. new.profile = row[d.req].profile /\ new.run = row[d.req].run /\ new.session = s
    BY <2>3 DEF Row
  <2>5. row' = [row EXCEPT ![d.req] = new] /\ Becomes(c, e)
    BY <2>1
  <2>6. runs[d.run] \in home[d.profile] /\ runs[d.run] # None
    BY <1>1 DEF GoodCall, BindingInv, RunsHome
  <2>7. s # None /\ (replaced = {} => Good(d.profile, s))
    BY <1>1, <1>4, <2>6 DEF GoodCall, Good
  <2>8. d.req \notin replaced => row[d.req].profile = d.profile
    BY <1>1, <1>4 DEF OwnCall
  <2> HIDE DEF d, new
  <2>9. row'[d.req] = new /\ \A r \in Requests \ {d.req} : row'[r] = row[r]
    BY <2>3, <2>5 DEF TypeInv, RegistryTypes
  <2>10. HermesKeeps
    BY <1>2 DEF HermesKeeps
  <2>11. GoodCall(e)'
    BY <1>2, <2>2, <2>7 DEF GoodCall, Good
  <2>12. RowsGood'
    <3>1. ASSUME NEW r \in Requests, row'[r].run # None
          PROVE  /\ row'[r].session # None
                 /\ runs'[row'[r].run] # None
                 /\ replaced' = {} => Good(row'[r].profile, row'[r].session)
      <4>1. row'[r].run = row[r].run
        BY <2>4, <2>9
      <4>2. runs'[row'[r].run] # None
        BY <1>2, <3>1, <4>1 DEF BindingInv, RowsGood
      <4>3. CASE r = d.req
        BY <1>2, <2>4, <2>7, <2>8, <2>9, <4>2, <4>3
      <4>4. CASE r # d.req
        BY <1>2, <2>9, <3>1, <4>4 DEF BindingInv, RowsGood
      <4> QED
        BY <4>3, <4>4
    <3> QED
      BY <1>2, <3>1 DEF RowsGood, Good
  <2>13. RunsHome' /\ LanesGood'
    BY <1>2, <2>10, RunsHomeStays, LanesGoodStay DEF BindingInv
  <2> QED
    BY <2>5, <2>10, <2>11, <2>12, <2>13, GoodCallMoves DEF BindingInv
<1> QED
  BY <1>3, <1>4

LEMMA AttachGood ==
  ASSUME TypeInv, BindingInv, NEW c \in Callers, Attach(c)
  PROVE  BindingInv'
<1> DEFINE d == call[c]
<1>1. d \in WellCall /\ d.pc = "attach" /\ d.profile \in Profiles
  BY FieldTypes DEF Attach, At, WellCall, WellFilled
<1>2. \E x \in Runtimes, s \in Sessions :
        /\ home' = [home EXCEPT ![d.profile] = @ \cup {s}]
        /\ Becomes(c, [d EXCEPT !.pc = "bind", !.session = s, !.runtime = x])
  <2>1. \A x \in Runtimes : (IF d.session = None THEN x ELSE d.session) \in Sessions
    BY <1>1 DEF WellCall, Call, Sessions
  <2> QED
    BY <2>1 DEF Attach
<1>3. PICK x \in Runtimes, s \in Sessions :
        /\ home' = [home EXCEPT ![d.profile] = @ \cup {s}]
        /\ Becomes(c, [d EXCEPT !.pc = "bind", !.session = s, !.runtime = x])
  BY <1>2
<1> PICK e : e = [d EXCEPT !.pc = "bind", !.session = s, !.runtime = x]
  OBVIOUS
<1>4. e.pc = "bind" /\ e.profile = d.profile /\ e.session = s
  BY <1>1 DEF WellCall, Call
<1>5. UNCHANGED <<runs, row, binding, replaced>>
  BY DEF Attach, registry, observers
<1> HIDE DEF d
<1>6. s \in home'[d.profile] /\ \A p \in Profiles : home[p] \subseteq home'[p]
  BY <1>1, <1>3 DEF TypeInv, HermesTypes
<1>7. HermesKeeps
  BY <1>5, <1>6 DEF HermesKeeps
<1>8. GoodCall(e)'
  BY <1>4, <1>6 DEF GoodCall, Good
<1>9. RunsHome' /\ RowsGood' /\ LanesGood'
  BY <1>5, <1>7, RunsHomeStays, RowsGoodStay, LanesGoodStay DEF BindingInv
<1> QED
  BY <1>3, <1>7, <1>8, <1>9, GoodCallMoves DEF BindingInv

\* The steps that concern live rows and the process.
LEMMA LiveStepGood ==
  ASSUME TypeInv, BindingInv, NEW c \in Callers,
         Remember(c) \/ PromptReserve(c) \/ PromptSubmit(c) \/ PromptAck(c) \/ RemoteEnds(c)
  PROVE  BindingInv'
<1>1. UNCHANGED <<home, runs, row, binding, replaced>>
  BY DEF Remember, PromptReserve, PromptSubmit, PromptAck, RemoteEnds, hermes, registry, observers
<1>2. call[c] \in Call
  BY FieldTypes DEF WellCall
<1>3. \E d : Becomes(c, d) /\ d.pc \in {"idle", "use", "prompt", "ack"}
  <2>1. \A pc \in {"use", "prompt", "ack"} : [call[c] EXCEPT !.pc = pc].pc = pc
    BY <1>2 DEF Call
  <2> QED
    BY <2>1, IdleMoves DEF Remember, PromptReserve, PromptSubmit, PromptAck, RemoteEnds
<1> QED
  BY <1>1, <1>3, GoodCallFree, QuietCallGood

LEMMA InitBindingInv == Init => BindingInv
<1> SUFFICES ASSUME Init PROVE BindingInv
  OBVIOUS
<1>1. \A c \in Callers : GoodCall(call[c])
  BY IdleMoves, GoodCallFree DEF Init
<1>2. RunsHome /\ RowsGood /\ LanesGood
  BY DEF Init, RunsHome, RowsGood, LanesGood, Good, AbsentRow
<1> QED
  BY <1>1, <1>2 DEF BindingInv

LEMMA NextBindingInv ==
  ASSUME TypeInv, RequestInv, BindingInv, [Next]_vars
  PROVE  BindingInv'
<1>1. CASE \E c \in Callers : CallBegins(c)
  BY <1>1, CallBeginsGood
<1>2. CASE \E c \in Callers : Durable(c)
  BY <1>2, StartSaveGood, StartSubmitGood, StartRecordGood, BindGood, RunAnswersGood DEF Durable
<1>3. CASE \E c \in Callers : Live(c)
  BY <1>3, AttachGood, LiveStepGood DEF Live
<1>4. CASE \E c \in Callers : RemoteEnds(c)
  BY <1>4, LiveStepGood
<1>5. ASSUME UNCHANGED <<home, runs, row, binding, replaced>>, \A c \in Callers : GoodCall(call[c])'
      PROVE  BindingInv'
  BY <1>5, QuietGood DEF BindingInv
<1>6. CASE GatewayRestarts
  <2>1. UNCHANGED <<home, runs, row, binding, replaced, call>>
    BY <1>6 DEF GatewayRestarts, registry, observers
  <2>2. \A c \in Callers : GoodCall(call[c])'
    BY <2>1 DEF BindingInv, GoodCall, Good
  <2> QED
    BY <1>5, <2>1, <2>2
<1>7. CASE Crash
  <2>1. UNCHANGED <<home, runs, row, binding, replaced>>
    BY <1>7 DEF Crash, hermes, registry, observers
  <2>2. \A c \in Callers : GoodCall(call[c])'
    BY <1>7, IdleMoves DEF Crash, GoodCall
  <2> QED
    BY <1>5, <2>1, <2>2
<1>8. CASE UNCHANGED vars
  <2>1. UNCHANGED <<home, runs, row, binding, replaced, call>>
    BY <1>8 DEF vars, hermes, registry, observers
  <2>2. \A c \in Callers : GoodCall(call[c])'
    BY <2>1 DEF BindingInv, GoodCall, Good
  <2> QED
    BY <1>5, <2>1, <2>2
<1> QED
  BY <1>1, <1>2, <1>3, <1>4, <1>6, <1>7, <1>8 DEF Next

LEMMA BindingsInductive == Spec => [](TypeInv /\ RequestInv /\ BindingInv)
<1>1. Init => TypeInv /\ RequestInv /\ BindingInv
  BY InitTypeInv, InitRequestInv, InitBindingInv
<1>2. TypeInv /\ RequestInv /\ BindingInv /\ [Next]_vars => TypeInv' /\ RequestInv' /\ BindingInv'
  BY NextTypeInv, NextRequestInv, NextBindingInv
<1> QED
  BY <1>1, <1>2, PTL DEF Spec

\* Types; above all that no lane is ever bound to "no session".
THEOREM TypeCorrect == Spec => []TypeOK
<1>1. TypeInv /\ RequestInv /\ BindingInv => TypeOK
  <2> SUFFICES ASSUME TypeInv, BindingInv PROVE TypeOK
    OBVIOUS
  <2>1. call \in [Callers -> Call]
    BY DEF TypeInv, WellCall
  <2>2. \A c \in Callers : call[c].pc = "bind" => call[c].session # None
    BY DEF BindingInv, GoodCall
  <2>3. /\ row \in [Requests ->
                      [profile : OrNone(Profiles), session : OrNone(Sessions), run : OrNone(Runs)]]
        /\ liveRow \in [Prompts -> [profile : OrNone(Profiles), runtime : OrNone(Runtimes)]]
    BY DEF TypeInv, RegistryTypes, Row, LiveRow
  <2>4. /\ HermesTypes /\ ProcessTypes /\ ObserverTypes /\ calls \in Nat
        /\ binding \in [Profiles -> [Lanes -> OrNone(Sessions)]]
    BY DEF TypeInv, RegistryTypes
  <2> QED
    BY <2>1, <2>2, <2>3, <2>4 DEF TypeOK, HermesTypes, ProcessTypes, ObserverTypes
<1> QED
  BY <1>1, BindingsInductive, PTL

\* A lane is only ever bound to a session of its own profile, or to a run of
\* its own whose session the API left out.
THEOREM LanesBoundInProfile == Spec => []LaneBoundInProfile
<1>1. TypeInv /\ RequestInv /\ BindingInv => LaneBoundInProfile
  BY DEF BindingInv, LanesGood, Good, LaneBoundInProfile
<1> QED
  BY <1>1, BindingsInductive, PTL
-----------------------------------------------------------------------------
(* The profile of a live call is that of its runtime.                      *)

LEMMA SharedStays ==
  ASSUME NEW s, HermesKeeps, Shared(s)
  PROVE  Shared(s)'
BY DEF Shared, HermesKeeps

LEMMA RightStays ==
  ASSUME NEW p, NEW x \in Runtimes, HermesKeeps, RuntimesKeep, Right(p, x)
  PROVE  Right(p, x)'
<1>1. Opened(x) /\ opened'[x] = opened[x]
  BY DEF Right, RuntimesKeep
<1> PICK s : s = opened[x].session
  OBVIOUS
<1>2. Shared(s) => Shared(s)'
  BY SharedStays
<1>3. Opened(x)'
  BY <1>1 DEF Opened
<1>4. ASSUME replaced' = {}, x \notin guessed', ~Shared(s)' PROVE opened'[x].profile = p
  <2>1. replaced = {} /\ x \notin guessed /\ ~Shared(s)
    BY <1>2, <1>4 DEF HermesKeeps, RuntimesKeep
  <2> QED
    BY <1>1, <2>1 DEF Right
<1>5. s = opened'[x].session
  BY <1>1
<1> QED
  BY <1>3, <1>4, <1>5 DEF Right, Shared

LEMMA RightCallStays ==
  ASSUME NEW d \in WellCall, RightCall(d), HermesKeeps, RuntimesKeep
  PROVE  RightCall(d)'
<1>1. CASE d.pc \in {"bind", "remember"} /\ d.runtime # None
  <2>1. d.profile \in Profiles /\ d.runtime \in Runtimes
    BY <1>1 DEF WellCall, WellFilled, Call
  <2>2. Opened(d.runtime)
    BY <1>1, <2>1 DEF RightCall, Opened, Unopened
  <2> QED
    BY <1>1, <2>1, <2>2 DEF RightCall, RuntimesKeep
<1>2. CASE d.pc \in {"reserve", "prompt", "ack", "use"}
  <2>1. d.runtime \in Runtimes
    BY <1>2 DEF WellCall, WellFilled
  <2>2. Right(d.profile, d.runtime)'
    BY <1>2, <2>1, RightStays DEF RightCall
  <2> QED
    BY <1>2, <2>2 DEF RightCall
<1> QED
  BY <1>1, <1>2 DEF RightCall

LEMMA RightCallMoves ==
  ASSUME TypeInv, RuntimeInv, HermesKeeps, RuntimesKeep, NEW c \in Callers, NEW d,
         Becomes(c, d), RightCall(d)'
  PROVE  \A b \in Callers : RightCall(call[b])'
<1> SUFFICES ASSUME NEW b \in Callers PROVE RightCall(call[b])'
  OBVIOUS
<1>1. call' = [call EXCEPT ![c] = d] /\ call[b] \in WellCall
  BY DEF Becomes, TypeInv
<1> PICK e : e = call'[b]
  OBVIOUS
<1>2. RightCall(e)'
  <2>1. CASE b = c
    <3>1. e = d
      BY <1>1, <2>1 DEF TypeInv
    <3> QED
      BY <3>1
  <2>2. CASE b # c
    <3>1. e = call[b]
      BY <1>1, <2>2
    <3>2. RightCall(e)
      BY <3>1 DEF RuntimeInv
    <3> QED
      BY <1>1, <3>1, <3>2, RightCallStays
  <2> QED
    BY <2>1, <2>2
<1> QED
  BY <1>2 DEF RightCall

\* A call that knows no runtime yet, or has ended.
LEMMA RightCallFree ==
  ASSUME NEW d, d.pc = "idle" \/ d.runtime = None,
         d.pc \notin {"bind", "remember", "reserve", "prompt", "ack", "use"}
  PROVE  RightCall(d) /\ RightCall(d)'
BY DEF RightCall

LEMMA OpenedHomeStays ==
  ASSUME OpenedHome, HermesKeeps, opened' = opened
  PROVE  OpenedHome'
BY DEF OpenedHome, HermesKeeps, Opened

LEMMA RowsRightStay ==
  ASSUME TypeInv, RowsRight, HermesKeeps, RuntimesKeep, liveRow' = liveRow
  PROVE  RowsRight'
<1> SUFFICES ASSUME NEW v \in Prompts, Present(liveRow[v])
             PROVE  Right(liveRow[v].profile, liveRow[v].runtime)'
  BY DEF RowsRight, Present
<1> PICK p, x : p = liveRow[v].profile /\ x = liveRow[v].runtime
  OBVIOUS
<1>1. x \in Runtimes /\ Right(p, x)
  BY DEF TypeInv, RegistryTypes, LiveRow, RowsRight
<1>2. Right(p, x)'
  BY <1>1, RightStays
<1> QED
  BY <1>2 DEF Right, Shared, Opened

LEMMA ProcessRightStays ==
  ASSUME TypeInv, ProcessRight, RuntimesKeep, UNCHANGED process
  PROVE  ProcessRight'
<1>1. \A p \in Profiles, l \in Lanes : runtimes[p][l] # None => runtimes[p][l] \in Runtimes
  BY DEF TypeInv, ProcessTypes
<1> QED
  BY <1>1 DEF ProcessRight, RuntimesKeep, Opened, process

\* A step that writes none of Hermes, the live rows and what the process knows.
LEMMA QuietRight ==
  ASSUME TypeInv, RuntimeInv, HermesKeeps, RuntimesKeep,
         UNCHANGED <<home, opened, liveRow, process>>
  PROVE  OpenedHome' /\ RunsApart' /\ RowsRight' /\ ProcessRight'
<1>1. RunsApart'
  BY DEF RuntimeInv, RunsApart, HermesKeeps
<1> QED
  BY <1>1, OpenedHomeStays, RowsRightStay, ProcessRightStays DEF RuntimeInv

LEMMA BeginRight ==
  ASSUME TypeInv, RuntimeInv, NEW c \in Callers, NEW d, Begins(c, d), guessed \subseteq guessed',
         RightCall(d)'
  PROVE  RuntimeInv'
<1>1. UNCHANGED <<home, runs, opened, liveRow, process, replaced>> /\ Becomes(c, d)
  BY DEF Begins, hermes, registry
<1>2. HermesKeeps /\ RuntimesKeep
  BY <1>1 DEF HermesKeeps, RuntimesKeep
<1> QED
  BY <1>1, <1>2, QuietRight, RightCallMoves DEF RuntimeInv

LEMMA FreeBeginRight ==
  ASSUME TypeInv, RuntimeInv, NEW c \in Callers, NEW d, Begins(c, d), guessed' = guessed,
         d.runtime = None,
         d.pc \notin {"bind", "remember", "reserve", "prompt", "ack", "use"}
  PROVE  RuntimeInv'
BY BeginRight, RightCallFree

LEMMA GuessesGrow ==
  ASSUME NEW x, Guesses(x)
  PROVE  guessed \subseteq guessed'
BY DEF Guesses

\* What the bridge knows about a runtime it has not guessed about is true.
LEMMA RuntimeProfilesRight ==
  ASSUME TypeInv, BindingInv, RuntimeInv, NEW x \in Runtimes, replaced = {}, x \notin guessed,
         ~Shared(opened[x].session)
  PROVE  RuntimeProfiles(x) \subseteq {opened[x].profile}
<1>1. LiveRequestProfiles(x) \subseteq {opened[x].profile}
  BY DEF LiveRequestProfiles, RuntimeInv, RowsRight, Right
<1>2. ASSUME stored[x] # None, NEW p \in BindingProfiles(stored[x])
      PROVE  p = opened[x].profile
  <2>1. Opened(x) /\ opened[x].session = stored[x]
    BY <1>2 DEF RuntimeInv, ProcessRight
  <2>2. opened[x].profile \in Profiles /\ stored[x] \in home[opened[x].profile]
    BY <2>1 DEF RuntimeInv, OpenedHome
  <2>3. PICK l \in Lanes : p \in Profiles /\ binding[p][l] = stored[x]
    BY DEF BindingProfiles
  <2>4. stored[x] \in home[p] \cup {p} \X Requests
    BY <1>2, <2>3 DEF BindingInv, LanesGood, Good
  <2>5. CASE stored[x] \in home[p]
    BY <2>1, <2>2, <2>3, <2>5 DEF Shared
  <2>6. CASE stored[x] \in {p} \X Requests
    BY <2>2, <2>3, <2>6 DEF RuntimeInv, RunsApart
  <2> QED
    BY <2>4, <2>5, <2>6
<1> QED
  BY <1>1, <1>2 DEF RuntimeProfiles

\* A runtime supplied and not known under others, or the lane's own.
LEMMA RuntimeForRight ==
  ASSUME TypeInv, BindingInv, RuntimeInv, NEW p \in Profiles, NEW l \in Lanes,
         NEW supplied \in OrNone(Minted), Guesses(supplied), UNCHANGED <<home, opened, replaced>>,
         NEW x \in RuntimeFor(p, l, supplied)
  PROVE  Right(p, x)'
<1>1. CASE supplied = None
  <2>1. x = runtimes[p][l] /\ x # None
    BY <1>1 DEF RuntimeFor
  <2>2. Opened(x) /\ opened[x].profile = p
    BY <2>1 DEF RuntimeInv, ProcessRight
  <2> QED
    BY <2>2 DEF Right, Opened
<1>2. CASE supplied # None
  <2>1. /\ x = supplied /\ x \in Runtimes /\ Opened(x)
        /\ RuntimeProfiles(x) = {} \/ p \in RuntimeProfiles(x)
    BY <1>2 DEF RuntimeFor, Minted, Opened
  <2>2. RuntimeProfiles(x) = {} => x \in guessed'
    BY <1>2, <2>1 DEF Guesses
  <2>3. x \notin guessed' => x \notin guessed
    BY GuessesGrow
  <2>4. replaced = {} /\ x \notin guessed' /\ ~Shared(opened[x].session) => opened[x].profile = p
    BY <2>1, <2>2, <2>3, RuntimeProfilesRight
  <2> QED
    BY <2>1, <2>4 DEF Right, Opened, Shared
<1> QED
  BY <1>1, <1>2

LEMMA UsesRight ==
  ASSUME TypeInv, RuntimeInv, NEW c \in Callers, NEW p, NEW x, Begins(c, Uses(p, x)),
         guessed \subseteq guessed', Right(p, x)'
  PROVE  RuntimeInv'
<1> PICK d : d = Uses(p, x)
  OBVIOUS
<1>1. d.pc = "use" /\ d.profile = p /\ d.runtime = x
  BY DEF Uses, Idle
<1>2. RightCall(d)'
  BY <1>1 DEF RightCall
<1> QED
  BY <1>2, BeginRight

LEMMA PromptBeginsRight ==
  ASSUME TypeInv, BindingInv, RuntimeInv, NEW c \in Callers, NEW asked \in OrNone(Profiles),
         NEW v \in Prompts, NEW supplied \in OrNone(Minted), PromptBegins(c, asked, v, supplied)
  PROVE  RuntimeInv'
<1>1. PICK p \in ForPrompt(asked, v) :
        \E x \in RuntimeFor(p, LaneOf[v], supplied) :
          Begins(c, [Idle EXCEPT !.pc = "reserve", !.op = "prompt", !.profile = p,
                                 !.lane = LaneOf[v], !.req = v, !.runtime = x])
  BY DEF PromptBegins
<1>2. PICK x \in RuntimeFor(p, LaneOf[v], supplied) :
        Begins(c, [Idle EXCEPT !.pc = "reserve", !.op = "prompt", !.profile = p,
                               !.lane = LaneOf[v], !.req = v, !.runtime = x])
  BY <1>1
<1> PICK d : d = [Idle EXCEPT !.pc = "reserve", !.op = "prompt", !.profile = p,
                              !.lane = LaneOf[v], !.req = v, !.runtime = x]
  OBVIOUS
<1>3. d.pc = "reserve" /\ d.profile = p /\ d.runtime = x
  BY DEF Idle
<1>4. p \in Profiles /\ LaneOf[v] \in Lanes
  BY RulesKnown DEF TypeInv
<1>5. Guesses(supplied) /\ UNCHANGED <<home, opened, replaced>>
  BY <1>2 DEF PromptBegins, Begins, hermes
<1>6. Right(p, x)'
  BY <1>4, <1>5, RuntimeForRight
<1>7. RightCall(d)'
  BY <1>3, <1>6 DEF RightCall
<1> QED
  BY <1>2, <1>5, <1>7, GuessesGrow, BeginRight

LEMMA WaitBeginsRight ==
  ASSUME TypeInv, RuntimeInv, NEW c \in Callers, NEW asked \in OrNone(Profiles), NEW v \in Prompts,
         WaitBegins(c, asked, v)
  PROVE  RuntimeInv'
<1>1. PICK p \in Directed(asked, {liveRow[v].profile}) : Begins(c, Uses(p, liveRow[v].runtime))
  BY DEF WaitBegins
<1> PICK x : x = liveRow[v].runtime
  OBVIOUS
<1>2. Present(liveRow[v]) /\ guessed' = guessed
  BY DEF WaitBegins
<1>3. liveRow[v].profile \in Profiles
  BY <1>2 DEF TypeInv, RegistryTypes, LiveRow, Present
<1>4. p = liveRow[v].profile
  BY <1>3, DirectedKnown
<1>5. Right(p, x)
  BY <1>2, <1>4 DEF RuntimeInv, RowsRight
<1>6. UNCHANGED <<home, opened, replaced>>
  BY <1>1 DEF Begins, hermes
<1>7. Right(p, x)'
  BY <1>2, <1>5, <1>6 DEF Right, Opened, Shared
<1> QED
  BY <1>1, <1>2, <1>7, UsesRight

LEMMA RuntimeCallBeginsRight ==
  ASSUME TypeInv, BindingInv, RuntimeInv, NEW c \in Callers, NEW asked \in OrNone(Profiles),
         NEW x \in Minted, RuntimeCallBegins(c, asked, x)
  PROVE  RuntimeInv'
<1>1. PICK p \in Directed(asked, RuntimeProfiles(x)) : Begins(c, Uses(p, x))
  BY DEF RuntimeCallBegins
<1>2. Guesses(x) /\ UNCHANGED <<home, opened, replaced>>
  BY <1>1 DEF RuntimeCallBegins, Begins, hermes
<1>3. x \in Runtimes /\ Opened(x) /\ x # None
  BY DEF Minted, Opened, Sessions
<1>4. RuntimeProfiles(x) = {} => x \in guessed'
  BY <1>2, <1>3 DEF Guesses
<1>5. RuntimeProfiles(x) # {} => p \in RuntimeProfiles(x)
  BY Known, DirectedKnown DEF TypeInv
<1>6. guessed \subseteq guessed'
  BY <1>2, GuessesGrow
<1>7. replaced = {} /\ x \notin guessed' /\ ~Shared(opened[x].session) => opened[x].profile = p
  BY <1>3, <1>4, <1>5, <1>6, RuntimeProfilesRight
<1>8. Right(p, x)'
  BY <1>2, <1>3, <1>7 DEF Right, Opened, Shared
<1> QED
  BY <1>1, <1>6, <1>8, UsesRight

LEMMA LaneCallBeginsRight ==
  ASSUME TypeInv, BindingInv, RuntimeInv, NEW c \in Callers, NEW asked \in OrNone(Profiles),
         NEW l \in Lanes, NEW supplied \in OrNone(Minted), LaneCallBegins(c, asked, l, supplied)
  PROVE  RuntimeInv'
<1>1. PICK p \in ForLane(asked, l) : \E x \in RuntimeFor(p, l, supplied) : Begins(c, Uses(p, x))
  BY DEF LaneCallBegins
<1>2. PICK x \in RuntimeFor(p, l, supplied) : Begins(c, Uses(p, x))
  BY <1>1
<1>3. p \in Profiles
  BY RulesKnown DEF TypeInv
<1>4. Guesses(supplied) /\ UNCHANGED <<home, opened, replaced>>
  BY <1>2 DEF LaneCallBegins, Begins, hermes
<1>5. Right(p, x)'
  BY <1>3, <1>4, RuntimeForRight
<1> QED
  BY <1>2, <1>4, <1>5, GuessesGrow, UsesRight

LEMMA CallBeginsRight ==
  ASSUME TypeInv, BindingInv, RuntimeInv, NEW c \in Callers, CallBegins(c)
  PROVE  RuntimeInv'
<1>1. ASSUME NEW p, NEW l, Begins(c, Reopens(p, l)), guessed' = guessed PROVE RuntimeInv'
  BY <1>1, FreeBeginRight DEF Reopens, Idle
<1>2. CASE \E v \in Prompts : ReconcileBegins(c, v)
  BY <1>1, <1>2 DEF ReconcileBegins, Reopens
<1>3. CASE \E asked \in OrNone(Profiles) : CallFor(c, asked)
  <2>1. PICK asked \in OrNone(Profiles) : CallFor(c, asked)
    BY <1>3
  <2>2. CASE \E r \in Requests : StartBegins(c, asked, r)
    <3>1. PICK r \in Requests : StartBegins(c, asked, r)
      BY <2>2
    <3>2. PICK p : Begins(c, [Idle EXCEPT !.pc = IF Present(row[r]) THEN "submit" ELSE "save",
                                          !.op = "start", !.profile = p, !.lane = LaneOf[r],
                                          !.req = r, !.session = Target(p, LaneOf[r], SessionOf[r])])
      BY <3>1 DEF StartBegins
    <3> PICK d : d = [Idle EXCEPT !.pc = IF Present(row[r]) THEN "submit" ELSE "save",
                                  !.op = "start", !.profile = p, !.lane = LaneOf[r],
                                  !.req = r, !.session = Target(p, LaneOf[r], SessionOf[r])]
      OBVIOUS
    <3>3. d.pc \in {"submit", "save"} /\ d.runtime = None
      BY DEF Idle
    <3> QED
      BY <3>1, <3>2, <3>3, FreeBeginRight DEF StartBegins
  <2>3. CASE \E run \in Runs, op \in {"status", "run"} : RunCallBegins(c, asked, run, op)
    <3>1. PICK run \in Runs, op \in {"status", "run"} : RunCallBegins(c, asked, run, op)
      BY <2>3
    <3>2. PICK r, p : Begins(c, [Idle EXCEPT !.pc = "ask", !.op = op, !.profile = p, !.run = run,
                                             !.req = r,
                                             !.lane = IF r = None THEN None ELSE LaneOf[r],
                                             !.session = IF r = None THEN None ELSE row[r].session])
      BY <3>1 DEF RunCallBegins
    <3> PICK d : d = [Idle EXCEPT !.pc = "ask", !.op = op, !.profile = p, !.run = run, !.req = r,
                                  !.lane = IF r = None THEN None ELSE LaneOf[r],
                                  !.session = IF r = None THEN None ELSE row[r].session]
      OBVIOUS
    <3>3. d.pc = "ask" /\ d.runtime = None
      BY DEF Idle
    <3> QED
      BY <3>1, <3>2, <3>3, FreeBeginRight DEF RunCallBegins
  <2>4. CASE \E l \in Lanes, s \in OrNone(Named) : OpenBegins(c, asked, l, s)
    BY <2>4, FreeBeginRight DEF OpenBegins, Idle
  <2>5. CASE \E v \in Prompts, x \in OrNone(Minted) : PromptBegins(c, asked, v, x)
    BY <2>5, PromptBeginsRight
  <2>6. CASE \E v \in Prompts : WaitBegins(c, asked, v)
    BY <2>6, WaitBeginsRight
  <2>7. CASE \E x \in Minted : RuntimeCallBegins(c, asked, x)
    BY <2>7, RuntimeCallBeginsRight
  <2>8. CASE \E l \in Lanes, x \in OrNone(Minted) : LaneCallBegins(c, asked, l, x)
    BY <2>8, LaneCallBeginsRight
  <2>9. CASE \E l \in Lanes : LaneCallReopens(c, asked, l)
    BY <1>1, <2>9 DEF LaneCallReopens, Reopens
  <2> QED
    BY <2>1, <2>2, <2>3, <2>4, <2>5, <2>6, <2>7, <2>8, <2>9 DEF CallFor
<1> QED
  BY <1>2, <1>3 DEF CallBegins
LEMMA QuietCallRight ==
  ASSUME TypeInv, RuntimeInv, UNCHANGED <<home, runs, opened, liveRow, process, replaced, guessed>>,
         NEW c \in Callers, NEW d, Becomes(c, d), RightCall(d)
  PROVE  RuntimeInv'
<1>1. HermesKeeps /\ RuntimesKeep
  BY DEF HermesKeeps, RuntimesKeep
<1>2. RightCall(d)'
  BY DEF RightCall, Right, Opened, Shared
<1> QED
  BY <1>1, <1>2, QuietRight, RightCallMoves DEF RuntimeInv

\* Admission, recording, binding and asking: no runtime is learned.
LEMMA DurableStepRight ==
  ASSUME TypeInv, RuntimeInv, NEW c \in Callers,
         StartSave(c) \/ StartRecord(c) \/ Bind(c) \/ RunAnswers(c) \/ RemoteEnds(c)
  PROVE  RuntimeInv'
<1> DEFINE d == call[c]
<1>1. d \in Call /\ RightCall(d)
  BY FieldTypes DEF RuntimeInv, WellCall
<1>2. UNCHANGED <<home, runs, opened, liveRow, process, guessed>> /\ replaced \subseteq replaced'
  BY DEF StartSave, StartRecord, Bind, RunAnswers, RemoteEnds, hermes, registry, observers
<1>3. HermesKeeps /\ RuntimesKeep
  BY <1>2 DEF HermesKeeps, RuntimesKeep
<1>4. \E e : Becomes(c, e) /\ RightCall(e)'
  <2>1. CASE StartSave(c)
    <3> PICK e : e = [d EXCEPT !.pc = "submit"]
      OBVIOUS
    <3>1. e.pc = "submit" /\ e.runtime = d.runtime /\ Becomes(c, e)
      BY <1>1, <2>1 DEF StartSave, Call
    <3>2. d.runtime = None
      BY <1>1, <2>1 DEF StartSave, At, RightCall
    <3> QED
      BY <3>1, <3>2 DEF RightCall
  <2>2. CASE StartRecord(c)
    <3> PICK e : e = [d EXCEPT !.pc = "bind"]
      OBVIOUS
    <3>1. e.pc = "bind" /\ e.runtime = d.runtime /\ Becomes(c, e)
      BY <1>1, <2>2 DEF StartRecord, Call
    <3>2. d.runtime = None
      BY <1>1, <2>2 DEF StartRecord, At, RightCall
    <3> QED
      BY <3>1, <3>2 DEF RightCall
  <2>3. CASE Bind(c)
    <3> PICK e : e = IF d.runtime = None THEN Idle ELSE [d EXCEPT !.pc = "remember"]
      OBVIOUS
    <3>1. Becomes(c, e)
      BY <2>3 DEF Bind
    <3>2. \/ e = Idle
          \/ /\ e.pc = "remember" /\ e.runtime = d.runtime /\ d.runtime # None
             /\ e.profile = d.profile /\ e.session = d.session
      BY <1>1 DEF Call
    <3>3. CASE e = Idle
      BY <3>1, <3>3, IdleMoves, RightCallFree
    <3>4. CASE e # Idle
      <4>1. opened[e.runtime] = [profile |-> e.profile, session |-> e.session]
        BY <1>1, <2>3, <3>2, <3>4 DEF Bind, At, RightCall
      <4> QED
        BY <1>2, <3>1, <3>2, <3>4, <4>1 DEF RightCall
    <3> QED
      BY <3>3, <3>4
  <2>4. CASE RunAnswers(c)
    <3>1. CASE Becomes(c, Idle)
      BY <3>1, IdleMoves, RightCallFree
    <3>2. CASE \E s : Becomes(c, [d EXCEPT !.pc = "bind", !.session = s])
      <4>1. PICK s : Becomes(c, [d EXCEPT !.pc = "bind", !.session = s])
        BY <3>2
      <4> PICK e : e = [d EXCEPT !.pc = "bind", !.session = s]
        OBVIOUS
      <4>2. e.pc = "bind" /\ e.runtime = d.runtime
        BY <1>1 DEF Call
      <4>3. d.runtime = None
        BY <1>1, <2>4 DEF RunAnswers, At, RightCall
      <4> QED
        BY <4>1, <4>2, <4>3 DEF RightCall
    <3> QED
      BY <2>4, <3>1, <3>2 DEF RunAnswers
  <2>5. CASE RemoteEnds(c)
    BY <2>5, IdleMoves, RightCallFree DEF RemoteEnds
  <2> QED
    BY <2>1, <2>2, <2>3, <2>4, <2>5
<1> QED
  BY <1>2, <1>3, <1>4, QuietRight, RightCallMoves DEF RuntimeInv

\* A session joins the profile it was made in, or is that of its run.
LEMMA StartSubmitRight ==
  ASSUME TypeInv, BindingInv, RuntimeInv, NEW c \in Callers, StartSubmit(c)
  PROVE  RuntimeInv'
<1> DEFINE d == call[c]
           run == <<d.profile, d.req>>
           made == IF runs[run] # None THEN runs[run]
                   ELSE IF d.session = None THEN run ELSE d.session
<1>1. /\ d \in WellCall /\ d.pc = "submit" /\ d.profile \in Profiles /\ d.req \in Requests
      /\ GoodCall(d) /\ d.runtime = None
  BY FieldTypes DEF StartSubmit, At, WellCall, WellFilled, BindingInv, RuntimeInv, RightCall
<1>2. run \in Runs /\ run[1] = d.profile
  BY <1>1 DEF Runs
<1>3. /\ runs' = [runs EXCEPT ![run] = made]
      /\ home' = [home EXCEPT ![d.profile] = @ \cup {made}]
      /\ UNCHANGED <<opened, liveRow, process, replaced, guessed>>
  BY DEF StartSubmit, registry
<1>4. runs[run] # None => made = runs[run]
  OBVIOUS
<1>5. replaced = {} => made \in Named \cup home[d.profile] \cup {d.profile} \X Requests
  <2>1. runs[run] # None => runs[run] \in home[d.profile]
    BY <1>2 DEF BindingInv, RunsHome
  <2>2. run \in {d.profile} \X Requests
    BY <1>1
  <2>3. replaced = {} /\ d.session # None
          => d.session \in Named \cup home[d.profile] \cup {d.profile} \X Requests
    BY <1>1 DEF GoodCall, Good
  <2> QED
    BY <2>1, <2>2, <2>3
<1>6. \E e : Becomes(c, e) /\ RightCall(e)'
  <2>1. CASE Becomes(c, Idle)
    BY <2>1, IdleMoves, RightCallFree
  <2>2. CASE \E s : Becomes(c, [d EXCEPT !.pc = "record", !.run = run, !.session = s])
    <3>1. PICK s : Becomes(c, [d EXCEPT !.pc = "record", !.run = run, !.session = s])
      BY <2>2
    <3> PICK e : e = [d EXCEPT !.pc = "record", !.run = run, !.session = s]
      OBVIOUS
    <3>2. e.pc = "record" /\ e.runtime = d.runtime
      BY <1>1 DEF WellCall, Call
    <3> QED
      BY <1>1, <3>1, <3>2 DEF RightCall
  <2> QED
    BY <2>1, <2>2 DEF StartSubmit
<1> HIDE DEF d, run, made
<1>7. /\ home'[d.profile] = home[d.profile] \cup {made}
      /\ \A p \in Profiles : p # d.profile => home'[p] = home[p]
      /\ \A n \in Runs : n # run => runs'[n] = runs[n]
      /\ runs'[run] = made
  BY <1>1, <1>2, <1>3 DEF TypeInv, HermesTypes
<1>8. HermesKeeps /\ RuntimesKeep
  BY <1>3, <1>4, <1>7 DEF HermesKeeps, RuntimesKeep
<1>9. RunsApart'
  <2>1. ASSUME replaced = {}, NEW p \in Profiles, NEW q \in Profiles, p # q
        PROVE  home'[p] \cap ({q} \X Requests) = {}
    <3>1. home[p] \cap ({q} \X Requests) = {}
      BY <2>1 DEF RuntimeInv, RunsApart
    <3>2. CASE p = d.profile
      <4>1. Named \cap ({q} \X Requests) = {}
        BY <2>1, SessionAssumption DEF Runs
      <4>2. ({p} \X Requests) \cap ({q} \X Requests) = {}
        BY <2>1
      <4>3. made \notin {q} \X Requests
        BY <1>5, <2>1, <3>1, <3>2, <4>1, <4>2
      <4> QED
        BY <1>7, <3>1, <3>2, <4>3
    <3>3. CASE p # d.profile
      BY <1>7, <2>1, <3>1, <3>3
    <3> QED
      BY <3>2, <3>3
  <2> QED
    BY <1>3, <2>1 DEF RunsApart
<1>10. OpenedHome' /\ RowsRight' /\ ProcessRight'
  BY <1>3, <1>8, OpenedHomeStays, RowsRightStay, ProcessRightStays DEF RuntimeInv
<1> QED
  BY <1>6, <1>8, <1>9, <1>10, RightCallMoves DEF RuntimeInv

LEMMA AttachRight ==
  ASSUME TypeInv, BindingInv, RuntimeInv, NEW c \in Callers, Attach(c)
  PROVE  RuntimeInv'
<1> DEFINE d == call[c]
<1>1. /\ d \in WellCall /\ d.pc = "attach" /\ d.profile \in Profiles
      /\ d.session \in OrNone(home[d.profile])
  BY FieldTypes DEF Attach, At, WellCall, WellFilled
<1>2. \E x \in Runtimes, s \in Sessions :
        /\ opened[x] = Unopened \/ opened[x] = [profile |-> d.profile, session |-> s]
        /\ opened' = [opened EXCEPT ![x] = [profile |-> d.profile, session |-> s]]
        /\ home' = [home EXCEPT ![d.profile] = @ \cup {s}]
        /\ Becomes(c, [d EXCEPT !.pc = "bind", !.session = s, !.runtime = x])
        /\ s \in home[d.profile] \cup Runtimes
  <2>1. \A x \in Runtimes : (IF d.session = None THEN x ELSE d.session) \in Sessions
    BY <1>1 DEF WellCall, Call, Sessions
  <2>2. \A x \in Runtimes : (IF d.session = None THEN x ELSE d.session) \in home[d.profile] \cup Runtimes
    BY <1>1
  <2> QED
    BY <2>1, <2>2 DEF Attach
<1>3. PICK x \in Runtimes, s \in Sessions :
        /\ opened[x] = Unopened \/ opened[x] = [profile |-> d.profile, session |-> s]
        /\ opened' = [opened EXCEPT ![x] = [profile |-> d.profile, session |-> s]]
        /\ home' = [home EXCEPT ![d.profile] = @ \cup {s}]
        /\ Becomes(c, [d EXCEPT !.pc = "bind", !.session = s, !.runtime = x])
        /\ s \in home[d.profile] \cup Runtimes
  BY <1>2
<1> PICK e : e = [d EXCEPT !.pc = "bind", !.session = s, !.runtime = x]
  OBVIOUS
<1>4. e.pc = "bind" /\ e.profile = d.profile /\ e.session = s /\ e.runtime = x
  BY <1>1 DEF WellCall, Call
<1> PICK this : this = [profile |-> d.profile, session |-> s]
  OBVIOUS
<1>5. this # Unopened /\ this.profile = d.profile /\ this.session = s
  BY <1>1 DEF Unopened
<1>6. UNCHANGED <<runs, liveRow, process, replaced, guessed>>
  BY DEF Attach, registry, observers
<1> HIDE DEF d
<1>7. /\ opened'[x] = this /\ \A y \in Runtimes : y # x => opened'[y] = opened[y]
      /\ home'[d.profile] = home[d.profile] \cup {s}
      /\ \A p \in Profiles : p # d.profile => home'[p] = home[p]
  BY <1>1, <1>3 DEF TypeInv, HermesTypes
<1>8. HermesKeeps /\ RuntimesKeep
  BY <1>3, <1>6, <1>7 DEF HermesKeeps, RuntimesKeep, Opened
<1>9. RightCall(e)'
  BY <1>4, <1>7 DEF RightCall
<1>10. OpenedHome'
  <2>1. ASSUME NEW y \in Runtimes, opened'[y] # Unopened
        PROVE  opened'[y].profile \in Profiles /\ opened'[y].session \in home'[opened'[y].profile]
    <3>1. CASE y = x
      BY <1>1, <1>5, <1>7, <3>1
    <3>2. CASE y # x
      BY <1>7, <1>8, <2>1, <3>2 DEF RuntimeInv, OpenedHome, Opened, HermesKeeps
    <3> QED
      BY <3>1, <3>2
  <2> QED
    BY <2>1 DEF OpenedHome, Opened
<1>11. RunsApart'
  <2>1. ASSUME replaced = {}, NEW p \in Profiles, NEW q \in Profiles, p # q
        PROVE  home'[p] \cap ({q} \X Requests) = {}
    <3>1. home[p] \cap ({q} \X Requests) = {}
      BY <2>1 DEF RuntimeInv, RunsApart
    <3>2. Runtimes \cap ({q} \X Requests) = {}
      BY SessionAssumption DEF Runs
    <3> QED
      BY <1>3, <1>7, <3>1, <3>2
  <2> QED
    BY <1>6, <2>1 DEF RunsApart
<1>12. RowsRight' /\ ProcessRight'
  BY <1>6, <1>8, RowsRightStay, ProcessRightStays DEF RuntimeInv
<1> QED
  BY <1>3, <1>8, <1>9, <1>10, <1>11, <1>12, RightCallMoves DEF RuntimeInv

LEMMA RememberRight ==
  ASSUME TypeInv, RuntimeInv, NEW c \in Callers, Remember(c)
  PROVE  RuntimeInv'
<1> DEFINE d == call[c]
<1>1. /\ d \in WellCall /\ d.pc = "remember" /\ d.profile \in Profiles /\ d.lane \in Lanes
      /\ d.runtime \in Runtimes /\ d.runtime # None
      /\ opened[d.runtime] = [profile |-> d.profile, session |-> d.session]
  BY FieldTypes DEF Remember, At, WellCall, WellFilled, RuntimeInv, RightCall, Sessions
<1>2. /\ Opened(d.runtime) /\ opened[d.runtime].profile = d.profile
      /\ opened[d.runtime].session = d.session
  BY <1>1 DEF Opened, Unopened
<1>3. Right(d.profile, d.runtime)
  BY <1>2 DEF Right
<1>4. /\ runtimes' = [runtimes EXCEPT ![d.profile][d.lane] = d.runtime]
      /\ stored' = [stored EXCEPT ![d.runtime] = d.session]
      /\ liveRow' = Rotated(d.profile, d.lane, d.runtime)
      /\ UNCHANGED <<home, runs, opened, replaced, guessed>>
  BY DEF Remember, hermes, observers
<1> PICK e : e = IF d.op = "reopen" THEN [d EXCEPT !.pc = "use"] ELSE Idle
  OBVIOUS
<1>5. Becomes(c, e)
  BY DEF Remember
<1>6. e = Idle \/ (e.pc = "use" /\ e.profile = d.profile /\ e.runtime = d.runtime)
  BY <1>1 DEF WellCall, Call
<1> HIDE DEF d
<1>7. HermesKeeps /\ RuntimesKeep
  BY <1>4 DEF HermesKeeps, RuntimesKeep
<1>8. RightCall(e)'
  <2>1. CASE e = Idle
    BY <2>1, IdleMoves, RightCallFree
  <2>2. CASE e # Idle
    <3>1. Right(e.profile, e.runtime)
      BY <1>3, <1>6, <2>2
    <3>2. Right(e.profile, e.runtime)'
      BY <1>4, <3>1 DEF Right, Opened, Shared
    <3> QED
      BY <1>6, <2>2, <3>2 DEF RightCall
  <2> QED
    BY <2>1, <2>2
<1>9. RowsRight'
  <2>1. ASSUME NEW v \in Prompts, Present(liveRow'[v])
        PROVE  Right(liveRow'[v].profile, liveRow'[v].runtime)
    <3> DEFINE new == [liveRow[v] EXCEPT !.runtime = d.runtime]
    <3>1. liveRow'[v] = IF liveRow[v].profile = d.profile /\ LaneOf[v] = d.lane
                          THEN new ELSE liveRow[v]
      BY <1>4 DEF Rotated
    <3>2. new.profile = liveRow[v].profile /\ new.runtime = d.runtime
      BY DEF TypeInv, RegistryTypes, LiveRow
    <3> HIDE DEF new
    <3>3. CASE liveRow[v].profile = d.profile /\ LaneOf[v] = d.lane
      BY <1>3, <3>1, <3>2, <3>3
    <3>4. CASE ~(liveRow[v].profile = d.profile /\ LaneOf[v] = d.lane)
      BY <2>1, <3>1, <3>4 DEF RuntimeInv, RowsRight
    <3> QED
      BY <3>3, <3>4
  <2> QED
    BY <1>4, <2>1 DEF RowsRight, Right, Opened, Shared, Present
<1>10. ProcessRight'
  <2>1. ASSUME NEW p \in Profiles, NEW l \in Lanes, runtimes'[p][l] # None
        PROVE  Opened(runtimes'[p][l]) /\ opened[runtimes'[p][l]].profile = p
    <3>1. runtimes'[p][l] = IF p = d.profile /\ l = d.lane THEN d.runtime ELSE runtimes[p][l]
      BY <1>1, <1>4 DEF TypeInv, ProcessTypes
    <3> QED
      BY <1>2, <2>1, <3>1 DEF RuntimeInv, ProcessRight
  <2>2. ASSUME NEW x \in Runtimes, stored'[x] # None
        PROVE  Opened(x) /\ opened[x].session = stored'[x]
    <3>1. stored'[x] = IF x = d.runtime THEN d.session ELSE stored[x]
      BY <1>1, <1>4 DEF TypeInv, ProcessTypes
    <3> QED
      BY <1>2, <2>2, <3>1 DEF RuntimeInv, ProcessRight
  <2> QED
    BY <1>4, <2>1, <2>2 DEF ProcessRight, Opened
<1>11. OpenedHome' /\ RunsApart'
  BY <1>4 DEF RuntimeInv, OpenedHome, RunsApart, Opened
<1> QED
  BY <1>5, <1>7, <1>8, <1>9, <1>10, <1>11, RightCallMoves DEF RuntimeInv

\* Only a row of live_requests, and the call.
LEMMA LiveRowRight ==
  ASSUME TypeInv, RuntimeInv, UNCHANGED <<home, runs, opened, process, replaced, guessed>>,
         NEW v \in Prompts, NEW new \in LiveRow, liveRow' = [liveRow EXCEPT ![v] = new],
         Present(new) => Right(new.profile, new.runtime),
         NEW c \in Callers, NEW d, Becomes(c, d), RightCall(d)
  PROVE  RuntimeInv'
<1>1. HermesKeeps /\ RuntimesKeep
  BY DEF HermesKeeps, RuntimesKeep
<1>2. RightCall(d)'
  BY DEF RightCall, Right, Opened, Shared
<1>3. RowsRight'
  <2>1. ASSUME NEW w \in Prompts, Present(liveRow'[w])
        PROVE  Right(liveRow'[w].profile, liveRow'[w].runtime)
    <3>1. liveRow'[w] = IF w = v THEN new ELSE liveRow[w]
      BY DEF TypeInv, RegistryTypes
    <3> QED
      BY <2>1, <3>1 DEF RuntimeInv, RowsRight
  <2> QED
    BY <2>1 DEF RowsRight, Right, Opened, Shared, Present
<1>4. OpenedHome' /\ RunsApart' /\ ProcessRight'
  BY <1>1, OpenedHomeStays, ProcessRightStays DEF RuntimeInv, RunsApart
<1> QED
  BY <1>1, <1>2, <1>3, <1>4, RightCallMoves DEF RuntimeInv

LEMMA PromptRight ==
  ASSUME TypeInv, RequestInv, RuntimeInv, NEW c \in Callers,
         PromptReserve(c) \/ PromptSubmit(c) \/ PromptAck(c)
  PROVE  RuntimeInv'
<1> DEFINE d == call[c]
<1>1. /\ d \in WellCall /\ d.pc \in {"reserve", "prompt", "ack"} /\ d.profile \in Profiles
      /\ d.req \in Prompts /\ d.runtime \in Runtimes /\ Right(d.profile, d.runtime)
  BY FieldTypes DEF PromptReserve, PromptSubmit, PromptAck, At, WellCall, WellFilled, RuntimeInv,
                    RightCall
<1>2. UNCHANGED <<home, runs, opened, process, replaced, guessed>>
  BY DEF PromptReserve, PromptSubmit, PromptAck, hermes, observers
<1>3. ASSUME NEW pc \in {"prompt", "ack"}
      PROVE  RightCall([d EXCEPT !.pc = pc])
  <2> PICK e : e = [d EXCEPT !.pc = pc]
    OBVIOUS
  <2>1. e.pc = pc /\ e.profile = d.profile /\ e.runtime = d.runtime
    BY <1>1 DEF WellCall, Call
  <2> QED
    BY <1>1, <2>1 DEF RightCall
<1>4. RightCall(Idle)
  BY IdleMoves, RightCallFree
<1>5. CASE PromptReserve(c)
  <2>1. CASE Present(liveRow[d.req])
    BY <1>2, <1>4, <1>5, <2>1, QuietCallRight DEF PromptReserve
  <2>2. CASE ~Present(liveRow[d.req])
    <3> PICK new : new = [profile |-> d.profile, runtime |-> d.runtime]
      OBVIOUS
    <3>1. new \in LiveRow /\ Right(new.profile, new.runtime)
      BY <1>1 DEF LiveRow
    <3>2. liveRow' = [liveRow EXCEPT ![d.req] = new] /\ Becomes(c, [d EXCEPT !.pc = "prompt"])
      BY <1>5, <2>2 DEF PromptReserve
    <3> QED
      BY <1>1, <1>2, <1>3, <3>1, <3>2, LiveRowRight
  <2> QED
    BY <2>1, <2>2
<1>6. CASE PromptSubmit(c)
  <2>1. liveRow' = liveRow /\ (Becomes(c, Idle) \/ Becomes(c, [d EXCEPT !.pc = "ack"]))
    BY <1>6 DEF PromptSubmit, registry
  <2> QED
    BY <1>2, <1>3, <1>4, <2>1, QuietCallRight
<1>7. CASE PromptAck(c)
  <2> PICK new : new = [liveRow[d.req] EXCEPT !.runtime = d.runtime]
    OBVIOUS
  <2>1. liveRow[d.req] \in LiveRow /\ d.pc = "ack"
    BY <1>1, <1>7 DEF TypeInv, RegistryTypes, PromptAck, At
  <2>2. liveRow[d.req].profile = d.profile
    BY <2>1 DEF RequestInv, OwnCall
  <2>3. new \in LiveRow /\ new.profile = d.profile /\ new.runtime = d.runtime
    BY <1>1, <2>1, <2>2 DEF LiveRow, Present
  <2>4. liveRow' = [liveRow EXCEPT ![d.req] = new] /\ Becomes(c, Idle)
    BY <1>7 DEF PromptAck
  <2> QED
    BY <1>1, <1>2, <1>4, <2>3, <2>4, LiveRowRight
<1> QED
  BY <1>5, <1>6, <1>7

LEMMA InitRuntimeInv == Init => RuntimeInv
<1> SUFFICES ASSUME Init PROVE RuntimeInv
  OBVIOUS
<1>1. \A c \in Callers : RightCall(call[c])
  BY IdleMoves, RightCallFree DEF Init
<1>2. OpenedHome
  BY DEF Init, OpenedHome, Opened
<1>3. RunsApart
  BY SessionAssumption DEF Init, RunsApart, Runs
<1>4. RowsRight /\ ProcessRight
  BY DEF Init, RowsRight, ProcessRight, Present, AbsentLiveRow
<1> QED
  BY <1>1, <1>2, <1>3, <1>4 DEF RuntimeInv

LEMMA NextRuntimeInv ==
  ASSUME TypeInv, RequestInv, BindingInv, RuntimeInv, [Next]_vars
  PROVE  RuntimeInv'
<1>1. CASE \E c \in Callers : CallBegins(c)
  BY <1>1, CallBeginsRight
<1>2. CASE \E c \in Callers : Durable(c)
  BY <1>2, DurableStepRight, StartSubmitRight DEF Durable
<1>3. CASE \E c \in Callers : Live(c)
  BY <1>3, AttachRight, RememberRight, PromptRight DEF Live
<1>4. CASE \E c \in Callers : RemoteEnds(c)
  BY <1>4, DurableStepRight
<1>5. ASSUME UNCHANGED <<home, opened, liveRow, process, replaced, guessed, call>>
      PROVE  RuntimeInv'
  BY <1>5 DEF RuntimeInv, RightCall, OpenedHome, RunsApart, RowsRight, ProcessRight, Right, Opened,
              Shared, Present, process
<1>6. CASE GatewayRestarts
  BY <1>5, <1>6 DEF GatewayRestarts, registry, observers
<1>7. CASE Crash
  <2>1. UNCHANGED <<home, opened, liveRow, replaced, guessed>>
    BY <1>7 DEF Crash, hermes, registry, observers
  <2>2. \A c \in Callers : RightCall(call[c])'
    BY <1>7, IdleMoves DEF Crash, RightCall
  <2>3. ProcessRight'
    BY <1>7 DEF Crash, ProcessRight
  <2> QED
    BY <2>1, <2>2, <2>3 DEF RuntimeInv, OpenedHome, RunsApart, RowsRight, Right, Opened, Shared,
                            Present
<1>8. CASE UNCHANGED vars
  BY <1>5, <1>8 DEF vars, hermes, registry, observers
<1> QED
  BY <1>1, <1>2, <1>3, <1>4, <1>6, <1>7, <1>8 DEF Next

\* A live call goes out under the profile its runtime was opened in.
THEOREM LiveCallsStayInProfile == Spec => []LiveStaysInProfile
<1> DEFINE Inv == TypeInv /\ RequestInv /\ BindingInv /\ RuntimeInv
<1>1. Init => Inv
  BY InitTypeInv, InitRequestInv, InitBindingInv, InitRuntimeInv
<1>2. Inv /\ [Next]_vars => Inv'
  BY NextTypeInv, NextRequestInv, NextBindingInv, NextRuntimeInv
<1>3. Inv => LiveStaysInProfile
  BY DEF RuntimeInv, RightCall, Right, LiveStaysInProfile
<1> QED
  BY <1>1, <1>2, <1>3, PTL DEF Spec
=============================================================================
