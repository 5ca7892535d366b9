--------------------------- MODULE DurableRunProofs ---------------------------
(***************************************************************************)
(* Theorems about DurableRun, for any requests, keys, payloads, lanes and  *)
(* callers and any number of starts and restarts.                          *)
(*                                                                         *)
(* Predicates about calls and rows take the tables as arguments, so that   *)
(* one definition serves the state before a step and the one after it.     *)
(***************************************************************************)
EXTENDS DurableRun, TLAPS

-----------------------------------------------------------------------------
(* Types.                                                                  *)

\* A row that exists is complete, and the run it names exists.
RowWhole(record, runs) ==
  /\ record.status = "absent" => record.run = NoRun
  /\ Present(record) => record.key \in Keys /\ record.payload \in Payloads
  /\ record.run # NoRun => runs[record.run].status # "none"

\* What the place a call has reached says of its other fields.
CallWhole(d, rows, runs) ==
  /\ d.pc \in {"key", "lane", "save", "submit", "record", "fail"} \/ d.op = "retry" =>
       d.req \in Requests /\ d.key \in Keys /\ d.payload \in Payloads
  /\ d.pc \in {"submit", "record", "fail"} \/ d.op = "retry" => Present(rows[d.req])
  /\ d.pc \in {"key", "lane"} /\ Present(d.existing) => Present(rows[d.req])
  /\ d.pc \in {"key", "lane", "save", "submit", "record", "store", "bind"} => d.lane \in Lanes
  /\ d.pc = "ask" /\ d.rec # NoRequest => d.lane \in Lanes
  /\ d.pc \in {"key", "lane", "resolve"} => d.rec = NoRequest
  /\ d.pc \in {"store", "mark"} => d.rec # NoRequest
  /\ d.rec # NoRequest => Present(rows[d.rec])
  /\ d.pc \in {"resolve", "ask"} => d.run \in Keys /\ runs[d.run].status # "none"
  /\ d.pc = "record" => d.run \in Keys /\ runs[d.run].status # "none"
  /\ d.pc \in {"record", "store", "bind"} => d.reply # NoSession
  /\ RowWhole(d.existing, runs)

RunWhole(run) == run.status # "none" => run.session # NoSession

TypeInv ==
  /\ api \in [Keys -> ApiRun]
  /\ row \in [Requests -> Row]
  /\ binding \in [Lanes -> AnySession \cup {NoSession}]
  /\ call \in [Callers -> Call]
  /\ starts \in Nat
  /\ crashes \in Nat
  /\ sent \in [Requests -> SUBSET Keys]
  /\ replaced \in SUBSET Requests
  /\ \A k \in Keys : RunWhole(api[k])
  /\ \A r \in Requests : RowWhole(row[r], api)
  /\ \A c \in Callers : CallWhole(call[c], row, api)

LEMMA TypeInvImpliesTypeOK == TypeInv => TypeOK
BY DEF TypeInv, TypeOK, CallWhole

LEMMA StartValues ==
  /\ AbsentRow \in Row
  /\ NoApiRun \in ApiRun
  /\ IdleCall \in Call
  /\ \A rows, runs : CallWhole(IdleCall, rows, runs)
<1>1. AbsentRow \in Row
  BY DEF AbsentRow, Row
<1>2. NoApiRun \in ApiRun
  BY DEF NoApiRun, ApiRun
<1>3. IdleCall \in Call
  BY <1>1 DEF IdleCall, Call, CallPc, Words
<1>4. \A rows, runs : CallWhole(IdleCall, rows, runs)
  BY DEF IdleCall, CallWhole, RowWhole, Present, AbsentRow
<1> QED
  BY <1>1, <1>2, <1>3, <1>4

LEMMA InitTypeInv == Init => TypeInv
<1> SUFFICES ASSUME Init PROVE TypeInv
  OBVIOUS
<1>1. \A k \in Keys : RunWhole(api[k])
  BY DEF Init, RunWhole, NoApiRun
<1>2. \A r \in Requests : RowWhole(row[r], api)
  BY DEF Init, RowWhole, AbsentRow, Present
<1> QED
  BY <1>1, <1>2, StartValues DEF Init, TypeInv

\* Rows and runs, once there, stay.
RowsKept == \A r \in Requests : Present(row[r]) => Present(row'[r])

RunsKept == \A k \in Keys : api[k].status # "none" => api'[k].status # "none"

\* A row keeps its wholeness when runs only come into being.
LEMMA RowWholeKept ==
  ASSUME TypeInv, RunsKept, NEW record \in Row, RowWhole(record, api)
  PROVE  RowWhole(record, api')
BY DEF RowWhole, RunsKept, Row

\* So does a call that does not move.
LEMMA CallWholeKept ==
  ASSUME TypeInv, RunsKept, RowsKept, NEW d \in Call, CallWhole(d, row, api)
  PROVE  CallWhole(d, row', api')
<1>1. RowWhole(d.existing, api')
  BY RowWholeKept DEF CallWhole, Call
<1>2. d.req \in Requests \cup {NoRequest} /\ d.rec \in Requests \cup {NoRequest}
  BY DEF Call
<1> QED
  BY <1>1, <1>2 DEF CallWhole, RowsKept, RunsKept

\* A step of one call.
LEMMA CallMoves ==
  ASSUME TypeInv, RunsKept, RowsKept, NEW c \in Callers, NEW next \in Call,
         Becomes(c, next), CallWhole(next, row', api')
  PROVE  /\ call' \in [Callers -> Call]
         /\ \A e \in Callers : CallWhole(call'[e], row', api')
<1>1. call' \in [Callers -> Call]
  BY DEF TypeInv, Becomes
<1>2. ASSUME NEW e \in Callers PROVE CallWhole(call'[e], row', api')
  <2>1. CASE e = c
    BY <2>1 DEF TypeInv, Becomes
  <2>2. CASE e # c
    <3>1. call'[e] = call[e] /\ call[e] \in Call /\ CallWhole(call[e], row, api)
      BY <2>2 DEF TypeInv, Becomes
    <3> QED
      BY <3>1, CallWholeKept
  <2> QED
    BY <2>1, <2>2
<1> QED
  BY <1>1, <1>2

\* One that only reads.
LEMMA ReadMoves ==
  ASSUME TypeInv, NEW c \in Callers, NEW next \in Call,
         Moves(c, next), CallWhole(next, row, api)
  PROVE  TypeInv'
<1>1. row' = row /\ api' = api /\ UNCHANGED <<Registry, External, Budget>> /\ Becomes(c, next)
  BY DEF Moves, Registry, External
<1>2. RunsKept /\ RowsKept
  BY <1>1 DEF RunsKept, RowsKept
<1>3. CallWhole(next, row', api')
  BY <1>1
<1> QED
  BY <1>1, <1>2, <1>3, CallMoves DEF TypeInv, Registry, External, Budget

-----------------------------------------------------------------------------
(* Every action keeps TypeInv.                                             *)

\* The call of an action and the parts of its record, as the provers need them.
LEMMA CallTypes ==
  ASSUME TypeInv, NEW c \in Callers
  PROVE  /\ call[c] \in Call
         /\ CallWhole(call[c], row, api)
BY DEF TypeInv

\* A call that is over, and one that may have to submit.
LEMMA ContinuesTypes ==
  ASSUME NEW d \in Call, CallWhole(d, row, api), PayloadAssumption
  PROVE  Continues(d) \in Call /\ CallWhole(Continues(d), row, api)
<1>1. CASE d.op # "retry"
  BY <1>1, StartValues DEF Continues
<1>2. CASE d.op = "retry"
  <2>1. d.payload \in Payloads /\ LaneOf[d.payload] \in Lanes
    BY <1>2, PayloadAssumption DEF CallWhole
  <2>2. Continues(d) \in Call
    BY <1>2, <2>1 DEF Continues, Call, CallPc
  <2>3. CallWhole(Continues(d), row, api)
    BY <1>2, <2>1 DEF Continues, Call, CallWhole
  <2> QED
    BY <2>2, <2>3
<1> QED
  BY <1>1, <1>2

LEMMA StartReadTypes ==
  ASSUME TypeInv, NEW c \in Callers, NEW r \in Requests, NEW key \in Keys,
         NEW payload \in Payloads, StartRead(c, r, key, payload)
  PROVE  TypeInv'
<1> DEFINE next == [IdleCall EXCEPT !.pc = "key", !.op = "start", !.req = r, !.key = key,
                     !.payload = payload, !.lane = LaneOf[payload], !.existing = row[r]]
<1>1. row[r] \in Row /\ RowWhole(row[r], api)
  BY DEF TypeInv
<1>2. LaneOf[payload] \in Lanes
  BY PayloadAssumption
<1>3. next \in Call
  BY <1>1, <1>2, StartValues DEF Call, CallPc, IdleCall
<1>4. CallWhole(next, row, api)
  BY <1>1, <1>2 DEF CallWhole, IdleCall
<1>5. Becomes(c, next) /\ row' = row /\ api' = api /\ RunsKept /\ RowsKept
  BY DEF StartRead, Registry, External, RunsKept, RowsKept
<1> HIDE DEF next
<1>6. CallWhole(next, row', api')
  BY <1>4, <1>5
<1> QED
  BY <1>3, <1>5, <1>6, CallMoves DEF TypeInv, StartRead, Registry, External

LEMMA StartKeyTypes ==
  ASSUME TypeInv, NEW c \in Callers, StartKey(c)
  PROVE  TypeInv'
<1> DEFINE d == call[c]
           on == [d EXCEPT !.pc = "lane"]
<1>1. on \in Call
  BY CallTypes DEF Call, CallPc
<1>2. CallWhole(on, row, api)
  BY CallTypes DEF CallWhole, Call, StartKey, At
<1>3. Moves(c, IdleCall) \/ Moves(c, on)
  BY DEF StartKey
<1> HIDE DEF on, d
<1> QED
  BY <1>1, <1>2, <1>3, ReadMoves, StartValues

LEMMA StartLaneTypes ==
  ASSUME TypeInv, NEW c \in Callers, StartLane(c)
  PROVE  TypeInv'
<1> DEFINE d == call[c]
           found == d.existing
           session == IF SessionOf[d.payload] # NoSession THEN SessionOf[d.payload] ELSE binding[d.lane]
           next == [d EXCEPT !.existing = AbsentRow, !.session = session]
           new == [next EXCEPT !.pc = "save"]
           again == [next EXCEPT !.pc = "submit", !.key = StoredKey(d)]
           ask == [next EXCEPT !.pc = "resolve", !.op = "retry", !.key = StoredKey(d), !.run = found.run]
<1>1. d.pc = "lane" /\ d \in Call /\ CallWhole(d, row, api)
  BY CallTypes DEF StartLane, At
<1>2. d.payload \in Payloads /\ d.lane \in Lanes /\ found \in Row /\ RowWhole(found, api)
  BY <1>1 DEF CallWhole, Call
<1>3. session \in AnySession \cup {NoSession}
  BY <1>2, PayloadAssumption DEF TypeInv, AnySession
<1> HIDE DEF session
<1>4. next \in Call
  BY <1>1, <1>3, StartValues DEF Call
<1>5. new \in Call /\ CallWhole(new, row, api)
  <2>1. new \in Call
    BY <1>4 DEF Call, CallPc
  <2>2. CallWhole(new, row, api)
    BY <1>1, <1>4 DEF Call, CallWhole, RowWhole, AbsentRow, Present
  <2> QED
    BY <2>1, <2>2
<1>6. Present(found) => again \in Call /\ CallWhole(again, row, api)
  <2> SUFFICES ASSUME Present(found) PROVE again \in Call /\ CallWhole(again, row, api)
    OBVIOUS
  <2>1. StoredKey(d) \in Keys
    BY <1>2 DEF StoredKey, RowWhole
  <2>2. again \in Call
    BY <1>4, <2>1 DEF Call, CallPc
  <2>3. CallWhole(again, row, api)
    BY <1>1, <1>2, <1>4, <2>1 DEF Call, CallWhole, RowWhole, AbsentRow, Present
  <2> QED
    BY <2>2, <2>3
<1>7. found.run # NoRun => ask \in Call /\ CallWhole(ask, row, api)
  <2> SUFFICES ASSUME found.run # NoRun PROVE ask \in Call /\ CallWhole(ask, row, api)
    OBVIOUS
  <2>1. Present(found) /\ found.run \in Keys /\ api[found.run].status # "none"
    BY <1>2 DEF RowWhole, Row, Present
  <2>2. StoredKey(d) \in Keys
    BY <1>2, <2>1 DEF StoredKey, RowWhole
  <2>3. ask \in Call
    BY <1>4, <2>1, <2>2 DEF Call, CallPc
  <2>4. CallWhole(ask, row, api)
    BY <1>1, <1>2, <1>4, <2>1, <2>2 DEF Call, CallWhole, RowWhole, AbsentRow, Present
  <2> QED
    BY <2>3, <2>4
<1>8. \/ Moves(c, IdleCall)
      \/ Moves(c, new)
      \/ Present(found) /\ Moves(c, again)
      \/ found.run # NoRun /\ Moves(c, ask)
  BY DEF StartLane, session
<1> HIDE DEF new, again, ask, found, next
<1> QED
  BY <1>5, <1>6, <1>7, <1>8, ReadMoves, StartValues

\* A step of one call that also writes one row, which exists afterwards.
LEMMA RowMoves ==
  ASSUME TypeInv, NEW c \in Callers, NEW next \in Call, NEW r \in Requests, NEW record \in Row,
         Becomes(c, next), row' = [row EXCEPT ![r] = record], Present(record),
         RowWhole(record, api), CallWhole(next, row', api),
         UNCHANGED <<api, binding, starts, crashes, sent>>, replaced' \in SUBSET Requests
  PROVE  TypeInv'
<1>1. row' \in [Requests -> Row] /\ \A q \in Requests : RowWhole(row'[q], api)
  BY DEF TypeInv
<1>2. RunsKept /\ RowsKept
  BY DEF RunsKept, RowsKept, TypeInv
<1>3. CallWhole(next, row', api') /\ api' = api
  OBVIOUS
<1> QED
  BY <1>1, <1>2, <1>3, CallMoves DEF TypeInv

LEMMA StartSaveTypes ==
  ASSUME TypeInv, NEW c \in Callers, StartSave(c)
  PROVE  TypeInv'
<1> DEFINE d == call[c]
           r == d.req
           next == [d EXCEPT !.pc = "submit"]
           record == [status |-> "pending", key |-> d.key, payload |-> d.payload,
                      run |-> NoRun, session |-> d.session]
<1>1. d.pc = "save" /\ d \in Call /\ CallWhole(d, row, api)
  BY CallTypes DEF StartSave, At
<1>2. r \in Requests /\ d.key \in Keys /\ d.payload \in Payloads
  BY <1>1 DEF CallWhole
<1>3. CASE Holders(d.key) \ {r} # {}
  <2>1. Moves(c, IdleCall)
    BY <1>3 DEF StartSave, Moves
  <2> QED
    BY <2>1, ReadMoves, StartValues
<1>4. CASE ~(Holders(d.key) \ {r} # {})
  <2>1. /\ row' = [row EXCEPT ![r] = record]
        /\ replaced' = IF Present(row[r]) THEN replaced \cup {r} ELSE replaced
        /\ Becomes(c, next)
        /\ UNCHANGED <<api, binding, starts, crashes, sent>>
    BY <1>4 DEF StartSave, External, Budget
  <2>2. record \in Row /\ Present(record) /\ RowWhole(record, api)
    BY <1>1, <1>2 DEF Row, Call, Words, Present, RowWhole
  <2>3. next \in Call
    BY <1>1 DEF Call, CallPc
  <2>4. Present(row'[r]) /\ RowsKept
    BY <1>2, <2>1, <2>2 DEF TypeInv, RowsKept
  <2>5. CallWhole(next, row', api)
    BY <1>1, <1>2, <2>4 DEF CallWhole, Call, RowsKept
  <2>6. replaced' \in SUBSET Requests
    BY <1>2, <2>1 DEF TypeInv
  <2> HIDE DEF record, next, r, d
  <2> QED
    BY <1>2, <2>1, <2>2, <2>3, <2>5, <2>6, RowMoves
<1> QED
  BY <1>3, <1>4

\* What the API keeps for the key of a submit.
LEMMA ApiAcceptsTypes ==
  ASSUME TypeInv, NEW d \in Call, d.key \in Keys, d.payload \in Payloads
  PROVE  /\ ApiAccepts(d) \in ApiRun
         /\ ApiAccepts(d).status \in Words
         /\ ApiAccepts(d).status # "none"
         /\ ApiAccepts(d).session \in AnySession
<1>1. CASE api[d.key].status # "none"
  BY <1>1 DEF ApiAccepts, TypeInv, ApiRun, RunWhole, Words
<1>2. CASE api[d.key].status = "none"
  BY <1>2, NamesAssumption DEF ApiAccepts, ApiRun, Call, AnySession, Words
<1> QED
  BY <1>1, <1>2

\* A submit reaches the API.
LEMMA SubmitReaches ==
  ASSUME TypeInv, NEW c \in Callers, At(c, "submit"), NEW next \in Call, Becomes(c, next),
         api' = [api EXCEPT ![call[c].key] = ApiAccepts(call[c])],
         sent' = [sent EXCEPT ![call[c].req] = @ \cup {call[c].key}],
         CallWhole(next, row, api'), UNCHANGED <<Registry, Budget>>
  PROVE  TypeInv'
<1> DEFINE d == call[c]
<1>1. d \in Call /\ d.key \in Keys /\ d.req \in Requests /\ d.payload \in Payloads
  BY CallTypes DEF At, CallWhole
<1>2. ApiAccepts(d) \in ApiRun /\ RunWhole(ApiAccepts(d)) /\ ApiAccepts(d).status # "none"
  BY <1>1, ApiAcceptsTypes, NamesAssumption DEF RunWhole, AnySession
<1>3. api' \in [Keys -> ApiRun] /\ (\A k \in Keys : RunWhole(api'[k])) /\ RunsKept
  BY <1>1, <1>2 DEF TypeInv, RunsKept
<1>4. row' = row /\ binding' = binding /\ replaced' = replaced /\ starts' = starts /\ crashes' = crashes
  BY DEF Registry, Budget
<1>5. RowsKept
  BY <1>4 DEF RowsKept
<1>6. \A r \in Requests : RowWhole(row'[r], api')
  BY <1>3, <1>4, RowWholeKept DEF TypeInv
<1>7. sent' \in [Requests -> SUBSET Keys]
  BY <1>1 DEF TypeInv
<1>8. CallWhole(next, row', api')
  BY <1>4
<1> HIDE DEF d
<1> QED
  BY <1>3, <1>4, <1>5, <1>6, <1>7, <1>8, CallMoves DEF TypeInv

LEMMA SubmitTypes ==
  ASSUME TypeInv, NEW c \in Callers, SubmitAccepted(c) \/ SubmitLost(c) \/ SubmitRefused(c)
  PROVE  TypeInv'
<1> DEFINE d == call[c]
           fail(word) == [d EXCEPT !.pc = "fail", !.word = word]
           record(word, session) ==
             [d EXCEPT !.pc = "record", !.word = word, !.run = d.key, !.reply = session]
<1>1. d.pc = "submit" /\ d \in Call /\ CallWhole(d, row, api)
  BY CallTypes DEF SubmitAccepted, SubmitLost, SubmitRefused, At
<1>2. d.key \in Keys /\ d.req \in Requests /\ d.payload \in Payloads
  BY <1>1 DEF CallWhole
<1>3. \A word \in Words : fail(word) \in Call /\ CallWhole(fail(word), row, api)
  <2> TAKE word \in Words
  <2>1. fail(word) \in Call
    BY <1>1 DEF Call, CallPc
  <2>2. CallWhole(fail(word), row, api)
    BY <1>1 DEF Call, CallWhole
  <2> QED
    BY <2>1, <2>2
<1>4. CASE SubmitRefused(c)
  <2>1. PICK word \in {"failed", "unknown"} : Moves(c, fail(word))
    BY <1>4 DEF SubmitRefused
  <2>2. word \in Words
    BY DEF Words, Ended
  <2> HIDE DEF fail, d
  <2> QED
    BY <1>3, <2>1, <2>2, ReadMoves
<1>5. ASSUME api' = [api EXCEPT ![d.key] = ApiAccepts(d)]
      PROVE  RunsKept /\ api'[d.key].status # "none"
  BY <1>1, <1>2, <1>5, ApiAcceptsTypes DEF TypeInv, RunsKept
<1>6. CASE SubmitLost(c)
  <2>1. PICK word \in {"failed", "unknown"} : Becomes(c, fail(word))
    BY <1>6 DEF SubmitLost
  <2>2. word \in Words
    BY DEF Words, Ended
  <2>3. RunsKept
    BY <1>5, <1>6 DEF SubmitLost
  <2>4. row' = row
    BY <1>6 DEF SubmitLost, Registry
  <2>5. CallWhole(fail(word), row, api') /\ fail(word) \in Call
    <3>1. RowsKept
      BY <2>4 DEF RowsKept
    <3> HIDE DEF fail
    <3> QED
      BY <1>3, <2>2, <2>3, <2>4, <3>1, CallWholeKept
  <2>6. /\ At(c, "submit") /\ Becomes(c, fail(word))
        /\ api' = [api EXCEPT ![d.key] = ApiAccepts(d)]
        /\ sent' = [sent EXCEPT ![d.req] = @ \cup {d.key}]
        /\ UNCHANGED <<Registry, Budget>>
    BY <1>6, <2>1 DEF SubmitLost
  <2> HIDE DEF fail
  <2> QED
    BY <2>5, <2>6, SubmitReaches
<1>7. CASE SubmitAccepted(c)
  <2> DEFINE run == ApiAccepts(d)
  <2>1. PICK word \in {"started", run.status}, session \in {run.session, Assumed(d)} :
          Becomes(c, record(word, session))
    BY <1>7 DEF SubmitAccepted
  <2>2. /\ At(c, "submit")
        /\ api' = [api EXCEPT ![d.key] = ApiAccepts(d)]
        /\ sent' = [sent EXCEPT ![d.req] = @ \cup {d.key}]
        /\ UNCHANGED <<Registry, Budget>>
    BY <1>7 DEF SubmitAccepted
  <2>3. word \in Words
    BY <1>1, <1>2, <2>1, ApiAcceptsTypes DEF Words
  <2>4. session \in AnySession /\ session # NoSession
    <3>1. Assumed(d) \in AnySession
      BY <1>1, <1>2 DEF Assumed, Call, AnySession
    <3>2. run.session \in AnySession
      BY <1>1, <1>2, ApiAcceptsTypes
    <3> QED
      BY <2>1, <3>1, <3>2, NamesAssumption DEF AnySession
  <2>5. record(word, session) \in Call
    BY <1>1, <1>2, <2>3, <2>4 DEF Call, CallPc
  <2>6. row' = row /\ RunsKept /\ RowsKept /\ api'[d.key].status # "none"
    BY <1>5, <2>2 DEF Registry, RowsKept
  <2>7. CallWhole(d, row, api')
    BY <1>1, <2>6, CallWholeKept
  <2>8. CallWhole(record(word, session), row, api')
    BY <1>1, <1>2, <2>4, <2>6, <2>7 DEF Call, CallWhole
  <2> HIDE DEF record
  <2> QED
    BY <2>1, <2>2, <2>5, <2>8, SubmitReaches
<1> QED
  BY <1>4, <1>6, <1>7

\* Rows change by their status, run and session only.
LEMMA RowUpdates ==
  ASSUME TypeInv, NEW r \in Requests, Present(row[r]), NEW word \in Words,
         NEW session \in AnySession \cup {NoSession}
  PROVE  /\ [row[r] EXCEPT !.status = word] \in Row
         /\ Present([row[r] EXCEPT !.status = word])
         /\ RowWhole([row[r] EXCEPT !.status = word], api)
         /\ [row[r] EXCEPT !.status = word, !.session = session] \in Row
         /\ Present([row[r] EXCEPT !.status = word, !.session = session])
         /\ RowWhole([row[r] EXCEPT !.status = word, !.session = session], api)
         /\ \A k \in Keys : api[k].status # "none" =>
              /\ [row[r] EXCEPT !.status = word, !.run = k, !.session = session] \in Row
              /\ Present([row[r] EXCEPT !.status = word, !.run = k, !.session = session])
              /\ RowWhole([row[r] EXCEPT !.status = word, !.run = k, !.session = session], api)
<1>1. row[r] \in Row /\ RowWhole(row[r], api) /\ word # "absent"
  BY DEF TypeInv, Words, Ended
<1> QED
  BY <1>1 DEF Row, Present, RowWhole

LEMMA RecordTypes ==
  ASSUME TypeInv, NEW c \in Callers, StartRecord(c) \/ StartFail(c) \/ StatusStore(c) \/ StopMark(c)
  PROVE  TypeInv'
<1> DEFINE d == call[c]
           bind == [d EXCEPT !.pc = "bind"]
<1>1. d \in Call /\ CallWhole(d, row, api)
  BY CallTypes
<1>2. d.word \in Words /\ d.reply \in AnySession \cup {NoSession}
  BY <1>1 DEF Call
<1>3. \A r \in Requests, record \in Row :
        row' = [row EXCEPT ![r] = record] /\ Present(record) => RowsKept
  BY DEF TypeInv, RowsKept
<1>4. CASE StartRecord(c)
  <2> DEFINE record == [row[d.req] EXCEPT !.status = d.word, !.run = d.run, !.session = d.reply]
  <2>1. d.pc = "record" /\ d.req \in Requests /\ Present(row[d.req])
        /\ d.run \in Keys /\ api[d.run].status # "none"
    BY <1>1, <1>4 DEF StartRecord, At, CallWhole
  <2>2. record \in Row /\ Present(record) /\ RowWhole(record, api)
    BY <1>2, <2>1, RowUpdates
  <2>3. row' = [row EXCEPT ![d.req] = record] /\ Becomes(c, bind)
        /\ UNCHANGED <<api, binding, replaced, starts, crashes, sent>>
    BY <1>4 DEF StartRecord, External, Budget
  <2> HIDE DEF record
  <2>4. RowsKept
    BY <1>3, <2>1, <2>2, <2>3
  <2>5. bind \in Call
    BY <1>1 DEF Call, CallPc
  <2>6. CallWhole(bind, row', api)
    BY <1>1, <2>1, <2>4 DEF Call, CallWhole, RowsKept
  <2> HIDE DEF bind, d
  <2> QED
    BY <2>1, <2>2, <2>3, <2>5, <2>6, RowMoves DEF TypeInv
<1>5. CASE StatusStore(c)
  <2> DEFINE record == [row[d.rec] EXCEPT !.status = d.word, !.session = d.reply]
  <2>1. d.pc = "store" /\ d.rec \in Requests /\ Present(row[d.rec])
    BY <1>1, <1>5 DEF StatusStore, At, CallWhole, Call
  <2>2. record \in Row /\ Present(record) /\ RowWhole(record, api)
    BY <1>2, <2>1, RowUpdates
  <2>3. row' = [row EXCEPT ![d.rec] = record] /\ Becomes(c, bind)
        /\ UNCHANGED <<api, binding, replaced, starts, crashes, sent>>
    BY <1>5 DEF StatusStore, External, Budget
  <2> HIDE DEF record
  <2>4. RowsKept
    BY <1>3, <2>1, <2>2, <2>3
  <2>5. bind \in Call
    BY <1>1 DEF Call, CallPc
  <2>6. CallWhole(bind, row', api)
    BY <1>1, <2>1, <2>4 DEF Call, CallWhole, RowsKept
  <2> HIDE DEF bind, d
  <2> QED
    BY <2>1, <2>2, <2>3, <2>5, <2>6, RowMoves DEF TypeInv
<1>6. ASSUME NEW r \in Requests, Present(row[r]), row' = [row EXCEPT ![r].status = d.word],
             Becomes(c, IdleCall), UNCHANGED <<api, binding, replaced, starts, crashes, sent>>
      PROVE  TypeInv'
  <2> DEFINE record == [row[r] EXCEPT !.status = d.word]
  <2>1. record \in Row /\ Present(record) /\ RowWhole(record, api)
    BY <1>2, <1>6, RowUpdates
  <2>2. row' = [row EXCEPT ![r] = record]
    BY <1>6
  <2> HIDE DEF record
  <2> QED
    BY <1>6, <2>1, <2>2, RowMoves, StartValues DEF TypeInv
<1>7. CASE StartFail(c)
  <2>1. d.req \in Requests /\ Present(row[d.req])
    BY <1>1, <1>7 DEF StartFail, At, CallWhole
  <2> QED
    BY <1>6, <1>7, <2>1 DEF StartFail, External, Budget
<1>8. CASE StopMark(c)
  <2>1. d.rec \in Requests /\ Present(row[d.rec])
    BY <1>1, <1>8 DEF StopMark, At, CallWhole, Call
  <2> QED
    BY <1>6, <1>8, <2>1 DEF StopMark, External, Budget
<1> QED
  BY <1>4, <1>5, <1>7, <1>8

LEMMA BindTypes ==
  ASSUME TypeInv, NEW c \in Callers, Bind(c)
  PROVE  TypeInv'
<1> DEFINE d == call[c]
           next == Continues(d)
<1>1. d.pc = "bind" /\ d \in Call /\ CallWhole(d, row, api)
  BY CallTypes DEF Bind, At
<1>2. next \in Call /\ CallWhole(next, row, api)
  BY <1>1, ContinuesTypes, PayloadAssumption
<1>3. Becomes(c, next) /\ row' = row /\ api' = api /\ sent' = sent /\ replaced' = replaced
      /\ starts' = starts /\ crashes' = crashes
  BY DEF Bind, External, Budget
<1>4. RunsKept /\ RowsKept
  BY <1>3 DEF RunsKept, RowsKept
<1>5. binding' \in [Lanes -> AnySession \cup {NoSession}]
  BY <1>1 DEF Bind, Call, TypeInv
<1> HIDE DEF next
<1>6. CallWhole(next, row', api')
  BY <1>2, <1>3
<1> QED
  BY <1>2, <1>3, <1>4, <1>5, <1>6, CallMoves DEF TypeInv

LEMMA BeginTypes ==
  ASSUME TypeInv, NEW c \in Callers, NEW op \in {"status", "stop"}, NEW run \in Keys,
         Begin(c, op, run)
  PROVE  TypeInv'
<1> DEFINE next == [IdleCall EXCEPT !.pc = "resolve", !.op = op, !.run = run]
<1>1. next \in Call
  BY StartValues DEF Call, CallPc
<1>2. CallWhole(next, row, api)
  BY DEF Begin, CallWhole, IdleCall, RowWhole, AbsentRow, Present
<1>3. Moves(c, next)
  BY DEF Begin
<1> HIDE DEF next
<1> QED
  BY <1>1, <1>2, <1>3, ReadMoves

LEMMA ResolveTypes ==
  ASSUME TypeInv, NEW c \in Callers, Resolve(c)
  PROVE  TypeInv'
<1> DEFINE d == call[c]
           known(r) == [d EXCEPT !.pc = "ask", !.rec = r, !.lane = LaneOf[row[r].payload]]
           unknown == [d EXCEPT !.pc = "ask"]
<1>1. d.pc = "resolve" /\ d \in Call /\ CallWhole(d, row, api)
  BY CallTypes DEF Resolve, At
<1>2. CASE \E r \in Owners(d.run) : Moves(c, known(r))
  <2>1. PICK r \in Requests : row[r].run = d.run /\ Moves(c, known(r))
    BY <1>2 DEF Owners
  <2>2. row[r].run # NoRun /\ row[r] \in Row /\ RowWhole(row[r], api)
    BY <1>1, <2>1, NamesAssumption DEF CallWhole, TypeInv
  <2>3. Present(row[r]) /\ LaneOf[row[r].payload] \in Lanes
    BY <2>2, PayloadAssumption DEF RowWhole, Present
  <2>4. known(r) \in Call
    BY <1>1, <2>3 DEF Call, CallPc
  <2>5. CallWhole(known(r), row, api)
    BY <1>1, <2>3 DEF Call, CallWhole
  <2> HIDE DEF known
  <2> QED
    BY <2>1, <2>4, <2>5, ReadMoves
<1>3. CASE Moves(c, unknown)
  <2>1. unknown \in Call
    BY <1>1 DEF Call, CallPc
  <2>2. d.rec = NoRequest
    BY <1>1 DEF CallWhole
  <2>3. CallWhole(unknown, row, api)
    BY <1>1, <2>2 DEF Call, CallWhole
  <2> HIDE DEF unknown
  <2> QED
    BY <1>3, <2>1, <2>3, ReadMoves
<1> QED
  BY <1>2, <1>3 DEF Resolve

LEMMA AskTypes ==
  ASSUME TypeInv, NEW c \in Callers, StatusAnswered(c) \/ AskFails(c)
  PROVE  TypeInv'
<1> DEFINE d == call[c]
           run == api[d.run]
           next(op) == [d EXCEPT !.op = op, !.word = run.status, !.reply = run.session]
           store(op) == [next(op) EXCEPT !.pc = "store"]
<1>1. d.pc = "ask" /\ d \in Call /\ CallWhole(d, row, api)
  BY CallTypes DEF StatusAnswered, AskFails, At
<1>2. CASE AskFails(c)
  BY <1>1, <1>2, ContinuesTypes, PayloadAssumption, ReadMoves DEF AskFails
<1>3. CASE StatusAnswered(c)
  <2>1. run \in ApiRun /\ run.status \in Words /\ run.session \in AnySession
    BY <1>1 DEF CallWhole, TypeInv, ApiRun, RunWhole, Words
  <2>2. PICK op \in {"status", d.op} :
          Moves(c, IF d.rec = NoRequest THEN Continues(next(op)) ELSE store(op))
    BY <1>3 DEF StatusAnswered
  <2>3. op = "status" \/ (op = "retry" => d.op = "retry")
    BY <2>2
  <2>4. op \in {"none", "start", "retry", "status", "stop"}
    BY <1>1, <2>2 DEF Call
  <2>5. next(op) \in Call
    BY <1>1, <2>1, <2>4 DEF Call
  <2>6. CallWhole(next(op), row, api)
    BY <1>1, <2>1, <2>3 DEF Call, CallWhole
  <2>7. CASE d.rec = NoRequest
    BY <2>2, <2>5, <2>6, <2>7, ContinuesTypes, PayloadAssumption, ReadMoves
  <2>8. CASE d.rec # NoRequest
    <3>1. store(op) \in Call
      BY <2>5 DEF Call, CallPc
    <3>2. run.session # NoSession
      BY <2>1, NamesAssumption DEF AnySession
    <3>3. CallWhole(store(op), row, api)
      BY <1>1, <2>3, <2>5, <2>8, <3>2 DEF Call, CallWhole
    <3> HIDE DEF store, next
    <3> QED
      BY <2>2, <2>8, <3>1, <3>3, ReadMoves
  <2> QED
    BY <2>7, <2>8
<1> QED
  BY <1>2, <1>3

\* A step of the API that keeps its runs.
LEMMA ApiMoves ==
  ASSUME TypeInv, NEW k \in Keys, api[k].status # "none",
         NEW word \in {"running", "stopping"} \cup Ended, api' = [api EXCEPT ![k].status = word]
  PROVE  /\ api' \in [Keys -> ApiRun]
         /\ \A q \in Keys : RunWhole(api'[q])
         /\ RunsKept
BY DEF TypeInv, ApiRun, RunWhole, RunsKept, Ended

LEMMA StopAskTypes ==
  ASSUME TypeInv, NEW c \in Callers, StopAsk(c)
  PROVE  TypeInv'
<1> DEFINE d == call[c]
           word == IF api[d.run].status = "running" THEN "stopping" ELSE api[d.run].status
           mark == [d EXCEPT !.pc = "mark", !.word = word]
<1>1. d.pc = "ask" /\ d \in Call /\ CallWhole(d, row, api) /\ d.op = "stop"
  BY CallTypes DEF StopAsk, At
<1>2. d.run \in Keys /\ api[d.run].status # "none"
  BY <1>1 DEF CallWhole
<1>3. word \in {"running", "stopping"} \cup Ended
  BY <1>2 DEF TypeInv, ApiRun
<1>4. api' = [api EXCEPT ![d.run].status = word]
  BY DEF StopAsk
<1> HIDE DEF word
<1>5. api' \in [Keys -> ApiRun] /\ (\A q \in Keys : RunWhole(api'[q])) /\ RunsKept
  BY <1>2, <1>3, <1>4, ApiMoves
<1>6. /\ row' = row /\ binding' = binding /\ replaced' = replaced /\ sent' = sent
      /\ starts' = starts /\ crashes' = crashes
  BY DEF StopAsk, Registry, Budget
<1>7. RowsKept /\ \A r \in Requests : RowWhole(row'[r], api')
  BY <1>5, <1>6, RowWholeKept DEF TypeInv, RowsKept
<1>8. PICK next \in {IdleCall, mark} : Becomes(c, next) /\ (next = mark => d.rec # NoRequest \/ next = IdleCall)
  BY DEF StopAsk, word
<1>9. next \in Call /\ CallWhole(next, row', api')
  <2>1. CASE next = IdleCall
    BY <2>1, StartValues
  <2>2. CASE next # IdleCall
    <3>1. mark \in Call
      BY <1>1, <1>3 DEF Call, CallPc, Words
    <3>2. CallWhole(d, row', api')
      BY <1>1, <1>5, <1>7, CallWholeKept
    <3>3. d.rec # NoRequest
      BY <1>8, <2>2
    <3>4. CallWhole(mark, row', api')
      BY <1>1, <3>2, <3>3 DEF Call, CallWhole
    <3> QED
      BY <1>8, <2>2, <3>1, <3>4
  <2> QED
    BY <2>1, <2>2
<1> QED
  BY <1>5, <1>6, <1>7, <1>8, <1>9, CallMoves DEF TypeInv

LEMMA RunEndsTypes ==
  ASSUME TypeInv, NEW run \in Keys, RunEnds(run)
  PROVE  TypeInv'
<1>1. PICK word \in Ended : api[run].status # "none" /\ api' = [api EXCEPT ![run].status = word]
  BY DEF RunEnds
<1>2. api' \in [Keys -> ApiRun] /\ (\A q \in Keys : RunWhole(api'[q])) /\ RunsKept
  BY <1>1, ApiMoves
<1>3. UNCHANGED <<row, binding, replaced, call, starts, crashes, sent>>
  BY DEF RunEnds, Registry, Budget
<1>4. RowsKept /\ \A r \in Requests : RowWhole(row'[r], api')
  BY <1>2, <1>3, RowWholeKept DEF TypeInv, RowsKept
<1>5. \A c \in Callers : CallWhole(call'[c], row', api')
  BY <1>2, <1>3, <1>4, CallWholeKept DEF TypeInv
<1> QED
  BY <1>2, <1>3, <1>4, <1>5 DEF TypeInv

LEMMA NextTypeInv == TypeInv /\ [Next]_vars => TypeInv'
<1> SUFFICES ASSUME TypeInv, [Next]_vars PROVE TypeInv'
  OBVIOUS
<1>1. CASE \E c \in Callers : CallBegins(c)
  BY <1>1, StartReadTypes, BeginTypes DEF CallBegins, StatusStart, StopStart
<1>2. CASE \E c \in Callers : StartStep(c)
  BY <1>2, StartKeyTypes, StartLaneTypes, StartSaveTypes, SubmitTypes, RecordTypes, BindTypes
  DEF StartStep
<1>3. CASE \E c \in Callers : StatusStep(c)
  BY <1>3, ResolveTypes, AskTypes, RecordTypes, StopAskTypes DEF StatusStep
<1>4. CASE \E run \in Keys : RunEnds(run)
  BY <1>4, RunEndsTypes
<1>5. CASE Crash
  <2>1. call' \in [Callers -> Call] /\ \A c \in Callers : CallWhole(call'[c], row', api')
    BY <1>5, StartValues DEF Crash
  <2> QED
    BY <1>5, <2>1 DEF Crash, TypeInv, Registry, External
<1>6. CASE UNCHANGED vars
  BY <1>6 DEF vars, TypeInv
<1> QED
  BY <1>1, <1>2, <1>3, <1>4, <1>5, <1>6 DEF Next

(***************************************************************************)
(* The model is well typed, and only real sessions are bound to lanes.     *)
(***************************************************************************)
THEOREM TypesAlwaysHold == Spec => []TypeInv
BY InitTypeInv, NextTypeInv, PTL DEF Spec

\* In particular every variable keeps the type the model declares for it.
THEOREM TypeCorrect == Spec => []TypeOK
BY TypesAlwaysHold, TypeInvImpliesTypeOK, PTL
=============================================================================
