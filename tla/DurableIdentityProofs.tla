------------------------- MODULE DurableIdentityProofs -------------------------
(***************************************************************************)
(* One request, one key, one run, one outcome.  Every call that may still  *)
(* submit goes by the key and the payload of its request's row, unless the *)
(* row has been replaced by an admission that overlapped with it; no two   *)
(* rows have the same key; a recorded run is the one its row's key names;  *)
(* every run of the API was created for a row that still stands; and a run *)
(* that has ended stays ended, so that an answer which said so is true     *)
(* whenever it is recorded.                                                *)
(***************************************************************************)
EXTENDS DurableRunProofs

CallOwn(d, rows, races) ==
  d.req \in Requests \ races =>
    /\ d.pc \in {"key", "lane"} /\ Present(d.existing) =>
         d.existing.key = rows[d.req].key /\ d.existing.payload = rows[d.req].payload
    /\ d.pc = "submit" \/ d.op = "retry" =>
         d.key = rows[d.req].key /\ d.payload = rows[d.req].payload
    /\ d.pc = "record" => d.run = rows[d.req].key

SubmitsKeyed ==
  /\ \A r \in Requests : ~Present(row[r]) => sent[r] = {}
  /\ \A r \in Requests \ replaced : sent[r] \subseteq {row[r].key}

KeysUnique ==
  \A r, s \in Requests : Present(row[r]) /\ Present(row[s]) /\ row[r].key = row[s].key => r = s

RunsKeyed == \A r \in Requests \ replaced : row[r].run \in {NoRun, row[r].key}

RunsMade ==
  replaced = {} =>
    \A k \in Keys : api[k].status # "none" =>
      \E r \in Requests : Present(row[r]) /\ row[r].key = k /\ row[r].payload = api[k].payload

CallsOwn == \A c \in Callers : CallOwn(call[c], row, replaced)

OwnInv == SubmitsKeyed /\ KeysUnique /\ RunsKeyed /\ RunsMade /\ CallsOwn

LEMMA InitOwnInv == Init => OwnInv
<1> SUFFICES ASSUME Init PROVE OwnInv
  OBVIOUS
<1>1. \A r \in Requests : ~Present(row[r]) /\ row[r].run = NoRun /\ sent[r] = {}
  BY DEF Init, AbsentRow, Present
<1>2. RunsMade
  BY DEF Init, RunsMade, NoApiRun
<1>3. CallsOwn
  BY DEF Init, CallsOwn, CallOwn, IdleCall, AbsentRow, Present
<1> QED
  BY <1>1, <1>2, <1>3 DEF OwnInv, SubmitsKeyed, KeysUnique, RunsKeyed

-----------------------------------------------------------------------------
(* Steps that leave every key and payload as it is.                        *)

KeysSame ==
  \A r \in Requests : /\ row'[r].key = row[r].key
                      /\ row'[r].payload = row[r].payload
                      /\ Present(row'[r]) = Present(row[r])

RunsSame == \A r \in Requests : row'[r].run = row[r].run

NoNewRuns ==
  \A k \in Keys : api'[k].status # "none" =>
    api[k].status # "none" /\ api'[k].payload = api[k].payload

\* Calls of other threads stay as they are.
LEMMA CallsOwnKept ==
  ASSUME TypeInv, OwnInv, KeysSame, replaced' = replaced,
         NEW c \in Callers, NEW next, Becomes(c, next), CallOwn(next, row, replaced)
  PROVE  CallsOwn'
<1>1. ASSUME NEW d, CallOwn(d, row, replaced) PROVE CallOwn(d, row', replaced')
  BY <1>1 DEF CallOwn, KeysSame
<1>2. ASSUME NEW e \in Callers PROVE CallOwn(call'[e], row', replaced')
  <2>1. CASE e = c
    <3>1. call'[e] = next
      BY <2>1 DEF Becomes, TypeInv
    <3> QED
      BY <1>1, <3>1
  <2>2. CASE e # c
    <3>1. call'[e] = call[e]
      BY <2>2 DEF Becomes, TypeInv
    <3>2. CallOwn(call[e], row, replaced)
      BY DEF OwnInv, CallsOwn
    <3> QED
      BY <1>1, <3>1, <3>2
  <2> QED
    BY <2>1, <2>2
<1> QED
  BY <1>2 DEF CallsOwn

LEMMA OwnKept ==
  ASSUME OwnInv, KeysSame, RunsSame, NoNewRuns, sent' = sent, replaced' = replaced, CallsOwn'
  PROVE  OwnInv'
<1>1. SubmitsKeyed'
  BY DEF OwnInv, SubmitsKeyed, KeysSame
<1>2. KeysUnique'
  BY DEF OwnInv, KeysUnique, KeysSame
<1>3. RunsKeyed'
  BY DEF OwnInv, RunsKeyed, KeysSame, RunsSame
<1>4. RunsMade'
  BY DEF OwnInv, RunsMade, KeysSame, NoNewRuns
<1> QED
  BY <1>1, <1>2, <1>3, <1>4 DEF OwnInv

\* In particular a step that only reads.
LEMMA OwnReads ==
  ASSUME TypeInv, OwnInv, NEW c \in Callers, NEW next, Moves(c, next),
         CallOwn(next, row, replaced)
  PROVE  OwnInv'
<1>1. Becomes(c, next) /\ row' = row /\ api' = api /\ sent' = sent /\ replaced' = replaced
  BY DEF Moves, Registry, External
<1>2. KeysSame /\ RunsSame /\ NoNewRuns
  BY <1>1 DEF KeysSame, RunsSame, NoNewRuns
<1> QED
  BY <1>1, <1>2, CallsOwnKept, OwnKept

LEMMA IdleOwn == CallOwn(IdleCall, row, replaced)
BY NamesAssumption DEF CallOwn, IdleCall

LEMMA ContinuesOwn ==
  ASSUME NEW d \in Call, CallOwn(d, row, replaced)
  PROVE  CallOwn(Continues(d), row, replaced)
<1>1. CASE d.op = "retry"
  BY <1>1 DEF Continues, CallOwn, Call
<1>2. CASE d.op # "retry"
  BY <1>2, IdleOwn DEF Continues
<1> QED
  BY <1>1, <1>2

LEMMA CallIsOwn ==
  ASSUME TypeInv, OwnInv, NEW c \in Callers
  PROVE  CallOwn(call[c], row, replaced) /\ call[c] \in Call /\ CallWhole(call[c], row, api)
BY DEF TypeInv, OwnInv, CallsOwn

LEMMA BeginningOwn ==
  ASSUME TypeInv, OwnInv, NEW c \in Callers, CallBegins(c)
  PROVE  OwnInv'
<1>1. ASSUME NEW op \in {"status", "stop"}, NEW run \in Keys, Begin(c, op, run) PROVE OwnInv'
  <2> DEFINE next == [IdleCall EXCEPT !.pc = "resolve", !.op = op, !.run = run]
  <2>1. CallOwn(next, row, replaced)
    BY NamesAssumption DEF CallOwn, IdleCall
  <2>2. Moves(c, next)
    BY <1>1 DEF Begin
  <2> HIDE DEF next
  <2> QED
    BY <2>1, <2>2, OwnReads
<1>2. ASSUME NEW r \in Requests, NEW key \in Keys, NEW payload \in Payloads,
             StartRead(c, r, key, payload)
      PROVE  OwnInv'
  <2> DEFINE next == [IdleCall EXCEPT !.pc = "key", !.op = "start", !.req = r, !.key = key,
                       !.payload = payload, !.lane = LaneOf[payload], !.existing = row[r]]
  <2>1. CallOwn(next, row, replaced)
    BY DEF CallOwn, IdleCall
  <2>2. Becomes(c, next) /\ row' = row /\ api' = api /\ sent' = sent /\ replaced' = replaced
    BY <1>2 DEF StartRead, Registry, External
  <2>3. KeysSame /\ RunsSame /\ NoNewRuns
    BY <2>2 DEF KeysSame, RunsSame, NoNewRuns
  <2> HIDE DEF next
  <2> QED
    BY <2>1, <2>2, <2>3, CallsOwnKept, OwnKept
<1> QED
  BY <1>1, <1>2 DEF CallBegins, StatusStart, StopStart

LEMMA StartLookOwn ==
  ASSUME TypeInv, OwnInv, NEW c \in Callers, StartKey(c) \/ StartLane(c)
  PROVE  OwnInv'
<1> DEFINE d == call[c]
           found == d.existing
           session == IF SessionOf[d.payload] # NoSession THEN SessionOf[d.payload] ELSE binding[d.lane]
           next == [d EXCEPT !.existing = AbsentRow, !.session = session]
           on == [d EXCEPT !.pc = "lane"]
           new == [next EXCEPT !.pc = "save"]
           again == [next EXCEPT !.pc = "submit", !.key = StoredKey(d)]
           ask == [next EXCEPT !.pc = "resolve", !.op = "retry", !.key = StoredKey(d), !.run = found.run]
<1>1. d \in Call /\ CallOwn(d, row, replaced) /\ CallWhole(d, row, api) /\ d.pc \in {"key", "lane"}
  BY CallIsOwn DEF StartKey, StartLane, At
<1>2. CASE StartKey(c)
  <2>1. CallOwn(on, row, replaced)
    BY <1>1, <1>2 DEF CallOwn, Call, StartKey, At
  <2>2. Moves(c, IdleCall) \/ Moves(c, on)
    BY <1>2 DEF StartKey
  <2> HIDE DEF on
  <2> QED
    BY <2>1, <2>2, IdleOwn, OwnReads
<1>3. CASE StartLane(c)
  <2>1. \/ Moves(c, IdleCall)
        \/ ~Present(found) /\ Moves(c, new)
        \/ Present(found) /\ found.payload = d.payload /\ Moves(c, again)
        \/ Present(found) /\ found.payload = d.payload /\ Moves(c, ask)
    BY <1>3 DEF StartLane, OtherPayload
  <2>2. CallOwn(new, row, replaced)
    BY <1>1 DEF CallOwn, Call, AbsentRow, Present
  <2>3. Present(found) /\ found.payload = d.payload =>
          CallOwn(again, row, replaced) /\ CallOwn(ask, row, replaced)
    BY <1>1 DEF CallOwn, Call, AbsentRow, Present, StoredKey
  <2> HIDE DEF new, again, ask, found, next
  <2> QED
    BY <2>1, <2>2, <2>3, IdleOwn, OwnReads
<1> QED
  BY <1>2, <1>3

(***************************************************************************)
(* The upsert: a new row brings a key nobody has; a replaced one is set    *)
(* aside from now on, and so is every run that may have been made for it.  *)
(***************************************************************************)
LEMMA StartSaveOwn ==
  ASSUME TypeInv, OwnInv, NEW c \in Callers, StartSave(c)
  PROVE  OwnInv'
<1> DEFINE d == call[c]
           r == d.req
           next == [d EXCEPT !.pc = "submit"]
<1>1. d.pc = "save" /\ d \in Call /\ CallOwn(d, row, replaced)
      /\ r \in Requests /\ d.key \in Keys /\ d.payload \in Payloads
  BY CallIsOwn DEF StartSave, At, CallWhole
<1>2. CASE Holders(d.key) \ {r} # {}
  <2>1. Moves(c, IdleCall)
    BY <1>2 DEF StartSave, Moves
  <2> QED
    BY <2>1, IdleOwn, OwnReads
<1>3. CASE Holders(d.key) \ {r} = {}
  <2>1. /\ row' = [row EXCEPT ![r] = [status |-> "pending", key |-> d.key, payload |-> d.payload,
                                      run |-> NoRun, session |-> d.session]]
        /\ replaced' = IF Present(row[r]) THEN replaced \cup {r} ELSE replaced
        /\ Becomes(c, next) /\ api' = api /\ sent' = sent
    BY <1>3 DEF StartSave, External
  <2>2. /\ row'[r].key = d.key /\ row'[r].payload = d.payload /\ row'[r].run = NoRun
        /\ Present(row'[r])
        /\ \A q \in Requests \ {r} : row'[q] = row[q] /\ row[q].key # d.key
    BY <1>1, <1>3, <2>1 DEF TypeInv, Present, Holders
  <2>3. replaced \subseteq replaced' /\ (r \notin replaced' => ~Present(row[r]))
        /\ replaced' \subseteq replaced \cup {r}
    BY <2>1
  <2>4. SubmitsKeyed'
    BY <1>1, <2>1, <2>2, <2>3 DEF OwnInv, SubmitsKeyed
  <2>5. KeysUnique'
    BY <1>1, <2>2 DEF OwnInv, KeysUnique
  <2>6. RunsKeyed'
    BY <1>1, <2>2, <2>3 DEF OwnInv, RunsKeyed
  <2>7. RunsMade'
    <3> SUFFICES ASSUME replaced' = {}, NEW k \in Keys, api[k].status # "none"
                 PROVE  \E q \in Requests :
                          Present(row'[q]) /\ row'[q].key = k /\ row'[q].payload = api[k].payload
      BY <2>1 DEF RunsMade
    <3>1. replaced = {} /\ ~Present(row[r])
      BY <2>3
    <3>2. PICK q \in Requests : Present(row[q]) /\ row[q].key = k /\ row[q].payload = api[k].payload
      BY <3>1 DEF OwnInv, RunsMade
    <3>3. q # r
      BY <3>1, <3>2
    <3> QED
      BY <2>2, <3>2, <3>3
  <2>8. CallsOwn'
    <3>1. CallOwn(next, row', replaced')
      BY <1>1, <2>2, <2>3 DEF CallOwn, Call
    <3>2. ASSUME NEW e \in Callers \ {c} PROVE CallOwn(call[e], row', replaced')
      <4>1. CallOwn(call[e], row, replaced) /\ CallWhole(call[e], row, api)
        BY CallIsOwn
      <4>2. CASE call[e].req # r
        BY <2>2, <2>3, <4>1, <4>2 DEF CallOwn
      <4>3. CASE call[e].req = r
        <5>1. CASE r \in replaced'
          BY <4>3, <5>1 DEF CallOwn
        <5>2. CASE r \notin replaced'
          BY <2>3, <4>1, <4>3, <5>2 DEF CallOwn, CallWhole
        <5> QED
          BY <5>1, <5>2
      <4> QED
        BY <4>2, <4>3
    <3>3. call' = [call EXCEPT ![c] = next]
      BY <2>1 DEF Becomes
    <3> HIDE DEF next
    <3> QED
      BY <3>1, <3>2, <3>3 DEF CallsOwn, TypeInv
  <2> QED
    BY <2>4, <2>5, <2>6, <2>7, <2>8 DEF OwnInv
<1> QED
  BY <1>2, <1>3

LEMMA SubmitOwn ==
  ASSUME TypeInv, OwnInv, NEW c \in Callers, SubmitAccepted(c) \/ SubmitLost(c) \/ SubmitRefused(c)
  PROVE  OwnInv'
<1> DEFINE d == call[c]
<1>1. d.pc = "submit" /\ d \in Call /\ CallOwn(d, row, replaced) /\ CallWhole(d, row, api)
  BY CallIsOwn DEF SubmitAccepted, SubmitLost, SubmitRefused, At
<1>2. d.key \in Keys /\ d.req \in Requests /\ Present(row[d.req])
  BY <1>1 DEF CallWhole
<1>3. CASE SubmitRefused(c)
  <2>1. PICK word \in {"failed", "unknown"} : Moves(c, [d EXCEPT !.pc = "fail", !.word = word])
    BY <1>3 DEF SubmitRefused
  <2> DEFINE next == [d EXCEPT !.pc = "fail", !.word = word]
  <2>2. CallOwn(next, row, replaced)
    BY <1>1 DEF CallOwn, Call
  <2> HIDE DEF next
  <2> QED
    BY <2>1, <2>2, OwnReads DEF next
<1>4. ASSUME NEW next, Becomes(c, next), CallOwn(next, row, replaced), row' = row, replaced' = replaced,
             api' = [api EXCEPT ![d.key] = ApiAccepts(d)],
             sent' = [sent EXCEPT ![d.req] = @ \cup {d.key}]
      PROVE  OwnInv'
  <2>1. KeysSame /\ RunsSame
    BY <1>4 DEF KeysSame, RunsSame
  <2>2. CallsOwn'
    BY <1>4, <2>1, CallsOwnKept
  <2>3. SubmitsKeyed'
    BY <1>1, <1>2, <1>4 DEF OwnInv, SubmitsKeyed, TypeInv, CallOwn
  <2>4. KeysUnique' /\ RunsKeyed'
    BY <1>4 DEF OwnInv, KeysUnique, RunsKeyed
  <2>5. RunsMade'
    <3> SUFFICES ASSUME replaced = {}, NEW k \in Keys, api'[k].status # "none"
                 PROVE  \E q \in Requests :
                          Present(row[q]) /\ row[q].key = k /\ row[q].payload = api'[k].payload
      BY <1>4 DEF RunsMade
    <3>1. CASE api[k].status # "none"
      <4>1. api'[k] = api[k]
        BY <1>2, <1>4, <3>1 DEF TypeInv, ApiAccepts
      <4> QED
        BY <3>1, <4>1 DEF OwnInv, RunsMade
    <3>2. CASE api[k].status = "none"
      <4>1. k = d.key
        BY <1>4, <3>2 DEF TypeInv
      <4>2. api'[k].payload = d.payload
        BY <1>2, <1>4, <3>2, <4>1 DEF TypeInv, ApiAccepts
      <4>3. row[d.req].key = d.key /\ row[d.req].payload = d.payload
        BY <1>1, <1>2 DEF CallOwn
      <4> QED
        BY <1>2, <4>1, <4>2, <4>3
    <3> QED
      BY <3>1, <3>2
  <2> QED
    BY <2>2, <2>3, <2>4, <2>5 DEF OwnInv
<1>5. CASE SubmitLost(c)
  <2>1. PICK word : Becomes(c, [d EXCEPT !.pc = "fail", !.word = word])
    BY <1>5 DEF SubmitLost
  <2> DEFINE next == [d EXCEPT !.pc = "fail", !.word = word]
  <2>2. CallOwn(next, row, replaced)
    BY <1>1 DEF CallOwn, Call
  <2>3. Becomes(c, next)
    BY <2>1
  <2> HIDE DEF next
  <2> QED
    BY <1>4, <1>5, <2>2, <2>3 DEF SubmitLost, Registry
<1>6. CASE SubmitAccepted(c)
  <2>1. PICK word, session :
          Becomes(c, [d EXCEPT !.pc = "record", !.word = word, !.run = d.key, !.reply = session])
    BY <1>6 DEF SubmitAccepted
  <2> DEFINE next == [d EXCEPT !.pc = "record", !.word = word, !.run = d.key, !.reply = session]
  <2>2. CallOwn(next, row, replaced)
    BY <1>1 DEF CallOwn, Call
  <2>3. Becomes(c, next)
    BY <2>1
  <2> HIDE DEF next
  <2> QED
    BY <1>4, <1>6, <2>2, <2>3 DEF SubmitAccepted, Registry
<1> QED
  BY <1>3, <1>5, <1>6

\* The answer of a status or a stop, and a refused submit, change a row's
\* status and session only; the answer of a submit its run as well.
LEMMA RecordOwn ==
  ASSUME TypeInv, OwnInv, NEW c \in Callers,
         StartRecord(c) \/ StartFail(c) \/ StatusStore(c) \/ StopMark(c)
  PROVE  OwnInv'
<1> DEFINE d == call[c]
           bind == [d EXCEPT !.pc = "bind"]
<1>1. CallOwn(d, row, replaced) /\ d \in Call /\ CallWhole(d, row, api)
  BY CallIsOwn
<1>2. d.word \in Words /\ d.reply \in AnySession \cup {NoSession}
  BY <1>1 DEF Call
<1>3. ASSUME NEW r \in Requests, NEW record \in Row, Present(row[r]), Present(record),
             record.key = row[r].key, record.payload = row[r].payload,
             row' = [row EXCEPT ![r] = record]
      PROVE  KeysSame /\ (record.run = row[r].run => RunsSame)
  BY <1>3 DEF KeysSame, RunsSame, TypeInv
<1>4. d.pc \in {"record", "store"} => CallOwn(bind, row, replaced)
  BY <1>1 DEF CallOwn, Call
<1>5. CASE StatusStore(c)
  <2> DEFINE record == [row[d.rec] EXCEPT !.status = d.word, !.session = d.reply]
  <2>1. d.pc = "store" /\ d.rec \in Requests /\ Present(row[d.rec])
    BY <1>1, <1>5 DEF StatusStore, At, CallWhole, Call
  <2>2. row' = [row EXCEPT ![d.rec] = record] /\ Becomes(c, bind)
        /\ api' = api /\ sent' = sent /\ replaced' = replaced
    BY <1>5 DEF StatusStore, External
  <2>3. record \in Row /\ Present(record) /\ record.key = row[d.rec].key
        /\ record.payload = row[d.rec].payload /\ record.run = row[d.rec].run
    <3>1. record \in Row /\ Present(record)
      BY <1>2, <2>1, RowUpdates
    <3> QED
      BY <2>1, <3>1 DEF TypeInv, Row
  <2> HIDE DEF record, bind
  <2>4. KeysSame /\ RunsSame /\ NoNewRuns
    BY <1>3, <2>1, <2>2, <2>3 DEF NoNewRuns
  <2> QED
    BY <1>4, <2>1, <2>2, <2>4, CallsOwnKept, OwnKept
<1>6. ASSUME NEW r \in Requests, Present(row[r]), row' = [row EXCEPT ![r].status = d.word],
             Becomes(c, IdleCall), api' = api, sent' = sent, replaced' = replaced
      PROVE  OwnInv'
  <2> DEFINE record == [row[r] EXCEPT !.status = d.word]
  <2>1. record \in Row /\ Present(record) /\ record.key = row[r].key
        /\ record.payload = row[r].payload /\ record.run = row[r].run
    <3>1. record \in Row /\ Present(record)
      BY <1>2, <1>6, RowUpdates
    <3> QED
      BY <1>6, <3>1 DEF TypeInv, Row
  <2>2. row' = [row EXCEPT ![r] = record]
    BY <1>6
  <2> HIDE DEF record
  <2>3. KeysSame /\ RunsSame /\ NoNewRuns
    BY <1>3, <1>6, <2>1, <2>2 DEF NoNewRuns
  <2> QED
    BY <1>6, <2>3, IdleOwn, CallsOwnKept, OwnKept
<1>7. CASE StartFail(c)
  <2>1. d.req \in Requests /\ Present(row[d.req])
    BY <1>1, <1>7 DEF StartFail, At, CallWhole
  <2> QED
    BY <1>6, <1>7, <2>1 DEF StartFail, External
<1>8. CASE StopMark(c)
  <2>1. d.rec \in Requests /\ Present(row[d.rec])
    BY <1>1, <1>8 DEF StopMark, At, CallWhole, Call
  <2> QED
    BY <1>6, <1>8, <2>1 DEF StopMark, External
<1>9. CASE StartRecord(c)
  <2> DEFINE record == [row[d.req] EXCEPT !.status = d.word, !.run = d.run, !.session = d.reply]
  <2>1. d.pc = "record" /\ d.req \in Requests /\ Present(row[d.req])
        /\ d.run \in Keys /\ api[d.run].status # "none"
    BY <1>1, <1>9 DEF StartRecord, At, CallWhole
  <2>2. row' = [row EXCEPT ![d.req] = record] /\ Becomes(c, bind)
        /\ api' = api /\ sent' = sent /\ replaced' = replaced
    BY <1>9 DEF StartRecord, External
  <2>3. record \in Row /\ Present(record) /\ record.key = row[d.req].key
        /\ record.payload = row[d.req].payload /\ record.run = d.run
    <3>1. record \in Row /\ Present(record)
      BY <1>2, <2>1, RowUpdates
    <3> QED
      BY <2>1, <3>1 DEF TypeInv, Row
  <2>4. d.req \notin replaced => d.run = row[d.req].key
    BY <1>1, <2>1 DEF CallOwn
  <2> HIDE DEF record, bind, d
  <2>5. KeysSame /\ NoNewRuns
    BY <1>3, <2>1, <2>2, <2>3 DEF NoNewRuns
  <2>6. CallsOwn'
    BY <1>4, <2>1, <2>2, <2>5, CallsOwnKept
  <2>7. SubmitsKeyed' /\ KeysUnique' /\ RunsMade'
    BY <2>2, <2>5 DEF OwnInv, SubmitsKeyed, KeysUnique, RunsMade, KeysSame, NoNewRuns
  <2>8. RunsKeyed'
    BY <2>1, <2>2, <2>3, <2>4 DEF OwnInv, RunsKeyed, TypeInv
  <2> QED
    BY <2>6, <2>7, <2>8 DEF OwnInv
<1> QED
  BY <1>5, <1>7, <1>8, <1>9

\* Everything else leaves the rows alone and makes no run.
LEMMA LookOwn ==
  ASSUME TypeInv, OwnInv, NEW c \in Callers,
         Bind(c) \/ Resolve(c) \/ StatusAnswered(c) \/ AskFails(c) \/ StopAsk(c)
  PROVE  OwnInv'
<1> DEFINE d == call[c]
<1>1. CallOwn(d, row, replaced) /\ d \in Call /\ CallWhole(d, row, api)
  BY CallIsOwn
<1>2. CallOwn(Continues(d), row, replaced)
  BY <1>1, ContinuesOwn
<1>3. CASE Bind(c)
  <2>1. Becomes(c, Continues(d)) /\ row' = row /\ api' = api /\ sent' = sent /\ replaced' = replaced
    BY <1>3 DEF Bind, External
  <2>2. KeysSame /\ RunsSame /\ NoNewRuns
    BY <2>1 DEF KeysSame, RunsSame, NoNewRuns
  <2> QED
    BY <1>2, <2>1, <2>2, CallsOwnKept, OwnKept
<1>4. CASE Resolve(c)
  <2> DEFINE known(r) == [d EXCEPT !.pc = "ask", !.rec = r, !.lane = LaneOf[row[r].payload]]
             unknown == [d EXCEPT !.pc = "ask"]
  <2>1. (\E r \in Requests : Moves(c, known(r))) \/ Moves(c, unknown)
    BY <1>4 DEF Resolve, Owners
  <2>2. \A r \in Requests : CallOwn(known(r), row, replaced)
    BY <1>1 DEF CallOwn, Call
  <2>3. CallOwn(unknown, row, replaced)
    BY <1>1 DEF CallOwn, Call
  <2> HIDE DEF known, unknown
  <2> QED
    BY <2>1, <2>2, <2>3, OwnReads
<1>5. CASE AskFails(c)
  BY <1>2, <1>5, OwnReads DEF AskFails
<1>6. CASE StatusAnswered(c)
  <2> DEFINE run == api[d.run]
             next(op) == [d EXCEPT !.op = op, !.word = run.status, !.reply = run.session]
             store(op) == [next(op) EXCEPT !.pc = "store"]
  <2>1. d.pc = "ask" /\ run.status \in Words /\ run.session \in AnySession
    BY <1>1, <1>6 DEF StatusAnswered, At, CallWhole, TypeInv, ApiRun, RunWhole, Words
  <2>2. PICK op \in {"status", d.op} :
          Moves(c, IF d.rec = NoRequest THEN Continues(next(op)) ELSE store(op))
    BY <1>6, Zenon DEF StatusAnswered
  <2>3. op \in {"none", "start", "retry", "status", "stop"}
    BY <1>1, <2>2 DEF Call
  <2>4. next(op) \in Call /\ CallOwn(next(op), row, replaced)
    <3>1. next(op) \in Call
      BY <1>1, <2>1, <2>3 DEF Call
    <3>2. op = "retry" => d.op = "retry"
      BY <2>2
    <3>3. CallOwn(next(op), row, replaced)
      BY <1>1, <2>1, <3>2 DEF CallOwn, Call
    <3> QED
      BY <3>1, <3>3
  <2>5. CallOwn(store(op), row, replaced)
    BY <1>1, <2>1, <2>4 DEF CallOwn, Call
  <2>6. CallOwn(Continues(next(op)), row, replaced)
    BY <2>4, ContinuesOwn
  <2> HIDE DEF next, store
  <2> QED
    BY <2>2, <2>5, <2>6, OwnReads
<1>7. CASE StopAsk(c)
  <2> DEFINE word == IF api[d.run].status = "running" THEN "stopping" ELSE api[d.run].status
             mark == [d EXCEPT !.pc = "mark", !.word = word]
  <2>1. d.pc = "ask" /\ d.run \in Keys /\ api[d.run].status # "none"
    BY <1>1, <1>7 DEF StopAsk, At, CallWhole
  <2>2. /\ api' = [api EXCEPT ![d.run].status = word]
        /\ Becomes(c, IdleCall) \/ Becomes(c, mark)
        /\ row' = row /\ sent' = sent /\ replaced' = replaced
    BY <1>7 DEF StopAsk, Registry
  <2>3. KeysSame /\ RunsSame
    BY <2>2 DEF KeysSame, RunsSame
  <2>4. NoNewRuns
    BY <2>1, <2>2 DEF NoNewRuns, TypeInv, ApiRun
  <2>5. CallOwn(mark, row, replaced)
    BY <1>1, <2>1 DEF CallOwn, Call
  <2> HIDE DEF mark
  <2> QED
    BY <2>2, <2>3, <2>4, <2>5, IdleOwn, CallsOwnKept, OwnKept
<1> QED
  BY <1>3, <1>4, <1>5, <1>6, <1>7

-----------------------------------------------------------------------------
LEMMA NextOwnInv == TypeInv /\ OwnInv /\ [Next]_vars => OwnInv'
<1> SUFFICES ASSUME TypeInv, OwnInv, [Next]_vars PROVE OwnInv'
  OBVIOUS
<1>1. CASE \E c \in Callers : CallBegins(c)
  BY <1>1, BeginningOwn
<1>2. CASE \E c \in Callers : StartStep(c)
  BY <1>2, StartLookOwn, StartSaveOwn, SubmitOwn, RecordOwn, LookOwn DEF StartStep
<1>3. CASE \E c \in Callers : StatusStep(c)
  BY <1>3, RecordOwn, LookOwn DEF StatusStep
<1>4. CASE \E run \in Keys : RunEnds(run)
  <2>1. PICK run \in Keys, word \in Ended :
          api[run].status # "none" /\ api' = [api EXCEPT ![run].status = word]
    BY <1>4 DEF RunEnds
  <2>2. row' = row /\ sent' = sent /\ replaced' = replaced /\ call' = call
    BY <1>4 DEF RunEnds, Registry
  <2>3. KeysSame /\ RunsSame /\ NoNewRuns
    BY <2>1, <2>2 DEF KeysSame, RunsSame, NoNewRuns, TypeInv, ApiRun
  <2>4. CallsOwn'
    BY <2>2 DEF OwnInv, CallsOwn
  <2> QED
    BY <2>2, <2>3, <2>4, OwnKept
<1>5. CASE Crash
  <2>1. row' = row /\ sent' = sent /\ replaced' = replaced /\ api' = api
        /\ call' = [c \in Callers |-> IdleCall]
    BY <1>5 DEF Crash, Registry, External
  <2>2. KeysSame /\ RunsSame /\ NoNewRuns
    BY <2>1 DEF KeysSame, RunsSame, NoNewRuns
  <2>3. CallsOwn'
    BY <2>1, IdleOwn DEF CallsOwn
  <2> QED
    BY <2>1, <2>2, <2>3, OwnKept
<1>6. CASE UNCHANGED vars
  <2>1. row' = row /\ sent' = sent /\ replaced' = replaced /\ api' = api /\ call' = call
    BY <1>6 DEF vars
  <2>2. KeysSame /\ RunsSame /\ NoNewRuns
    BY <2>1 DEF KeysSame, RunsSame, NoNewRuns
  <2>3. CallsOwn'
    BY <2>1 DEF OwnInv, CallsOwn
  <2> QED
    BY <2>1, <2>2, <2>3, OwnKept
<1> QED
  BY <1>1, <1>2, <1>3, <1>4, <1>5, <1>6 DEF Next

LEMMA OwnAlwaysHolds == Spec => [](TypeInv /\ OwnInv)
BY InitTypeInv, NextTypeInv, InitOwnInv, NextOwnInv, PTL DEF Spec

(***************************************************************************)
(* Whatever overlaps, is lost or restarted, and whichever keys callers     *)
(* supply: the API accepts submits of a request only under the key of its  *)
(* row, unless the row was replaced by an overlapping admission.           *)
(***************************************************************************)
THEOREM KeptIdentity == Spec => []OneIdentity
<1>1. OwnInv => OneIdentity
  BY DEF OwnInv, SubmitsKeyed, OneIdentity
<1> QED
  BY <1>1, OwnAlwaysHolds, PTL

(***************************************************************************)
(* A recorded run was created for the payload of the request that names it *)
(* and no second request names it, as long as no row was replaced.         *)
(***************************************************************************)
THEOREM OwnRuns == Spec => []RunIsOwn
<1>1. TypeInv /\ OwnInv => RunIsOwn
  <2> SUFFICES ASSUME TypeInv, OwnInv, replaced = {}, NEW r \in Requests, row[r].run # NoRun
               PROVE  api[row[r].run].payload = row[r].payload /\ Owners(row[r].run) = {r}
    BY DEF RunIsOwn
  <2>1. ASSUME NEW q \in Requests, row[q].run # NoRun
        PROVE  Present(row[q]) /\ row[q].run = row[q].key /\ row[q].key \in Keys
               /\ api[row[q].key].status # "none"
    BY <2>1, NamesAssumption DEF TypeInv, RowWhole, OwnInv, RunsKeyed, Row, Present
  <2>2. Present(row[r]) /\ row[r].run = row[r].key /\ row[r].key \in Keys
        /\ api[row[r].key].status # "none"
    BY <2>1
  <2>3. PICK q \in Requests : Present(row[q]) /\ row[q].key = row[r].key
                             /\ row[q].payload = api[row[r].key].payload
    BY <2>2 DEF OwnInv, RunsMade
  <2>4. q = r
    BY <2>2, <2>3 DEF OwnInv, KeysUnique
  <2>5. \A s \in Requests : row[s].run = row[r].run => s = r
    BY <2>1, <2>2 DEF OwnInv, KeysUnique
  <2> QED
    BY <2>2, <2>3, <2>4, <2>5 DEF Owners
<1> QED
  BY <1>1, OwnAlwaysHolds, PTL

-----------------------------------------------------------------------------
(***************************************************************************)
(* One outcome.  A status that a call is about to write, and that says how *)
(* a run ended, is what the API says of that run, for good; and the row it *)
(* will be written to names that very run: a run a row has once got stays  *)
(* (RunsKeyed), and a row without one is never resolved.                   *)
(***************************************************************************)
Final == {"completed", "cancelled"}

RowTrue(record, runs) ==
  record.status \in Final => record.run \in Keys /\ runs[record.run].status = record.status

CallTrue(d, rows, runs) ==
  /\ d.pc = "fail" => d.word \notin Final
  /\ d.pc \in {"ask", "store", "mark"} /\ d.rec # NoRequest =>
       d.run \in Keys /\ rows[d.rec].run = d.run
  /\ d.pc \in {"record", "store", "mark"} /\ d.word \in Final => runs[d.run].status = d.word

OutcomeInv ==
  replaced = {} =>
    /\ \A r \in Requests : RowTrue(row[r], api)
    /\ \A c \in Callers : CallTrue(call[c], row, api)

LEMMA InitOutcomeInv == Init => OutcomeInv
<1> SUFFICES ASSUME Init PROVE OutcomeInv
  OBVIOUS
<1>1. \A r \in Requests : RowTrue(row[r], api)
  BY DEF Init, AbsentRow, RowTrue, Final
<1>2. \A c \in Callers : CallTrue(call[c], row, api)
  BY DEF Init, IdleCall, CallTrue
<1> QED
  BY <1>1, <1>2 DEF OutcomeInv

\* What becomes of the rows' runs, and of the runs, in any step but a replacement.
RunsStay == \A r \in Requests : row[r].run # NoRun => row'[r].run = row[r].run

EndsStay == \A k \in Keys : api[k].status \in Final => api'[k].status = api[k].status

\* A call that waits is not affected by such a step.
LEMMA CallTrueKept ==
  ASSUME TypeInv, RunsStay, EndsStay, NEW d \in Call, CallWhole(d, row, api), CallTrue(d, row, api)
  PROVE  CallTrue(d, row', api')
<1>1. d.rec \in Requests \cup {NoRequest}
  BY DEF Call
<1>2. d.pc \in {"ask", "store", "mark"} /\ d.rec # NoRequest =>
        d.run \in Keys /\ row'[d.rec].run = d.run
  BY <1>1, NamesAssumption DEF CallTrue, RunsStay
<1>3. d.pc \in {"record", "store", "mark"} => d.run \in Keys
  BY <1>1 DEF CallTrue, CallWhole
<1> QED
  BY <1>2, <1>3 DEF CallTrue, EndsStay

\* One call steps and the rows stay true.
LEMMA OutcomeStep ==
  ASSUME TypeInv, OutcomeInv, replaced' = {} => replaced = {}, RunsStay, EndsStay,
         NEW c \in Callers, NEW next, Becomes(c, next),
         replaced' = {} => CallTrue(next, row', api'),
         replaced' = {} => \A r \in Requests : RowTrue(row'[r], api')
  PROVE  OutcomeInv'
<1> SUFFICES ASSUME replaced' = {}
             PROVE  \A e \in Callers : CallTrue(call'[e], row', api')
  BY DEF OutcomeInv
<1> TAKE e \in Callers
<1>1. CASE e = c
  <2>1. call'[e] = next
    BY <1>1 DEF Becomes, TypeInv
  <2> QED
    BY <2>1
<1>2. CASE e # c
  <2>1. call'[e] = call[e]
    BY <1>2 DEF Becomes, TypeInv
  <2>2. call[e] \in Call /\ CallWhole(call[e], row, api) /\ CallTrue(call[e], row, api)
    BY DEF TypeInv, OutcomeInv
  <2> QED
    BY <2>1, <2>2, CallTrueKept
<1> QED
  BY <1>1, <1>2

LEMMA RowTrueKept ==
  ASSUME EndsStay, NEW record, RowTrue(record, api)
  PROVE  RowTrue(record, api')
BY DEF RowTrue, EndsStay

\* A step that only reads.
LEMMA OutcomeReads ==
  ASSUME TypeInv, OutcomeInv, NEW c \in Callers, NEW next, Moves(c, next),
         replaced = {} => CallTrue(next, row, api)
  PROVE  OutcomeInv'
<1>1. Becomes(c, next) /\ row' = row /\ api' = api /\ replaced' = replaced
  BY DEF Moves, Registry, External
<1>2. RunsStay /\ EndsStay
  BY <1>1 DEF RunsStay, EndsStay
<1>3. replaced' = {} => CallTrue(next, row', api') /\ \A r \in Requests : RowTrue(row'[r], api')
  BY <1>1 DEF OutcomeInv
<1> QED
  BY <1>1, <1>2, <1>3, OutcomeStep

LEMMA IdleTrue == \A rows, runs : CallTrue(IdleCall, rows, runs)
BY DEF IdleCall, CallTrue

LEMMA ContinuesTrue ==
  ASSUME NEW d \in Call
  PROVE  \A rows, runs : CallTrue(Continues(d), rows, runs)
<1>1. CASE d.op = "retry"
  BY <1>1 DEF Continues, CallTrue, Call
<1>2. CASE d.op # "retry"
  BY <1>2, IdleTrue DEF Continues
<1> QED
  BY <1>1, <1>2

\* A call and its row, as the lemmas below use them.
LEMMA CallFacts ==
  ASSUME TypeInv, OutcomeInv, NEW c \in Callers
  PROVE  /\ call[c] \in Call /\ CallWhole(call[c], row, api)
         /\ replaced = {} => CallTrue(call[c], row, api)
BY DEF TypeInv, OutcomeInv

LEMMA BeginningTrue ==
  ASSUME TypeInv, OutcomeInv, NEW c \in Callers, CallBegins(c)
  PROVE  OutcomeInv'
<1>1. ASSUME NEW op, NEW run \in Keys, Begin(c, op, run) PROVE OutcomeInv'
  <2> DEFINE next == [IdleCall EXCEPT !.pc = "resolve", !.op = op, !.run = run]
  <2>1. CallTrue(next, row, api)
    BY DEF CallTrue, IdleCall
  <2>2. Moves(c, next)
    BY <1>1 DEF Begin
  <2> HIDE DEF next
  <2> QED
    BY <2>1, <2>2, OutcomeReads
<1>2. ASSUME NEW r \in Requests, NEW key \in Keys, NEW payload \in Payloads,
             StartRead(c, r, key, payload)
      PROVE  OutcomeInv'
  <2> DEFINE next == [IdleCall EXCEPT !.pc = "key", !.op = "start", !.req = r, !.key = key,
                       !.payload = payload, !.lane = LaneOf[payload], !.existing = row[r]]
  <2>1. CallTrue(next, row, api)
    BY DEF CallTrue, IdleCall
  <2>2. Becomes(c, next) /\ row' = row /\ api' = api /\ replaced' = replaced
    BY <1>2 DEF StartRead, Registry, External
  <2> HIDE DEF next
  <2>3. RunsStay /\ EndsStay
    BY <2>2 DEF RunsStay, EndsStay
  <2>4. replaced' = {} => CallTrue(next, row', api') /\ \A q \in Requests : RowTrue(row'[q], api')
    BY <2>1, <2>2 DEF OutcomeInv
  <2> QED
    BY <2>2, <2>3, <2>4, OutcomeStep
<1> QED
  BY <1>1, <1>2 DEF CallBegins, StatusStart, StopStart

LEMMA StartLookTrue ==
  ASSUME TypeInv, OutcomeInv, NEW c \in Callers, StartKey(c) \/ StartLane(c) \/ SubmitRefused(c)
  PROVE  OutcomeInv'
<1> DEFINE d == call[c]
<1>1. d \in Call
  BY CallFacts
<1>2. ASSUME NEW next, Moves(c, next), next.pc \in {"lane", "save", "resolve", "submit"}
      PROVE  OutcomeInv'
  <2>1. CallTrue(next, row, api)
    BY <1>2 DEF CallTrue
  <2> QED
    BY <1>2, <2>1, OutcomeReads
<1>3. ASSUME Moves(c, IdleCall) PROVE OutcomeInv'
  BY <1>3, IdleTrue, OutcomeReads
<1>4. CASE StartKey(c)
  <2> DEFINE next == [d EXCEPT !.pc = "lane"]
  <2>1. next.pc = "lane"
    BY <1>1 DEF Call
  <2>2. Moves(c, IdleCall) \/ Moves(c, next)
    BY <1>4 DEF StartKey
  <2> HIDE DEF next
  <2> QED
    BY <1>2, <1>3, <2>1, <2>2
<1>5. CASE StartLane(c)
  <2>1. PICK next : Moves(c, next) /\ (next = IdleCall \/ next.pc \in {"save", "resolve", "submit"})
    <3> DEFINE session == IF SessionOf[d.payload] # NoSession THEN SessionOf[d.payload]
                                                              ELSE binding[d.lane]
               base == [d EXCEPT !.existing = AbsentRow, !.session = session]
               new == [base EXCEPT !.pc = "save"]
               ask == [base EXCEPT !.pc = "resolve", !.op = "retry",
                                   !.key = StoredKey(d), !.run = d.existing.run]
               again == [base EXCEPT !.pc = "submit", !.key = StoredKey(d)]
    <3>1. new.pc = "save" /\ ask.pc = "resolve" /\ again.pc = "submit"
      BY <1>1 DEF Call
    <3>2. Moves(c, IdleCall) \/ Moves(c, new) \/ Moves(c, ask) \/ Moves(c, again)
      BY <1>5 DEF StartLane
    <3> HIDE DEF new, ask, again
    <3> QED
      BY <3>1, <3>2
  <2> QED
    BY <1>2, <1>3, <2>1
<1>6. CASE SubmitRefused(c)
  <2>1. PICK word \in {"failed", "unknown"} : Moves(c, [d EXCEPT !.pc = "fail", !.word = word])
    BY <1>6 DEF SubmitRefused
  <2> DEFINE next == [d EXCEPT !.pc = "fail", !.word = word]
  <2>2. CallTrue(next, row, api)
    BY <1>1 DEF CallTrue, Call, Final
  <2>3. Moves(c, next)
    BY <2>1
  <2> HIDE DEF next
  <2> QED
    BY <2>2, <2>3, OutcomeReads
<1> QED
  BY <1>4, <1>5, <1>6

\* A new row names no run and says nothing yet.
LEMMA StartSaveTrue ==
  ASSUME TypeInv, OutcomeInv, NEW c \in Callers, StartSave(c)
  PROVE  OutcomeInv'
<1> DEFINE d == call[c]
           next == [d EXCEPT !.pc = "submit"]
<1>1. d \in Call /\ d.req \in Requests
  BY CallFacts DEF StartSave, At, CallWhole
<1>2. CASE Holders(d.key) \ {d.req} # {}
  <2>1. Moves(c, IdleCall)
    BY <1>2 DEF StartSave, Moves
  <2> QED
    BY <2>1, IdleTrue, OutcomeReads
<1>3. CASE Holders(d.key) \ {d.req} = {}
  <2>1. /\ row' = [row EXCEPT ![d.req] = [status |-> "pending", key |-> d.key, payload |-> d.payload,
                                          run |-> NoRun, session |-> d.session]]
        /\ replaced' = IF Present(row[d.req]) THEN replaced \cup {d.req} ELSE replaced
        /\ Becomes(c, next) /\ api' = api
    BY <1>3 DEF StartSave, External
  <2> SUFFICES ASSUME replaced' = {} PROVE OutcomeInv'
    BY DEF OutcomeInv
  <2>2. replaced = {} /\ ~Present(row[d.req])
    BY <2>1
  <2>3. row[d.req].run = NoRun
    BY <1>1, <2>2 DEF TypeInv, RowWhole, Present
  <2>4. RunsStay /\ EndsStay
    BY <1>1, <2>1, <2>3 DEF RunsStay, EndsStay, TypeInv
  <2>5. \A r \in Requests : RowTrue(row'[r], api')
    BY <1>1, <2>1, <2>2 DEF OutcomeInv, RowTrue, TypeInv, Final
  <2>6. CallTrue(next, row', api')
    BY <1>1 DEF CallTrue, Call
  <2> HIDE DEF next
  <2> QED
    BY <2>1, <2>2, <2>4, <2>5, <2>6, OutcomeStep
<1> QED
  BY <1>2, <1>3

\* The API answers a submit with the run it keeps, whose end is final.
LEMMA SubmitTrue ==
  ASSUME TypeInv, OutcomeInv, NEW c \in Callers, SubmitAccepted(c) \/ SubmitLost(c)
  PROVE  OutcomeInv'
<1> DEFINE d == call[c]
           run == ApiAccepts(d)
<1>1. d \in Call /\ d.key \in Keys
  BY CallFacts DEF SubmitAccepted, SubmitLost, At, CallWhole
<1>2. row' = row /\ replaced' = replaced /\ api' = [api EXCEPT ![d.key] = run]
  BY DEF SubmitAccepted, SubmitLost, Registry
<1>3. RunsStay /\ api'[d.key] = run
  BY <1>1, <1>2 DEF RunsStay, TypeInv
<1>4. EndsStay
  BY <1>1, <1>2 DEF EndsStay, TypeInv, ApiAccepts, Final
<1>5. replaced' = {} => \A r \in Requests : RowTrue(row'[r], api')
  BY <1>2, <1>4, RowTrueKept DEF OutcomeInv
<1>6. CASE SubmitAccepted(c)
  <2>1. PICK word \in {"started", run.status}, session \in {run.session, Assumed(d)} :
          Becomes(c, [d EXCEPT !.pc = "record", !.word = word, !.run = d.key, !.reply = session])
    BY <1>6 DEF SubmitAccepted
  <2> DEFINE next == [d EXCEPT !.pc = "record", !.word = word, !.run = d.key, !.reply = session]
  <2>2. next.pc = "record" /\ next.word = word /\ next.run = d.key
    BY <1>1 DEF Call
  <2>3. Becomes(c, next)
    BY <2>1
  <2> HIDE DEF next, run
  <2>4. CallTrue(next, row', api')
    BY <1>3, <2>2 DEF CallTrue, Final
  <2> QED
    BY <1>2, <1>3, <1>4, <1>5, <2>3, <2>4, OutcomeStep
<1>7. CASE SubmitLost(c)
  <2>1. PICK word \in {"failed", "unknown"} : Becomes(c, [d EXCEPT !.pc = "fail", !.word = word])
    BY <1>7 DEF SubmitLost
  <2> DEFINE next == [d EXCEPT !.pc = "fail", !.word = word]
  <2>2. CallTrue(next, row', api')
    BY <1>1 DEF CallTrue, Call, Final
  <2>3. Becomes(c, next)
    BY <2>1
  <2> HIDE DEF next, run
  <2> QED
    BY <1>2, <1>3, <1>4, <1>5, <2>2, <2>3, OutcomeStep
<1> QED
  BY <1>6, <1>7

(***************************************************************************)
(* What is written: the answer of a submit with its run, the answer of a   *)
(* status or a stop to a row that names the run asked for, and a failure   *)
(* that is no outcome.                                                     *)
(***************************************************************************)
LEMMA RecordTrue ==
  ASSUME TypeInv, OwnInv, OutcomeInv, NEW c \in Callers,
         StartRecord(c) \/ StartFail(c) \/ StatusStore(c) \/ StopMark(c)
  PROVE  OutcomeInv'
<1> DEFINE d == call[c]
           bind == [d EXCEPT !.pc = "bind"]
<1>1. d \in Call /\ CallWhole(d, row, api) /\ CallOwn(d, row, replaced)
      /\ (replaced = {} => CallTrue(d, row, api))
  BY CallFacts, CallIsOwn
<1>2. api' = api /\ replaced' = replaced
  BY DEF StartRecord, StartFail, StatusStore, StopMark, External
<1>3. EndsStay
  BY <1>2 DEF EndsStay
<1>4. \A rows, runs : CallTrue(bind, rows, runs)
  BY <1>1 DEF CallTrue, Call
<1>5. ASSUME NEW r \in Requests, NEW record, row' = [row EXCEPT ![r] = record],
             row[r].run # NoRun /\ replaced = {} => record.run = row[r].run,
             replaced = {} => RowTrue(record, api),
             NEW next, Becomes(c, next), \A rows, runs : CallTrue(next, rows, runs)
      PROVE  OutcomeInv'
  <2> SUFFICES ASSUME replaced = {} PROVE OutcomeInv'
    BY <1>2 DEF OutcomeInv
  <2>1. RunsStay
    BY <1>5 DEF RunsStay, TypeInv
  <2>2. \A q \in Requests : RowTrue(row'[q], api')
    BY <1>2, <1>5 DEF OutcomeInv, TypeInv
  <2> QED
    BY <1>2, <1>3, <1>5, <2>1, <2>2, OutcomeStep
<1>6. CASE StartRecord(c)
  <2> DEFINE record == [row[d.req] EXCEPT !.status = d.word, !.run = d.run, !.session = d.reply]
  <2>1. d.pc = "record" /\ d.req \in Requests /\ d.run \in Keys /\ row[d.req] \in Row
    BY <1>1, <1>6 DEF StartRecord, At, CallWhole, TypeInv
  <2>2. record.status = d.word /\ record.run = d.run
    BY <2>1 DEF Row
  <2>3. row[d.req].run # NoRun /\ replaced = {} => record.run = row[d.req].run
    BY <1>1, <2>1, <2>2 DEF CallOwn, OwnInv, RunsKeyed
  <2>4. replaced = {} => RowTrue(record, api)
    BY <1>1, <2>1, <2>2 DEF RowTrue, CallTrue
  <2>5. row' = [row EXCEPT ![d.req] = record] /\ Becomes(c, bind)
    BY <1>6 DEF StartRecord
  <2> HIDE DEF record, bind
  <2> QED
    BY <1>4, <1>5, <2>1, <2>3, <2>4, <2>5
<1>7. CASE StatusStore(c)
  <2> DEFINE record == [row[d.rec] EXCEPT !.status = d.word, !.session = d.reply]
  <2>1. d.pc = "store" /\ d.rec \in Requests /\ row[d.rec] \in Row
    BY <1>1, <1>7 DEF StatusStore, At, CallWhole, TypeInv, Call
  <2>2. record.status = d.word /\ record.run = row[d.rec].run
    BY <2>1 DEF Row
  <2>3. replaced = {} => RowTrue(record, api)
    BY <1>1, <2>1, <2>2, NamesAssumption DEF RowTrue, CallTrue
  <2>4. row' = [row EXCEPT ![d.rec] = record] /\ Becomes(c, bind)
    BY <1>7 DEF StatusStore
  <2> HIDE DEF record, bind
  <2> QED
    BY <1>4, <1>5, <2>1, <2>2, <2>3, <2>4
<1>8. CASE StopMark(c)
  <2> DEFINE record == [row[d.rec] EXCEPT !.status = d.word]
  <2>1. d.pc = "mark" /\ d.rec \in Requests /\ row[d.rec] \in Row
    BY <1>1, <1>8 DEF StopMark, At, CallWhole, TypeInv, Call
  <2>2. record.status = d.word /\ record.run = row[d.rec].run
    BY <2>1 DEF Row
  <2>3. replaced = {} => RowTrue(record, api)
    BY <1>1, <2>1, <2>2, NamesAssumption DEF RowTrue, CallTrue
  <2>4. row' = [row EXCEPT ![d.rec] = record] /\ Becomes(c, IdleCall)
    BY <1>8 DEF StopMark
  <2> HIDE DEF record
  <2> QED
    BY <1>5, <2>1, <2>2, <2>3, <2>4, IdleTrue
<1>9. CASE StartFail(c)
  <2> DEFINE record == [row[d.req] EXCEPT !.status = d.word]
  <2>1. d.pc = "fail" /\ d.req \in Requests /\ row[d.req] \in Row
    BY <1>1, <1>9 DEF StartFail, At, CallWhole, TypeInv
  <2>2. record.status = d.word /\ record.run = row[d.req].run
    BY <2>1 DEF Row
  <2>3. replaced = {} => RowTrue(record, api)
    BY <1>1, <2>1, <2>2 DEF RowTrue, CallTrue
  <2>4. row' = [row EXCEPT ![d.req] = record] /\ Becomes(c, IdleCall)
    BY <1>9 DEF StartFail
  <2> HIDE DEF record
  <2> QED
    BY <1>5, <2>1, <2>2, <2>3, <2>4, IdleTrue
<1> QED
  BY <1>6, <1>7, <1>8, <1>9

LEMMA LookTrue ==
  ASSUME TypeInv, OutcomeInv, NEW c \in Callers,
         Bind(c) \/ Resolve(c) \/ StatusAnswered(c) \/ AskFails(c) \/ StopAsk(c)
  PROVE  OutcomeInv'
<1> DEFINE d == call[c]
<1>1. d \in Call /\ CallWhole(d, row, api) /\ (replaced = {} => CallTrue(d, row, api))
  BY CallFacts
<1>2. \A rows, runs : CallTrue(Continues(d), rows, runs)
  BY <1>1, ContinuesTrue
<1>3. CASE Bind(c)
  <2>1. Becomes(c, Continues(d)) /\ row' = row /\ api' = api /\ replaced' = replaced
    BY <1>3 DEF Bind, External
  <2>2. RunsStay /\ EndsStay
    BY <2>1 DEF RunsStay, EndsStay
  <2>3. replaced' = {} => \A r \in Requests : RowTrue(row'[r], api')
    BY <2>1 DEF OutcomeInv
  <2> QED
    BY <1>2, <2>1, <2>2, <2>3, OutcomeStep
<1>4. CASE AskFails(c)
  BY <1>2, <1>4, OutcomeReads DEF AskFails
<1>5. CASE Resolve(c)
  <2>1. d.pc = "resolve" /\ d.run \in Keys /\ d.rec = NoRequest
    BY <1>1, <1>5 DEF Resolve, At, CallWhole
  <2>2. CASE Moves(c, [d EXCEPT !.pc = "ask"])
    <3>1. CallTrue([d EXCEPT !.pc = "ask"], row, api)
      BY <1>1, <2>1 DEF CallTrue, Call
    <3> QED
      BY <2>2, <3>1, OutcomeReads
  <2>3. ASSUME NEW r \in Owners(d.run),
               Moves(c, [d EXCEPT !.pc = "ask", !.rec = r, !.lane = LaneOf[row[r].payload]])
        PROVE  OutcomeInv'
    <3> DEFINE known == [d EXCEPT !.pc = "ask", !.rec = r, !.lane = LaneOf[row[r].payload]]
    <3>1. Moves(c, known)
      BY <2>3
    <3>2. CallTrue(known, row, api)
      BY <1>1, <2>1 DEF CallTrue, Call, Owners
    <3> HIDE DEF known
    <3> QED
      BY <3>1, <3>2, OutcomeReads
  <2> QED
    BY <1>5, <2>2, <2>3, Zenon DEF Resolve
<1>6. CASE StatusAnswered(c)
  <2> DEFINE run == api[d.run]
  <2>1. d.pc = "ask" /\ run.status \in Words /\ run.session \in AnySession
    BY <1>1, <1>6 DEF StatusAnswered, At, CallWhole, TypeInv, ApiRun, RunWhole, Words
  <2>2. PICK op \in {"status", d.op} :
          Moves(c, IF d.rec = NoRequest
                   THEN Continues([d EXCEPT !.op = op, !.word = run.status, !.reply = run.session])
                   ELSE [d EXCEPT !.op = op, !.word = run.status, !.reply = run.session,
                                  !.pc = "store"])
    BY <1>6, Zenon DEF StatusAnswered
  <2> DEFINE next == [d EXCEPT !.op = op, !.word = run.status, !.reply = run.session]
             store == [next EXCEPT !.pc = "store"]
  <2>3. next \in Call
    BY <1>1, <2>1, <2>2 DEF Call
  <2>4. store.pc = "store" /\ store.word = run.status /\ store.run = d.run /\ store.rec = d.rec
    BY <1>1 DEF Call
  <2>5. Moves(c, IF d.rec = NoRequest THEN Continues(next) ELSE store)
    BY <2>2
  <2> HIDE DEF next, store
  <2>6. replaced = {} /\ d.rec # NoRequest => CallTrue(store, row, api)
    BY <1>1, <2>1, <2>4 DEF CallTrue
  <2> QED
    BY <2>3, <2>5, <2>6, ContinuesTrue, OutcomeReads
<1>7. CASE StopAsk(c)
  <2> DEFINE word == IF api[d.run].status = "running" THEN "stopping" ELSE api[d.run].status
             mark == [d EXCEPT !.pc = "mark", !.word = word]
  <2>1. d.pc = "ask" /\ d.run \in Keys
    BY <1>1, <1>7 DEF StopAsk, At, CallWhole
  <2>2. /\ api' = [api EXCEPT ![d.run].status = word]
        /\ Becomes(c, IdleCall) \/ (d.rec # NoRequest /\ Becomes(c, mark))
        /\ row' = row /\ replaced' = replaced
    BY <1>7 DEF StopAsk, Registry
  <2>3. api'[d.run].status = word /\ RunsStay
    BY <2>1, <2>2 DEF TypeInv, ApiRun, RunsStay
  <2>4. EndsStay
    BY <2>1, <2>2 DEF EndsStay, TypeInv, ApiRun, Final
  <2>5. mark.pc = "mark" /\ mark.word = word /\ mark.rec = d.rec /\ mark.run = d.run
    BY <1>1 DEF Call
  <2> HIDE DEF mark, word
  <2>6. replaced = {} /\ d.rec # NoRequest => CallTrue(mark, row', api')
    BY <1>1, <2>1, <2>2, <2>3, <2>5 DEF CallTrue
  <2>7. replaced' = {} => \A r \in Requests : RowTrue(row'[r], api')
    BY <2>2, <2>4, RowTrueKept DEF OutcomeInv
  <2> QED
    BY <2>2, <2>3, <2>4, <2>6, <2>7, IdleTrue, OutcomeStep
<1> QED
  BY <1>3, <1>4, <1>5, <1>6, <1>7

LEMMA NextOutcomeInv == TypeInv /\ OwnInv /\ OutcomeInv /\ [Next]_vars => OutcomeInv'
<1> SUFFICES ASSUME TypeInv, OwnInv, OutcomeInv, [Next]_vars PROVE OutcomeInv'
  OBVIOUS
<1>1. CASE \E c \in Callers : CallBegins(c)
  BY <1>1, BeginningTrue
<1>2. CASE \E c \in Callers : StartStep(c)
  BY <1>2, StartLookTrue, StartSaveTrue, SubmitTrue, RecordTrue, LookTrue DEF StartStep
<1>3. CASE \E c \in Callers : StatusStep(c)
  BY <1>3, RecordTrue, LookTrue DEF StatusStep
<1>4. ASSUME row' = row, replaced' = replaced, EndsStay,
             \A c \in Callers : call'[c] \in {call[c], IdleCall}
      PROVE  OutcomeInv'
  <2> SUFFICES ASSUME replaced = {} PROVE OutcomeInv'
    BY <1>4 DEF OutcomeInv
  <2>1. RunsStay
    BY <1>4 DEF RunsStay
  <2>2. \A r \in Requests : RowTrue(row'[r], api')
    BY <1>4, RowTrueKept DEF OutcomeInv
  <2>3. ASSUME NEW c \in Callers PROVE CallTrue(call'[c], row', api')
    <3>1. CallTrue(call[c], row', api')
      BY <1>4, <2>1, CallFacts, CallTrueKept
    <3> QED
      BY <1>4, <3>1, IdleTrue
  <2> QED
    BY <2>2, <2>3 DEF OutcomeInv
<1>5. CASE \E run \in Keys : RunEnds(run)
  <2>1. PICK run \in Keys, word \in Ended :
          /\ api[run].status \in {"running", "stopping"}
          /\ api' = [api EXCEPT ![run].status = word]
    BY <1>5 DEF RunEnds
  <2>2. EndsStay
    BY <2>1 DEF EndsStay, TypeInv, ApiRun, Final
  <2> QED
    BY <1>4, <1>5, <2>2 DEF RunEnds, Registry
<1>6. CASE Crash
  BY <1>4, <1>6 DEF Crash, Registry, External, EndsStay
<1>7. CASE UNCHANGED vars
  BY <1>4, <1>7 DEF vars, EndsStay
<1> QED
  BY <1>1, <1>2, <1>3, <1>5, <1>6, <1>7 DEF Next

(***************************************************************************)
(* Whatever answers come late, overtake each other or are lost: a row says *)
(* "completed" or "cancelled" only of a run that ended so, while no row    *)
(* was replaced.                                                           *)
(***************************************************************************)
THEOREM OutcomesAreTrue == Spec => []RecordedOutcomeIsTrue
<1>1. TypeInv /\ OutcomeInv => RecordedOutcomeIsTrue
  BY NamesAssumption DEF OutcomeInv, RowTrue, RecordedOutcomeIsTrue, Final
<1> QED
  BY <1>1, InitOutcomeInv, NextOutcomeInv, OwnAlwaysHolds, PTL DEF Spec
=============================================================================
