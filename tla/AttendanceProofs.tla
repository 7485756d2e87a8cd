--------------------------- MODULE AttendanceProofs ---------------------------
(***************************************************************************)
(* Proofs about Attendance, for any number of attendees, events, requests  *)
(* and rows and any clock: first the types of the tables.  What a          *)
(* statement reads into a request is used by the next one, so the type     *)
(* invariant has to say what a request holds at each of its statements.    *)
(***************************************************************************)
EXTENDS MCAttendanceStores, TLAPS

\* The statements that use the user, and those that use the event, of a request.
UserLabels ==
  {"join_event", "join_lookup", "join_insert", "consent_joined", "consent_template",
   "consent_lookup", "consent_insert", "consent_save", "gate_qr", "gate_joined",
   "gate_scan", "gate_template", "gate_consent", "gate_fence", "clock_in_stamp",
   "clock_in_insert", "clock_out_select", "clock_out_save", "mark_event",
   "mark_lookup", "mark_insert"}
EventLabels ==
  Labels \ {"idle", "clock_in_stamp", "clock_in_insert", "clock_out_select", "clock_out_save"}

Fits(l, r) ==
  /\ l \in UserLabels => r.user \in Users
  /\ l \in EventLabels => r.event \in Events
  /\ l = "clock_out_save" => r.row \in SessionRow
  /\ l \in {"update_event_read", "update_event_write"} => r.times \in Schedules

RequestsFit == \A w \in Workers : Fits(pc[w], req[w])

JobFits ==
  /\ job.pc \notin {"idle", "next"} => job.event \in Events
  /\ job.pc # "idle" => job.found \in 0..MaxTime

\* TypeOK without the requests.
TablesOK ==
  /\ now \in 1..MaxTime
  /\ users \subseteq Users /\ events \subseteq Events
  /\ scan \subseteq events
  /\ schedule \in [Events -> Schedules]
  /\ goneLive \in [Events -> 0..MaxTime] /\ \A e \in Events \ events : goneLive[e] = 0
  /\ fences \subseteq [event : Events, fence : Fences]
  /\ templates \subseteq [event : Events, required : BOOLEAN]
  /\ joins \subseteq JoinRow /\ consents \subseteq ConsentRow
  /\ sessions \subseteq SessionRow /\ attendance \subseteq AttendanceRow
  /\ lastId \in 0..MaxId
  /\ alerts \in [Events \X Users -> 0..MaxAlerts]

TInv == TypeOK /\ RequestsFit /\ JobFits

flatTables == <<now, users, events, scan, schedule, goneLive, fences, templates, joins,
                consents, sessions, attendance, lastId, alerts>>

-----------------------------------------------------------------------------
(* Types                                                                   *)

LEMMA NoRequestType == NoRequest \in Request
<1>1. NoSession.id = 0 /\ "manual" \in Sources
  BY AttendanceAssumption DEF NoSession
<1> QED
  BY <1>1 DEF NoRequest, Request

\* A worker goes on to a statement that its request fits.
LEMMA StepKeepsTypes ==
  ASSUME TInv, TablesOK', NEW w \in Workers, NEW l \in Labels, NEW r \in Request,
         Step(w, l, r), Fits(l, r), job' = job
  PROVE  TInv'
<1>1. \A v \in Workers : /\ pc'[v] = IF v = w THEN l ELSE pc[v]
                         /\ req'[v] = IF v = w THEN r ELSE req[v]
  BY DEF TInv, TypeOK, Step
<1>2. pc' \in [Workers -> Labels] /\ req' \in [Workers -> Request]
  BY DEF TInv, TypeOK, Step
<1>3. RequestsFit'
  BY <1>1 DEF TInv, RequestsFit, Fits
<1> QED
  BY <1>2, <1>3 DEF TInv, TypeOK, TablesOK, JobFits

LEMMA ReplyKeepsTypes ==
  ASSUME TInv, TablesOK', NEW w \in Workers, Reply(w), job' = job
  PROVE  TInv'
<1>1. Fits("idle", NoRequest)
  BY DEF Fits, UserLabels, EventLabels, Labels
<1> QED
  BY <1>1, NoRequestType, StepKeepsTypes DEF Reply, Labels

LEMMA GotoKeepsTypes ==
  ASSUME TInv, TablesOK', NEW w \in Workers, NEW l \in Labels, Goto(w, l),
         Fits(l, req[w]), job' = job
  PROVE  TInv'
<1>1. Step(w, l, req[w]) /\ req[w] \in Request
  BY DEF TInv, TypeOK, Goto, Step
<1> QED
  BY <1>1, StepKeepsTypes

\* A read.
LEMMA ReadKeepsTypes ==
  ASSUME TInv, NEW w \in Workers, NEW l \in Labels, Goto(w, l) \/ Reply(w),
         Fits(l, req[w]), UNCHANGED flatTables, job' = job
  PROVE  TInv'
<1>1. TablesOK'
  BY DEF TInv, TypeOK, TablesOK, flatTables
<1> QED
  BY <1>1, GotoKeepsTypes, ReplyKeepsTypes

\* A request that starts.
LEMMA BeginKeepsTypes ==
  ASSUME TInv, NEW w \in Workers, NEW h, NEW l \in Labels, NEW r \in Request, Begin(w, h, l, r),
         Fits(l, r), UNCHANGED flatTables, job' = job
  PROVE  TInv'
<1>1. TablesOK'
  BY DEF TInv, TypeOK, TablesOK, flatTables
<1> QED
  BY <1>1, StepKeepsTypes DEF Begin, Start

\* What a request holds at its statement.
LEMMA RequestAt ==
  ASSUME TInv, NEW w \in Workers
  PROVE  req[w] \in Request /\ Fits(pc[w], req[w]) /\ TablesOK
BY DEF TInv, TypeOK, RequestsFit, TablesOK
\* A request for a user and an event.
LEMMA UserEventRequest ==
  ASSUME NEW u \in Users \cup {Nil}, NEW e \in Events \cup {Nil}
  PROVE  LET r == [NoRequest EXCEPT !.user = u, !.event = e]
         IN  r \in Request /\ r.user = u /\ r.event = e
<1>1. NoRequest.session = 0 /\ "manual" \in Sources
  BY AttendanceAssumption DEF NoRequest
<1> QED
  BY <1>1, NoRequestType DEF NoRequest, Request

\* A request that reads the clock.
LEMMA StampedRequest ==
  ASSUME TInv, NEW w \in Workers
  PROVE  LET r == [req[w] EXCEPT !.at = now]
         IN  /\ r \in Request /\ r.user = req[w].user /\ r.event = req[w].event
             /\ r.row = req[w].row /\ r.times = req[w].times
<1>1. req[w] \in Request /\ now \in Nat
  BY RequestAt DEF TablesOK
<1> QED
  BY <1>1 DEF Request

LEMMA StampKeepsTypes ==
  ASSUME TInv, NEW w \in Workers, NEW l \in Labels,
         Step(w, l, [req[w] EXCEPT !.at = now]) \/ Reply(w),
         Fits(l, [req[w] EXCEPT !.at = now]), UNCHANGED flatTables, job' = job
  PROVE  TInv'
<1>1. TablesOK'
  BY DEF TInv, TypeOK, TablesOK, flatTables
<1> QED
  BY <1>1, StampedRequest, StepKeepsTypes, ReplyKeepsTypes

LEMMA JoinKeepsTypes ==
  ASSUME TInv, NEW w \in Workers,
         JoinByQR(w) \/ JoinEvent(w) \/ JoinLookup(w) \/ JoinInsert(w)
  PROVE  TInv'
<1> USE DEF MembershipUnchanged, memberTables
<1>1. CASE JoinByQR(w)
  <2>1. PICK u \in users, e \in Events :
             Begin(w, "JoinByQR", "join_event", [NoRequest EXCEPT !.user = u, !.event = e])
    BY <1>1 DEF JoinByQR
  <2>2. u \in Users
    BY DEF TInv, TypeOK
  <2>3. Fits("join_event", [NoRequest EXCEPT !.user = u, !.event = e])
    BY <2>2, UserEventRequest DEF Fits
  <2>4. UNCHANGED flatTables /\ job' = job
    BY <1>1 DEF JoinByQR, flatTables
  <2> QED
    BY <2>1, <2>2, <2>3, <2>4, UserEventRequest, BeginKeepsTypes DEF Labels
<1>2. CASE JoinEvent(w)
  BY <1>2, RequestAt, ReadKeepsTypes
     DEF JoinEvent, Check, At, Fits, UserLabels, EventLabels, Labels, flatTables
<1>3. CASE JoinLookup(w)
  <2>1. req[w].user \in Users /\ req[w].event \in Events
    BY <1>3, RequestAt DEF JoinLookup, At, Fits, UserLabels, EventLabels, Labels
  <2>2. Fits("join_insert", [req[w] EXCEPT !.at = now])
    BY <2>1, StampedRequest DEF Fits
  <2>3. UNCHANGED flatTables /\ job' = job
    BY <1>3 DEF JoinLookup, flatTables
  <2> QED
    BY <1>3, <2>2, <2>3, StampKeepsTypes DEF JoinLookup, Labels
<1>4. CASE JoinInsert(w)
  <2>1. req[w].user \in Users /\ req[w].event \in Events
    BY <1>4, RequestAt DEF JoinInsert, At, Fits, UserLabels, EventLabels, Labels
  <2>2. lastId' \in 0..MaxId
    BY <1>4, RequestAt, AttendanceAssumption DEF JoinInsert, NewId, TablesOK
  <2>3. req[w].at \in Nat /\ now \in Nat
    BY RequestAt DEF Request, TablesOK
  <2>4. [id |-> lastId', event |-> req[w].event, user |-> req[w].user,
         at |-> req[w].at, seen |-> now] \in JoinRow
    BY <2>1, <2>2, <2>3 DEF JoinRow
  <2>5. TablesOK'
    BY <1>4, <2>2, <2>4, RequestAt DEF JoinInsert, TablesOK
  <2> QED
    BY <1>4, <2>5, ReplyKeepsTypes DEF JoinInsert
<1> QED
  BY <1>1, <1>2, <1>3, <1>4

LEMMA ConsentKeepsTypes ==
  ASSUME TInv, NEW w \in Workers,
         \/ SubmitConsent(w) \/ ConsentJoined(w) \/ ConsentTemplate(w)
         \/ ConsentLookup(w) \/ ConsentInsert(w) \/ ConsentSave(w)
  PROVE  TInv'
<1> USE DEF MembershipUnchanged, memberTables
<1>1. CASE SubmitConsent(w)
  <2>1. PICK u \in users, e \in Events :
             Begin(w, "SubmitConsent", "consent_joined", [NoRequest EXCEPT !.user = u, !.event = e])
    BY <1>1 DEF SubmitConsent
  <2>2. u \in Users
    BY DEF TInv, TypeOK
  <2>3. Fits("consent_joined", [NoRequest EXCEPT !.user = u, !.event = e])
    BY <2>2, UserEventRequest DEF Fits
  <2>4. UNCHANGED flatTables /\ job' = job
    BY <1>1 DEF SubmitConsent, flatTables
  <2> QED
    BY <2>1, <2>2, <2>3, <2>4, UserEventRequest, BeginKeepsTypes DEF Labels
<1>2. CASE ConsentJoined(w)
  BY <1>2, RequestAt, ReadKeepsTypes
     DEF ConsentJoined, Check, At, Fits, UserLabels, EventLabels, Labels, flatTables
<1>3. CASE ConsentTemplate(w)
  BY <1>3, RequestAt, ReadKeepsTypes
     DEF ConsentTemplate, Check, At, Fits, UserLabels, EventLabels, Labels, flatTables
<1>4. CASE ConsentLookup(w)
  <2> DEFINE l == IF HasConsent(req[w].event, req[w].user) THEN "consent_save" ELSE "consent_insert"
             r == [req[w] EXCEPT !.at = now]
  <2>1. req[w] \in Request /\ req[w].user \in Users /\ req[w].event \in Events /\ now \in Nat
    BY <1>4, RequestAt DEF ConsentLookup, At, Fits, UserLabels, EventLabels, Labels, TablesOK
  <2>2. r \in Request /\ r.user = req[w].user /\ r.event = req[w].event
    BY <2>1 DEF Request
  <2>3. l \in Labels /\ l # "clock_out_save"
    BY DEF Labels
  <2>4. Fits(l, r)
    BY <2>1, <2>2, <2>3 DEF Fits
  <2>5. TablesOK' /\ Step(w, l, r) /\ job' = job
    BY <1>4, RequestAt DEF ConsentLookup, TablesOK
  <2> QED
    BY <2>2, <2>3, <2>4, <2>5, StepKeepsTypes
<1>5. CASE ConsentInsert(w) \/ ConsentSave(w)
  <2>1. Consent(req[w]) \in ConsentRow
    BY <1>5, RequestAt
       DEF ConsentInsert, ConsentSave, At, Fits, UserLabels, EventLabels, Labels, Consent,
           ConsentRow, Request
  <2>2. TablesOK'
    BY <1>5, <2>1, RequestAt DEF ConsentInsert, ConsentSave, TablesOK
  <2> QED
    BY <1>5, <2>2, ReplyKeepsTypes DEF ConsentInsert, ConsentSave
<1> QED
  BY <1>1, <1>2, <1>3, <1>4, <1>5

LEMMA TemplateKeepsTypes ==
  ASSUME TInv, NEW w \in Workers,
         \/ SaveTemplate(w) \/ TemplateEvent(w) \/ TemplateLookup(w)
         \/ TemplateInsert(w) \/ TemplateSave(w)
  PROVE  TInv'
<1> USE DEF MembershipUnchanged, memberTables
<1>1. CASE SaveTemplate(w)
  <2>1. PICK e \in events :
             Begin(w, "SaveTemplate", "template_event", [NoRequest EXCEPT !.event = e])
    BY <1>1 DEF SaveTemplate
  <2>2. e \in Events
    BY DEF TInv, TypeOK
  <2>4. [NoRequest EXCEPT !.event = e] \in Request /\ [NoRequest EXCEPT !.event = e].event = e
    BY <2>2, NoRequestType DEF NoRequest, Request
  <2>5. Fits("template_event", [NoRequest EXCEPT !.event = e])
    BY <2>2, <2>4 DEF Fits, UserLabels
  <2>6. UNCHANGED flatTables /\ job' = job
    BY <1>1 DEF SaveTemplate, flatTables
  <2> QED
    BY <2>1, <2>4, <2>5, <2>6, BeginKeepsTypes DEF Labels
<1>2. CASE TemplateEvent(w)
  BY <1>2, RequestAt, ReadKeepsTypes
     DEF TemplateEvent, Check, At, Fits, UserLabels, EventLabels, Labels, flatTables
<1>3. CASE TemplateLookup(w)
  <2>1. Goto(w, "template_save") \/ Goto(w, "template_insert")
    BY <1>3 DEF TemplateLookup
  <2> QED
    BY <1>3, <2>1, RequestAt, ReadKeepsTypes
       DEF TemplateLookup, At, Fits, UserLabels, EventLabels, Labels, flatTables
<1>4. CASE TemplateInsert(w) \/ TemplateSave(w)
  <2>1. req[w].event \in Events
    BY <1>4, RequestAt
       DEF TemplateInsert, TemplateSave, At, Fits, UserLabels, EventLabels, Labels
  <2>2. templates' \subseteq [event : Events, required : BOOLEAN]
    <3>1. CASE templates' = templates
      BY <3>1, RequestAt DEF TablesOK
    <3>2. CASE templates' # templates
      <4>1. PICK required \in BOOLEAN :
              templates' \subseteq templates \cup {[event |-> req[w].event, required |-> required]}
        BY <1>4, <3>2 DEF TemplateInsert, TemplateSave
      <4> QED
        BY <2>1, <4>1, RequestAt DEF TablesOK
    <3> QED
      BY <3>1, <3>2
  <2>3. TablesOK'
    BY <1>4, <2>2, RequestAt DEF TemplateInsert, TemplateSave, TablesOK
  <2> QED
    BY <1>4, <2>3, ReplyKeepsTypes DEF TemplateInsert, TemplateSave
<1> QED
  BY <1>1, <1>2, <1>3, <1>4

LEMMA GateKeepsTypes ==
  ASSUME TInv, NEW w \in Workers,
         \/ RecordClockInHandler(w) \/ GateQR(w) \/ GateJoined(w) \/ GateScan(w)
         \/ GateTemplate(w) \/ GateConsent(w) \/ GateFence(w)
  PROVE  TInv'
<1> USE DEF ClockInUnchanged, eventTables, memberTables, rowTables
<1>1. CASE RecordClockInHandler(w)
  <2> DEFINE First(r) == CASE r.event = Nil        -> "clock_in_stamp"
                           [] r.source = "qr_scan" -> "gate_qr"
                           [] OTHER                -> "gate_joined"
             Q(r) == [NoRequest EXCEPT !.user = r.user, !.event = r.event,
                                       !.fence = r.fence, !.source = r.source]
  <2>1. PICK r \in ClockInRequests : Begin(w, "ClockIn", First(r), Q(r))
    BY <1>1 DEF RecordClockInHandler
  <2> DEFINE q == Q(r)
  <2>2. /\ r.user \in Users /\ r.event \in Events \cup {Nil}
        /\ r.fence \in Fences \cup {Nil} /\ r.source \in Sources
        /\ r.source = "qr_scan" => r.event # Nil
    BY DEF ClockInRequests, TInv, TypeOK
  <2>3. q \in Request /\ q.user = r.user /\ q.event = r.event
    BY <2>2, NoRequestType DEF NoRequest, Request
  <2>4. UNCHANGED flatTables /\ job' = job
    BY <1>1 DEF RecordClockInHandler, flatTables
  <2>5. CASE r.event = Nil
    <3>1. First(r) = "clock_in_stamp"
      BY <2>2, <2>5
    <3>2. Fits("clock_in_stamp", q)
      BY <2>2, <2>3 DEF Fits, EventLabels
    <3> QED
      BY <2>1, <2>3, <2>4, <3>1, <3>2, BeginKeepsTypes DEF Labels
  <2>6. CASE r.event # Nil
    <3>1. First(r) = "gate_qr" \/ First(r) = "gate_joined"
      BY <2>6
    <3>2. Fits("gate_qr", q) /\ Fits("gate_joined", q)
      BY <2>2, <2>3, <2>6 DEF Fits
    <3> QED
      BY <2>1, <2>3, <2>4, <3>1, <3>2, BeginKeepsTypes DEF Labels
  <2> QED
    BY <2>5, <2>6
<1>2. CASE GateQR(w)
  BY <1>2, RequestAt, ReadKeepsTypes
     DEF GateQR, Check, At, Fits, UserLabels, EventLabels, Labels, flatTables
<1>3. CASE GateJoined(w)
  BY <1>3, RequestAt, ReadKeepsTypes
     DEF GateJoined, Check, At, Fits, UserLabels, EventLabels, Labels, flatTables
<1>4. CASE GateScan(w)
  BY <1>4, RequestAt, ReadKeepsTypes
     DEF GateScan, Check, At, Fits, UserLabels, EventLabels, Labels, flatTables
<1>5. CASE GateTemplate(w)
  <2>1. Goto(w, "gate_consent") \/ Goto(w, "gate_fence")
    BY <1>5 DEF GateTemplate
  <2> QED
    BY <1>5, <2>1, RequestAt, ReadKeepsTypes
       DEF GateTemplate, At, Fits, UserLabels, EventLabels, Labels, flatTables
<1>6. CASE GateConsent(w)
  BY <1>6, RequestAt, ReadKeepsTypes
     DEF GateConsent, Check, At, Fits, UserLabels, EventLabels, Labels, flatTables
<1>7. CASE GateFence(w)
  BY <1>7, RequestAt, ReadKeepsTypes
     DEF GateFence, Check, At, Fits, UserLabels, EventLabels, Labels, flatTables
<1> QED
  BY <1>1, <1>2, <1>3, <1>4, <1>5, <1>6, <1>7

LEMMA ClockInKeepsTypes ==
  ASSUME TInv, NEW w \in Workers, ClockInStamp(w) \/ ClockInInsert(w)
  PROVE  TInv'
<1> USE DEF ClockInUnchanged, eventTables, memberTables, rowTables
<1>1. CASE ClockInStamp(w)
  <2> DEFINE r == [req[w] EXCEPT !.at = now]
  <2>1. req[w] \in Request /\ req[w].user \in Users /\ now \in Nat
    BY <1>1, RequestAt DEF ClockInStamp, At, Fits, UserLabels, TablesOK
  <2>2. r \in Request /\ r.user = req[w].user
    BY <2>1 DEF Request
  <2>3. Fits("clock_in_insert", r)
    BY <2>1, <2>2 DEF Fits, EventLabels
  <2>4. TablesOK' /\ Step(w, "clock_in_insert", r) /\ job' = job
    BY <1>1, RequestAt DEF ClockInStamp, TablesOK
  <2> QED
    BY <2>2, <2>3, <2>4, StepKeepsTypes DEF Labels
<1>2. CASE ClockInInsert(w)
  <2> DEFINE r == req[w]
             session == [id |-> lastId', user |-> r.user, event |-> r.event, fence |-> r.fence,
                         source |-> r.source, in |-> r.at, out |-> Open]
             present == [id |-> lastId', event |-> r.event, user |-> r.user,
                         via |-> "clock_in", at |-> r.at]
  <2>1. r \in Request /\ r.user \in Users
    BY <1>2, RequestAt DEF ClockInInsert, At, Fits, UserLabels
  <2>2. lastId' \in 0..MaxId
    BY <1>2, RequestAt, AttendanceAssumption DEF ClockInInsert, NewId, TablesOK
  <2>3. session \in SessionRow
    BY <2>1, <2>2, AttendanceAssumption DEF SessionRow, Request, Open
  <2>4. r.event # Nil => present \in AttendanceRow
    BY <2>1, <2>2, AttendanceAssumption DEF AttendanceRow, Request
  <2>5. /\ sessions' = sessions \cup {session}
        /\ attendance' = IF r.event = Nil THEN attendance ELSE attendance \cup {present}
    BY <1>2 DEF ClockInInsert
  <2> HIDE DEF session, present
  <2>6. sessions' \subseteq SessionRow /\ attendance' \subseteq AttendanceRow
    BY <2>3, <2>4, <2>5, RequestAt DEF TablesOK
  <2>7. TablesOK'
    BY <1>2, <2>2, <2>6, RequestAt DEF ClockInInsert, TablesOK
  <2> QED
    BY <1>2, <2>7, ReplyKeepsTypes DEF ClockInInsert
<1> QED
  BY <1>1, <1>2

LEMMA ClockOutKeepsTypes ==
  ASSUME TInv, NEW w \in Workers,
         RecordClockOutHandler(w) \/ ClockOutSelect(w) \/ ClockOutSave(w)
  PROVE  TInv'
<1> USE DEF ClockInUnchanged, eventTables, memberTables, rowTables
<1>1. CASE RecordClockOutHandler(w)
  <2>1. PICK u \in users :
          \/ \E id \in 1..lastId :
                Begin(w, "ClockOut", "clock_out_select",
                      [NoRequest EXCEPT !.user = u, !.session = id, !.at = now])
          \/ \E e \in Events, f \in Fences :
                Begin(w, "ClockOut", "clock_out_select",
                      [NoRequest EXCEPT !.user = u, !.event = e, !.fence = f, !.at = now])
    BY <1>1 DEF RecordClockOutHandler
  <2>2. u \in Users /\ now \in Nat /\ lastId \in Nat
    BY RequestAt DEF TablesOK
  <2>3. UNCHANGED flatTables /\ job' = job
    BY <1>1 DEF RecordClockOutHandler, flatTables
  <2>4. ASSUME NEW r \in Request, r.user \in Users, Begin(w, "ClockOut", "clock_out_select", r)
        PROVE  TInv'
    <3>1. Fits("clock_out_select", r)
      BY <2>4 DEF Fits, EventLabels
    <3> QED
      BY <2>3, <2>4, <3>1, BeginKeepsTypes DEF Labels
  <2>5. ASSUME NEW id \in 1..lastId
        PROVE  LET r == [NoRequest EXCEPT !.user = u, !.session = id, !.at = now]
               IN  r \in Request /\ r.user = u
    <3>1. NoRequest \in Request
      BY NoRequestType
    <3>2. id \in Nat
      BY <2>2
    <3> QED
      BY <2>2, <3>1, <3>2 DEF Request
  <2>6. ASSUME NEW e \in Events, NEW f \in Fences
        PROVE  LET r == [NoRequest EXCEPT !.user = u, !.event = e, !.fence = f, !.at = now]
               IN  r \in Request /\ r.user = u
    <3>1. NoRequest \in Request
      BY NoRequestType
    <3> QED
      BY <2>2, <3>1 DEF Request
  <2> QED
    BY <2>1, <2>2, <2>4, <2>5, <2>6
<1>2. CASE ClockOutSelect(w)
  <2>1. CASE Reply(w)
    BY <1>2, <2>1, RequestAt, ReadKeepsTypes, ReplyKeepsTypes DEF ClockOutSelect, TablesOK
  <2>2. CASE ~Reply(w)
    <3>1. PICK row \in OpenSessions(req[w]) :
             Step(w, "clock_out_save", [req[w] EXCEPT !.row = row])
      BY <1>2, <2>2 DEF ClockOutSelect
    <3> DEFINE r == [req[w] EXCEPT !.row = row]
    <3>2. row \in SessionRow
      BY RequestAt DEF OpenSessions, TablesOK
    <3>3. req[w] \in Request /\ req[w].user \in Users
      BY <1>2, RequestAt DEF ClockOutSelect, At, Fits, UserLabels
    <3>4. r \in Request /\ r.user = req[w].user /\ r.row = row
      BY <3>2, <3>3 DEF Request
    <3>5. Fits("clock_out_save", r)
      BY <3>2, <3>3, <3>4 DEF Fits, EventLabels
    <3>6. TablesOK' /\ job' = job
      BY <1>2, RequestAt DEF ClockOutSelect, TablesOK
    <3> QED
      BY <3>1, <3>4, <3>5, <3>6, StepKeepsTypes DEF Labels
  <2> QED
    BY <2>1, <2>2
<1>3. CASE ClockOutSave(w)
  <2>1. req[w] \in Request /\ req[w].row \in SessionRow
    BY <1>3, RequestAt DEF ClockOutSave, At, Fits
  <2>2. [req[w].row EXCEPT !.out = req[w].at] \in SessionRow
    BY <2>1 DEF Request, SessionRow
  <2>3. TablesOK'
    BY <1>3, <2>2, RequestAt DEF ClockOutSave, SaveSession, TablesOK
  <2> QED
    BY <1>3, <2>3, ReplyKeepsTypes DEF ClockOutSave
<1> QED
  BY <1>1, <1>2, <1>3

LEMMA MarkKeepsTypes ==
  ASSUME TInv, NEW w \in Workers,
         MarkPresent(w) \/ MarkEvent(w) \/ MarkLookup(w) \/ MarkInsert(w)
  PROVE  TInv'
<1> USE DEF ClockInUnchanged, eventTables, memberTables, rowTables
<1>1. CASE MarkPresent(w)
  <2>1. PICK u \in users, e \in Events :
             Begin(w, "MarkPresent", "mark_event", [NoRequest EXCEPT !.user = u, !.event = e])
    BY <1>1 DEF MarkPresent
  <2>2. u \in Users
    BY DEF TInv, TypeOK
  <2>3. Fits("mark_event", [NoRequest EXCEPT !.user = u, !.event = e])
    BY <2>2, UserEventRequest DEF Fits
  <2>4. UNCHANGED flatTables /\ job' = job
    BY <1>1 DEF MarkPresent, flatTables
  <2> QED
    BY <2>1, <2>2, <2>3, <2>4, UserEventRequest, BeginKeepsTypes DEF Labels
<1>2. CASE MarkEvent(w)
  BY <1>2, RequestAt, ReadKeepsTypes
     DEF MarkEvent, Check, At, Fits, UserLabels, EventLabels, Labels, flatTables
<1>3. CASE MarkLookup(w)
  <2>1. req[w].user \in Users /\ req[w].event \in Events
    BY <1>3, RequestAt DEF MarkLookup, At, Fits, UserLabels, EventLabels, Labels
  <2>2. Fits("mark_insert", [req[w] EXCEPT !.at = now])
    BY <2>1, StampedRequest DEF Fits
  <2>3. UNCHANGED flatTables /\ job' = job
    BY <1>3 DEF MarkLookup, flatTables
  <2> QED
    BY <1>3, <2>2, <2>3, StampKeepsTypes DEF MarkLookup, Labels
<1>4. CASE MarkInsert(w)
  <2> DEFINE row == [id |-> lastId', event |-> req[w].event, user |-> req[w].user,
                     via |-> "mark_present", at |-> req[w].at]
  <2>1. req[w].user \in Users /\ req[w].event \in Events
    BY <1>4, RequestAt DEF MarkInsert, At, Fits, UserLabels, EventLabels, Labels
  <2>2. lastId' \in 0..MaxId
    BY <1>4, RequestAt, AttendanceAssumption DEF MarkInsert, NewId, TablesOK
  <2>3. row \in AttendanceRow
    BY <2>1, <2>2, RequestAt DEF AttendanceRow, Request
  <2>4. TablesOK'
    BY <1>4, <2>2, <2>3, RequestAt DEF MarkInsert, TablesOK
  <2> QED
    BY <1>4, <2>4, ReplyKeepsTypes DEF MarkInsert
<1> QED
  BY <1>1, <1>2, <1>3, <1>4

LEMMA AdminKeepsTypes ==
  ASSUME TInv, NEW w \in Workers, AdminStep(w)
  PROVE  TInv'
<1> USE DEF AdminUnchanged, NothingWritten, eventTables
<1>1. CASE DeleteFence(w)
  <2>1. PICK row \in fences :
             Begin(w, "DeleteFence", "delete_fence_event",
                   [NoRequest EXCEPT !.event = row.event, !.fence = row.fence])
    BY <1>1 DEF DeleteFence
  <2> DEFINE r == [NoRequest EXCEPT !.event = row.event, !.fence = row.fence]
  <2>2. row.event \in Events /\ row.fence \in Fences
    BY RequestAt DEF TablesOK
  <2>3. NoRequest \in Request
    BY NoRequestType
  <2>4. r \in Request /\ r.event = row.event
    BY <2>2, <2>3 DEF Request
  <2>5. Fits("delete_fence_event", r)
    BY <2>2, <2>4 DEF Fits, UserLabels
  <2>6. UNCHANGED flatTables /\ job' = job
    BY <1>1 DEF DeleteFence, flatTables
  <2> QED
    BY <2>1, <2>4, <2>5, <2>6, BeginKeepsTypes DEF Labels
<1>2. CASE DeleteFenceEvent(w)
  BY <1>2, RequestAt, ReadKeepsTypes
     DEF DeleteFenceEvent, Check, At, Fits, UserLabels, EventLabels, Labels, flatTables
<1>3. CASE DeleteFenceRow(w)
  <2>1. TablesOK'
    BY <1>3, RequestAt DEF DeleteFenceRow, TablesOK
  <2> QED
    BY <1>3, <2>1, ReplyKeepsTypes DEF DeleteFenceRow
<1>4. CASE DeleteEvent(w)
  <2>1. PICK e \in events :
             Begin(w, "DeleteEvent", "delete_event_read", [NoRequest EXCEPT !.event = e])
    BY <1>4 DEF DeleteEvent
  <2>2. e \in Events
    BY DEF TInv, TypeOK
  <2>3. [NoRequest EXCEPT !.event = e] \in Request /\ [NoRequest EXCEPT !.event = e].event = e
    BY <2>2, NoRequestType DEF NoRequest, Request
  <2>4. Fits("delete_event_read", [NoRequest EXCEPT !.event = e])
    BY <2>2, <2>3 DEF Fits, UserLabels
  <2>5. UNCHANGED flatTables /\ job' = job
    BY <1>4 DEF DeleteEvent, flatTables
  <2> QED
    BY <2>1, <2>3, <2>4, <2>5, BeginKeepsTypes DEF Labels
<1>5. CASE DeleteEventRead(w)
  BY <1>5, RequestAt, ReadKeepsTypes
     DEF DeleteEventRead, Check, At, Fits, UserLabels, EventLabels, Labels, flatTables
<1>6. CASE DeleteEventRows(w)
  <2>1. alerts' \in [Events \X Users -> 0..MaxAlerts]
    <3>a. 0 \in 0..MaxAlerts
      BY MaxAlertsAssumption
    <3>1. alerts \in [Events \X Users -> 0..MaxAlerts]
      BY RequestAt DEF TablesOK
    <3>2. CASE alerts' = alerts
      BY <3>1, <3>2
    <3>3. CASE alerts' # alerts
      <4> DEFINE Left(p) == IF p[1] = req[w].event THEN 0 ELSE alerts[p]
      <4>1. alerts' = [p \in DOMAIN alerts |-> Left(p)]
        BY <1>6, <3>3 DEF DeleteEventRows
      <4>2. \A p \in DOMAIN alerts : Left(p) \in 0..MaxAlerts
        BY <3>a, <3>1
      <4> HIDE DEF Left
      <4> QED
        BY <3>1, <4>1, <4>2
    <3> QED
      BY <3>2, <3>3
  <2>2. goneLive' \in [Events -> 0..MaxTime] /\ \A e \in Events \ events' : goneLive'[e] = 0
    <3>1. /\ goneLive \in [Events -> 0..MaxTime] /\ 0 \in 0..MaxTime
          /\ \A e \in Events \ events : goneLive[e] = 0
      BY RequestAt, AttendanceAssumption DEF TablesOK
    <3>2. CASE req[w].event \in events
      BY <1>6, <3>1, <3>2 DEF DeleteEventRows
    <3>3. CASE req[w].event \notin events
      BY <1>6, <3>1, <3>3 DEF DeleteEventRows
    <3> QED
      BY <3>2, <3>3
  <2>3. CASE req[w].event \in events
    <3>1. TablesOK'
      BY <1>6, <2>1, <2>2, <2>3, RequestAt DEF DeleteEventRows, TablesOK
    <3> QED
      BY <1>6, <3>1, ReplyKeepsTypes DEF DeleteEventRows
  <2>4. CASE req[w].event \notin events
    BY <1>6, <2>4, RequestAt, ReplyKeepsTypes DEF DeleteEventRows, TablesOK
  <2> QED
    BY <2>3, <2>4
<1>7. CASE UpdateEvent(w)
  <2>1. PICK e \in events, s \in Schedules :
             Begin(w, "UpdateEvent", "update_event_read",
                   [NoRequest EXCEPT !.event = e, !.times = s])
    BY <1>7 DEF UpdateEvent
  <2> DEFINE r == [NoRequest EXCEPT !.event = e, !.times = s]
  <2>2. e \in Events
    BY DEF TInv, TypeOK
  <2>3. NoRequest \in Request
    BY NoRequestType
  <2>4. r \in Request /\ r.event = e /\ r.times = s
    BY <2>2, <2>3 DEF Request
  <2>5. Fits("update_event_read", r)
    BY <2>2, <2>4 DEF Fits, UserLabels
  <2>6. UNCHANGED flatTables /\ job' = job
    BY <1>7 DEF UpdateEvent, flatTables
  <2> QED
    BY <2>1, <2>4, <2>5, <2>6, BeginKeepsTypes DEF Labels
<1>8. CASE UpdateEventRead(w)
  BY <1>8, RequestAt, ReadKeepsTypes
     DEF UpdateEventRead, Check, At, Fits, UserLabels, EventLabels, Labels, flatTables
<1>9. CASE UpdateEventWrite(w)
  <2>1. req[w].times \in Schedules
    BY <1>9, RequestAt DEF UpdateEventWrite, At, Fits
  <2>2. schedule' \in [Events -> Schedules]
    BY <1>9, <2>1, RequestAt DEF UpdateEventWrite, TablesOK
  <2>3. TablesOK'
    BY <1>9, <2>2, RequestAt DEF UpdateEventWrite, TablesOK
  <2> QED
    BY <1>9, <2>3, ReplyKeepsTypes DEF UpdateEventWrite
<1> QED
  BY <1>1, <1>2, <1>3, <1>4, <1>5, <1>6, <1>7, <1>8, <1>9 DEF AdminStep

\* The requests that are one statement, and the clock.
LEMMA SingleKeepsTypes ==
  ASSUME TInv, LeaveEvent \/ DeleteAccount \/ SetScanRequired \/ TrimHistory \/ Tick
  PROVE  TInv'
<1> USE DEF MembershipUnchanged, ClockInUnchanged, AdminUnchanged, workers,
            eventTables, memberTables, rowTables
<1>1. UNCHANGED <<pc, req, job>>
  BY DEF LeaveEvent, DeleteAccount, SetScanRequired, TrimHistory, Tick
<1>2. TablesOK
  BY DEF TInv, TypeOK, TablesOK
<1>3. TablesOK'
  <2>1. CASE LeaveEvent
    BY <1>2, <2>1 DEF LeaveEvent, TablesOK
  <2>2. CASE DeleteAccount
    BY <1>2, <2>2 DEF DeleteAccount, TablesOK
  <2>3. CASE SetScanRequired
    BY <1>2, <2>3 DEF SetScanRequired, TablesOK
  <2>4. CASE TrimHistory
    BY <1>2, <2>4 DEF TrimHistory, TablesOK
  <2>5. CASE Tick
    BY <1>2, <2>5, AttendanceAssumption DEF Tick, TablesOK
  <2> QED
    BY <2>1, <2>2, <2>3, <2>4, <2>5
<1> QED
  BY <1>1, <1>3 DEF TInv, TypeOK, TablesOK, RequestsFit, JobFits

LEMMA AbortKeepsTypes ==
  ASSUME TInv, NEW w \in Workers, AbortRequest(w)
  PROVE  TInv'
<1>1. TablesOK'
  BY RequestAt DEF AbortRequest, TablesOK, eventTables, memberTables, rowTables
<1> QED
  BY <1>1, ReplyKeepsTypes DEF AbortRequest

LEMMA JobKeepsTypes ==
  ASSUME TInv, JobWork \/ JobAbort
  PROVE  TInv'
<1> USE DEF GoLiveUnchanged, workers, memberTables
<1>1. pc' = pc /\ req' = req
  BY DEF JobWork, JobFind, JobNext, JobClose, JobList, JobAlert, JobStamp, JobAbort
<1>2. TablesOK /\ job \in JobState /\ JobFits
  BY DEF TInv, TypeOK, TablesOK
<1>3. JobIdle \in JobState /\ JobIdle.pc = "idle"
  BY DEF JobIdle, JobState
<1>4. TablesOK' /\ job' \in JobState /\ JobFits'
  <2>1. CASE JobFind
    <3>1. job' = [JobIdle EXCEPT !.pc = "next", !.found = now, !.events = PendingGoLive]
      BY <2>1 DEF JobFind
    <3>2. PendingGoLive \in SUBSET Events /\ now \in Nat /\ now \in 0..MaxTime
      BY <1>2, AttendanceAssumption DEF PendingGoLive, TablesOK
    <3>3. job' \in JobState /\ job'.pc = "next" /\ job'.found = now
      BY <1>3, <3>1, <3>2 DEF JobState
    <3> QED
      BY <1>2, <2>1, <3>2, <3>3 DEF JobFind, TablesOK, JobFits
  <2>2. CASE JobNext
    <3>1. PICK e \in job.events :
            job' = [job EXCEPT !.pc = "close", !.event = e, !.events = @ \ {e}, !.at = now]
      BY <2>2 DEF JobNext
    <3>2. e \in Events /\ job.events \ {e} \in SUBSET Events /\ now \in Nat
      BY <1>2 DEF JobState, TablesOK
    <3>3. job' \in JobState /\ job'.event = e /\ job'.found = job.found
      BY <1>2, <3>1, <3>2 DEF JobState
    <3> QED
      BY <1>2, <2>2, <3>2, <3>3 DEF JobNext, TablesOK, JobFits
  <2>3. CASE JobClose
    <3>1. job' = [job EXCEPT !.pc = "list"]
      BY <2>3 DEF JobClose
    <3>2. job' \in JobState /\ job'.event = job.event /\ job'.found = job.found
      BY <1>2, <3>1 DEF JobState
    <3>3. \A s \in sessions : [s EXCEPT !.out = job.at] \in SessionRow
      BY <1>2 DEF TablesOK, SessionRow, JobState
    <3>4. sessions' \subseteq SessionRow
      BY <1>2, <2>3, <3>3 DEF JobClose, TablesOK
    <3> QED
      BY <1>2, <2>3, <3>2, <3>4 DEF JobClose, TablesOK, JobFits
  <2>4. CASE JobList
    <3>1. job' = [job EXCEPT !.pc = "alert", !.joins = {j \in joins : j.event = job.event}]
      BY <2>4 DEF JobList
    <3>2. {j \in joins : j.event = job.event} \in SUBSET JoinRow
      BY <1>2 DEF TablesOK
    <3>3. job' \in JobState /\ job'.event = job.event /\ job'.found = job.found
      BY <1>2, <3>1, <3>2 DEF JobState
    <3> QED
      BY <1>2, <2>4, <3>3 DEF JobList, TablesOK, JobFits
  <2>5. CASE JobAlert
    <3>1. PICK j \in job.joins :
            /\ alerts' = [alerts EXCEPT ![<<j.event, j.user>>] = IF @ < MaxAlerts THEN @ + 1 ELSE @]
            /\ job' = [job EXCEPT !.joins = @ \ {j}]
      BY <2>5 DEF JobAlert
    <3>2. job.joins \ {j} \in SUBSET JoinRow
      BY <1>2 DEF JobState
    <3>3. job' \in JobState /\ job'.event = job.event /\ job'.found = job.found
      BY <1>2, <3>1, <3>2 DEF JobState
    <3>4. alerts' \in [Events \X Users -> 0..MaxAlerts]
      <4> DEFINE p == <<j.event, j.user>>
                 v == IF alerts[p] < MaxAlerts THEN alerts[p] + 1 ELSE alerts[p]
      <4>1. j.event \in Events /\ j.user \in Users
        BY <1>2 DEF JobState, JoinRow
      <4>2. p \in Events \X Users /\ alerts \in [Events \X Users -> 0..MaxAlerts]
        BY <1>2, <4>1 DEF TablesOK
      <4>3. alerts' = [alerts EXCEPT ![p] = v]
        BY <3>1
      <4> HIDE DEF p
      <4>4. v \in 0..MaxAlerts
        BY <4>2, MaxAlertsAssumption
      <4> QED
        BY <4>2, <4>3, <4>4
    <3> QED
      BY <1>2, <2>5, <3>3, <3>4 DEF JobAlert, TablesOK, JobFits
  <2>6. CASE JobStamp
    <3>1. job.found \in 0..MaxTime /\ job.found \in Nat
      BY <1>2, <2>6 DEF JobStamp, JobFits, JobState
    <3>2. Marked \in [Events -> 0..MaxTime] /\ \A e \in Events \ events : Marked[e] = 0
      BY <1>2, <3>1 DEF Marked, TablesOK
    <3>3. TablesOK'
      BY <1>2, <2>6, <3>2 DEF JobStamp, TablesOK
    <3>4. CASE job.events = {}
      BY <1>3, <2>6, <3>3, <3>4 DEF JobStamp, JobFits
    <3>5. CASE job.events # {}
      <4>1. job' = [JobIdle EXCEPT !.pc = "next", !.found = job.found, !.events = job.events]
        BY <2>6, <3>5 DEF JobStamp
      <4>2. job' \in JobState /\ job'.pc = "next" /\ job'.found = job.found
        BY <1>2, <1>3, <3>1, <4>1 DEF JobState
      <4> QED
        BY <3>1, <3>3, <4>2 DEF JobFits
    <3> QED
      BY <3>4, <3>5
  <2>7. CASE JobAbort
    BY <1>2, <1>3, <2>7 DEF JobAbort, TablesOK, JobFits
  <2> QED
    BY <2>1, <2>2, <2>3, <2>4, <2>5, <2>6, <2>7 DEF JobWork
<1> QED
  BY <1>1, <1>4 DEF TInv, TypeOK, TablesOK, RequestsFit

LEMMA InitTypes == Init => TInv
<1> SUFFICES ASSUME Init PROVE TInv
  OBVIOUS
<1>1. PICK owner \in [Fences -> Events] :
        fences = {[event |-> owner[f], fence |-> f] : f \in Fences}
  BY DEF Init
<1>2. fences \subseteq [event : Events, fence : Fences]
  BY <1>1
<1>3. TablesOK
  BY <1>2, AttendanceAssumption, MaxAlertsAssumption DEF Init, TablesOK
<1>4. job \in JobState /\ JobFits
  BY DEF Init, JobState, JobIdle, JobFits
<1>5. pc \in [Workers -> Labels] /\ req \in [Workers -> Request] /\ RequestsFit
  BY NoRequestType DEF Init, Labels, RequestsFit, Fits, UserLabels, EventLabels
<1> QED
  BY <1>3, <1>4, <1>5 DEF TInv, TypeOK, TablesOK

LEMMA NextKeepsTypes == TInv /\ [Next]_vars => TInv'
<1> SUFFICES ASSUME TInv, [Next]_vars PROVE TInv'
  OBVIOUS
<1>1. ASSUME NEW w \in Workers, MembershipStep(w) PROVE TInv'
  BY <1>1, JoinKeepsTypes, ConsentKeepsTypes, TemplateKeepsTypes DEF MembershipStep
<1>2. ASSUME NEW w \in Workers, ClockInStep(w) PROVE TInv'
  BY <1>2, GateKeepsTypes, ClockInKeepsTypes, ClockOutKeepsTypes, MarkKeepsTypes DEF ClockInStep
<1>3. ASSUME NEW w \in Workers, AdminStep(w) PROVE TInv'
  BY <1>3, AdminKeepsTypes
<1>4. ASSUME NEW w \in Workers, AbortRequest(w) PROVE TInv'
  BY <1>4, AbortKeepsTypes
<1>5. CASE LeaveEvent \/ DeleteAccount \/ SetScanRequired \/ TrimHistory \/ Tick
  BY <1>5, SingleKeepsTypes
<1>6. CASE JobWork \/ JobAbort
  BY <1>6, JobKeepsTypes
<1>7. CASE UNCHANGED vars
  BY <1>7 DEF vars, workers, eventTables, memberTables, rowTables, TInv, TypeOK,
              RequestsFit, JobFits
<1> QED
  BY <1>1, <1>2, <1>3, <1>4, <1>5, <1>6, <1>7 DEF Next

\* The tables, the requests and the job have their types.
THEOREM TypeInvariant == Spec => []TypeOK
<1>1. Spec => []TInv
  BY InitTypes, NextKeepsTypes, PTL DEF Spec
<1>2. TInv => TypeOK
  BY DEF TInv
<1> QED
  BY <1>1, <1>2, PTL

-----------------------------------------------------------------------------
(* The alerts of the go-live job                                           *)

Alerted(j) == alerts[<<j.event, j.user>>] > 0

\* EarlyJoinersAlerted is not inductive.  It holds because a join that is
\* inserted behind the job's back comes after the time its run started with,
\* and because what the job has listed and not alerted it still holds.
RunsArePast ==
  /\ \A e \in Events : goneLive[e] <= now
  /\ job.found <= now

ListedOrAlerted ==
  job.pc = "alert" =>
    \A j \in joins : j.event = job.event /\ j.seen < job.found => j \in job.joins \/ Alerted(j)

AInv == TInv /\ RunsArePast /\ ListedOrAlerted /\ EarlyJoinersAlerted

\* The numbers that the comparisons are about.
LEMMA Times ==
  ASSUME TInv
  PROVE  /\ now \in Nat /\ job.found \in Nat
         /\ \A e \in Events : goneLive[e] \in Nat
         /\ \A j \in joins : j \in JoinRow /\ j.event \in Events /\ j.seen \in Nat
BY DEF TInv, TypeOK, JobState, JoinRow

\* Time, and whatever removes joins.
LEMMA FrameKeepsAlerts ==
  ASSUME AInv, UNCHANGED <<goneLive, alerts, job>>, joins' \subseteq joins,
         now' \in Nat, now <= now'
  PROVE  (RunsArePast /\ ListedOrAlerted /\ EarlyJoinersAlerted)'
<1>1. RunsArePast'
  BY Times DEF AInv, RunsArePast
<1>2. ListedOrAlerted'
  BY DEF AInv, ListedOrAlerted, Alerted
<1>3. EarlyJoinersAlerted'
  BY DEF AInv, EarlyJoinersAlerted
<1> QED
  BY <1>1, <1>2, <1>3

\* A join that is inserted now is no earlier than any run of the job.
LEMMA JoinKeepsAlerts ==
  ASSUME AInv, TInv', NEW w \in Workers, JoinInsert(w)
  PROVE  (RunsArePast /\ ListedOrAlerted /\ EarlyJoinersAlerted)'
<1> DEFINE row == [id |-> lastId', event |-> req[w].event, user |-> req[w].user,
                   at |-> req[w].at, seen |-> now]
<1>1. /\ joins' = joins \cup {row}
      /\ now' = now /\ goneLive' = goneLive /\ alerts' = alerts /\ job' = job
  BY DEF JoinInsert, MembershipUnchanged
<1>2. row.event \in Events /\ row.seen = now
  BY RequestAt DEF JoinInsert, At, AInv, Fits, EventLabels, Labels
<1> HIDE DEF row
<1>3. ~(row.seen < goneLive[row.event]) /\ ~(row.seen < job.found)
  BY <1>2, Times DEF AInv, RunsArePast
<1>4. RunsArePast'
  BY <1>1 DEF AInv, RunsArePast
<1>5. ListedOrAlerted'
  BY <1>1, <1>3 DEF AInv, ListedOrAlerted, Alerted
<1>6. EarlyJoinersAlerted'
  BY <1>1, <1>3 DEF AInv, EarlyJoinersAlerted
<1> QED
  BY <1>4, <1>5, <1>6

\* The alerts of a deleted event go with its joins and its mark.
LEMMA DeleteEventKeepsAlerts ==
  ASSUME AInv, NEW w \in Workers, DeleteEventRows(w)
  PROVE  (RunsArePast /\ ListedOrAlerted /\ EarlyJoinersAlerted)'
<1> DEFINE e == req[w].event
<1>1. job' = job /\ now' = now
  BY DEF DeleteEventRows, AdminUnchanged
<1>2. CASE e \notin events
  BY <1>1, <1>2, Times, FrameKeepsAlerts DEF AInv, DeleteEventRows, NothingWritten, eventTables
<1>3. CASE e \in events
  <2>1. /\ goneLive' = [goneLive EXCEPT ![e] = 0]
        /\ joins' = {j \in joins : j.event # e}
        /\ alerts' = [p \in DOMAIN alerts |-> IF p[1] = e THEN 0 ELSE alerts[p]]
    BY <1>3 DEF DeleteEventRows
  <2>2. DOMAIN alerts = Events \X Users
    BY DEF AInv, TInv, TypeOK
  <2>3. \A j \in joins' : j \in joins /\ alerts'[<<j.event, j.user>>] = alerts[<<j.event, j.user>>]
    <3>1. \A j \in joins : j.event \in Events /\ j.user \in Users
      BY Times DEF AInv, JoinRow
    <3> QED
      BY <2>1, <2>2, <3>1
  <2>4. /\ goneLive \in [Events -> Nat] /\ now \in Nat
        /\ \A f \in Events : goneLive'[f] = IF f = e THEN 0 ELSE goneLive[f]
    BY <2>1 DEF AInv, TInv, TypeOK
  <2>a. RunsArePast'
    BY <1>1, <2>4 DEF AInv, RunsArePast
  <2>5. ListedOrAlerted'
    BY <1>1, <2>3 DEF AInv, ListedOrAlerted, Alerted
  <2>6. EarlyJoinersAlerted'
    <3>1. \A j \in joins : j.event \in Events /\ j.seen \in Nat
      BY Times DEF AInv
    <3> QED
      BY <2>3, <2>4, <3>1 DEF AInv, EarlyJoinersAlerted
  <2> QED
    BY <2>a, <2>5, <2>6
<1> QED
  BY <1>2, <1>3

LEMMA JobKeepsAlerts ==
  ASSUME AInv, JobWork \/ JobAbort
  PROVE  (RunsArePast /\ ListedOrAlerted /\ EarlyJoinersAlerted)'
<1> USE DEF GoLiveUnchanged, memberTables
<1>1. now' = now /\ joins' = joins
  BY DEF JobWork, JobFind, JobNext, JobClose, JobList, JobAlert, JobStamp, JobAbort
<1>2. RunsArePast /\ ListedOrAlerted /\ EarlyJoinersAlerted /\ job \in JobState
  BY DEF AInv, TInv, TypeOK
<1>2a. now \in Nat /\ job.found \in Nat
  BY Times DEF AInv
<1>3. JobIdle.pc = "idle" /\ JobIdle.found = 0
  BY DEF JobIdle
<1>4. \A l \in STRING : [JobIdle EXCEPT !.pc = l].pc = l
  BY DEF JobIdle
<1>5. CASE JobFind
  <2>1. /\ job'.pc = "next" /\ job'.found = now
        /\ goneLive' = goneLive /\ alerts' = alerts
    BY <1>5 DEF JobFind, JobIdle
  <2> QED
    BY <1>1, <1>2, <1>2a, <2>1 DEF RunsArePast, ListedOrAlerted, EarlyJoinersAlerted
<1>6. CASE JobNext
  <2>1. PICK e \in job.events :
          job' = [job EXCEPT !.pc = "close", !.event = e, !.events = @ \ {e}, !.at = now]
    BY <1>6 DEF JobNext
  <2>2. job'.pc = "close" /\ job'.event = e /\ job'.found = job.found
    BY <1>2, <2>1 DEF JobState
  <2>3. goneLive' = goneLive /\ alerts' = alerts /\ job.pc = "next"
    BY <1>6 DEF JobNext
  <2> QED
    BY <1>1, <1>2, <2>2, <2>3 DEF RunsArePast, ListedOrAlerted, EarlyJoinersAlerted
<1>7. CASE JobClose
  <2>1. job'.pc = "list" /\ job'.event = job.event /\ job'.found = job.found
    BY <1>2, <1>7 DEF JobClose, JobState
  <2>2. goneLive' = goneLive /\ alerts' = alerts /\ job.pc = "close"
    BY <1>7 DEF JobClose
  <2> QED
    BY <1>1, <1>2, <2>1, <2>2 DEF RunsArePast, ListedOrAlerted, EarlyJoinersAlerted
<1>8. CASE JobList
  <2>1. /\ job'.pc = "alert" /\ job'.event = job.event /\ job'.found = job.found
        /\ job'.joins = {j \in joins : j.event = job.event}
    BY <1>2, <1>8 DEF JobList, JobState
  <2>2. goneLive' = goneLive /\ alerts' = alerts /\ job.pc = "list"
    BY <1>8 DEF JobList
  <2> QED
    BY <1>1, <1>2, <2>1, <2>2 DEF RunsArePast, ListedOrAlerted, EarlyJoinersAlerted
<1>9. CASE JobAlert
  <2>1. PICK k \in job.joins :
          /\ alerts' = [alerts EXCEPT ![<<k.event, k.user>>] = IF @ < MaxAlerts THEN @ + 1 ELSE @]
          /\ job' = [job EXCEPT !.joins = @ \ {k}]
    BY <1>9 DEF JobAlert
  <2>2. /\ job'.pc = "alert" /\ job'.event = job.event /\ job'.found = job.found
        /\ job'.joins = job.joins \ {k}
    BY <1>2, <1>9, <2>1 DEF JobAlert, JobState
  <2>3. goneLive' = goneLive /\ job.pc = "alert"
    BY <1>9 DEF JobAlert
  <2>4. \A j \in joins : Alerted(j) \/ j = k => alerts'[<<j.event, j.user>>] > 0
    <3> DEFINE p == <<k.event, k.user>>
    <3>1. /\ alerts \in [Events \X Users -> 0..MaxAlerts]
          /\ \A j \in joins : <<j.event, j.user>> \in Events \X Users
          /\ p \in Events \X Users
      BY <1>2, Times DEF AInv, TInv, TypeOK, JobState, JoinRow
    <3>2. alerts' = [alerts EXCEPT ![p] = IF alerts[p] < MaxAlerts THEN alerts[p] + 1 ELSE alerts[p]]
      BY <2>1
    <3>3. \A q \in Events \X Users : alerts[q] > 0 \/ q = p => alerts'[q] > 0
      <4> HIDE DEF p
      <4> QED
        BY <3>1, <3>2, MaxAlertsAssumption
    <3> QED
      BY <3>1, <3>3 DEF Alerted
  <2>5. ListedOrAlerted'
    BY <1>1, <1>2, <2>2, <2>3, <2>4 DEF ListedOrAlerted, Alerted
  <2>6. EarlyJoinersAlerted'
    BY <1>1, <1>2, <2>3, <2>4 DEF EarlyJoinersAlerted, Alerted
  <2>7. RunsArePast'
    BY <1>1, <1>2, <2>2, <2>3 DEF RunsArePast
  <2> QED
    BY <2>5, <2>6, <2>7
<1>10. CASE JobStamp
  <2>1. job.pc = "alert" /\ job.joins = {} /\ alerts' = alerts /\ goneLive' = Marked
    BY <1>10 DEF JobStamp
  <2>2. job'.pc \in {"idle", "next"} /\ job'.found \in {0, job.found}
    BY <1>10, <1>3, <1>4 DEF JobStamp, JobIdle
  <2>3. \A j \in joins : j.event = job.event /\ j.seen < job.found => Alerted(j)
    BY <1>2, <2>1 DEF ListedOrAlerted
  <2>4. \A e \in Events : goneLive'[e] = goneLive[e] \/ (e = job.event /\ goneLive'[e] = job.found)
    BY <1>2, <2>1 DEF Marked, AInv, TInv, TypeOK
  <2>5. EarlyJoinersAlerted'
    BY <1>1, <1>2, <2>1, <2>3, <2>4 DEF EarlyJoinersAlerted, Alerted
  <2>6. RunsArePast'
    BY <1>1, <1>2, <1>2a, <2>2, <2>4 DEF RunsArePast
  <2>7. ListedOrAlerted'
    BY <2>2 DEF ListedOrAlerted
  <2> QED
    BY <2>5, <2>6, <2>7
<1>11. CASE JobAbort
  BY <1>1, <1>2, <1>2a, <1>3, <1>11 DEF JobAbort, RunsArePast, ListedOrAlerted, EarlyJoinersAlerted
<1> QED
  BY <1>5, <1>6, <1>7, <1>8, <1>9, <1>10, <1>11 DEF JobWork

\* What every other step leaves alone.
LEMMA OtherStepsKeepAlerts ==
  ASSUME AInv, NEW w \in Workers,
         \/ MembershipStep(w) /\ ~JoinInsert(w)
         \/ ClockInStep(w)
         \/ AdminStep(w) /\ ~DeleteEventRows(w)
         \/ AbortRequest(w)
  PROVE  UNCHANGED <<goneLive, alerts, job, joins, now>>
<1> USE DEF MembershipUnchanged, ClockInUnchanged, AdminUnchanged, NothingWritten,
            eventTables, memberTables, rowTables
<1>1. CASE MembershipStep(w) /\ ~JoinInsert(w)
  BY <1>1 DEF MembershipStep, JoinByQR, JoinEvent, JoinLookup, SubmitConsent, ConsentJoined,
              ConsentTemplate, ConsentLookup, ConsentInsert, ConsentSave, SaveTemplate,
              TemplateEvent, TemplateLookup, TemplateInsert, TemplateSave
<1>2. CASE ClockInStep(w)
  BY <1>2 DEF ClockInStep, RecordClockInHandler, GateQR, GateJoined, GateScan, GateTemplate,
              GateConsent, GateFence, ClockInStamp, ClockInInsert, RecordClockOutHandler,
              ClockOutSelect, ClockOutSave, MarkPresent, MarkEvent, MarkLookup, MarkInsert
<1>3. CASE AdminStep(w) /\ ~DeleteEventRows(w)
  BY <1>3 DEF AdminStep, UpdateEvent, UpdateEventRead, UpdateEventWrite,
              DeleteFence, DeleteFenceEvent, DeleteFenceRow, DeleteEvent, DeleteEventRead
<1>4. CASE AbortRequest(w)
  BY <1>4 DEF AbortRequest
<1> QED
  BY <1>1, <1>2, <1>3, <1>4

LEMMA AlertInvariantStep == AInv /\ [Next]_vars => AInv'
<1> SUFFICES ASSUME AInv, [Next]_vars PROVE AInv'
  OBVIOUS
<1>1. TInv'
  BY NextKeepsTypes DEF AInv
<1>2. now \in Nat
  BY Times DEF AInv
<1>3. ASSUME NEW w \in Workers, JoinInsert(w) \/ DeleteEventRows(w) PROVE AInv'
  BY <1>1, <1>3, JoinKeepsAlerts, DeleteEventKeepsAlerts DEF AInv
<1>4. ASSUME NEW w \in Workers,
             \/ MembershipStep(w) /\ ~JoinInsert(w)
             \/ ClockInStep(w)
             \/ AdminStep(w) /\ ~DeleteEventRows(w)
             \/ AbortRequest(w)
      PROVE  AInv'
  <2>1. UNCHANGED <<goneLive, alerts, job, joins, now>>
    BY <1>4, OtherStepsKeepAlerts
  <2> QED
    BY <1>1, <1>2, <2>1, FrameKeepsAlerts DEF AInv
<1>5. CASE LeaveEvent \/ DeleteAccount \/ SetScanRequired \/ TrimHistory \/ Tick
  <2>1. UNCHANGED <<goneLive, alerts, job>> /\ joins' \subseteq joins /\ (now' = now \/ now' = now + 1)
    BY <1>5 DEF LeaveEvent, DeleteAccount, SetScanRequired, TrimHistory, Tick, MembershipUnchanged,
                ClockInUnchanged, AdminUnchanged, eventTables, memberTables
  <2>2. now' \in Nat /\ now <= now'
    BY <1>2, <2>1
  <2> QED
    BY <1>1, <2>1, <2>2, FrameKeepsAlerts DEF AInv
<1>6. CASE JobWork \/ JobAbort
  BY <1>1, <1>6, JobKeepsAlerts DEF AInv
<1>7. CASE UNCHANGED vars
  BY <1>1, <1>2, <1>7, FrameKeepsAlerts DEF vars, eventTables, memberTables, AInv
<1> QED
  BY <1>3, <1>4, <1>5, <1>6, <1>7 DEF Next

\* However the job fails, restarts and interleaves with joins, reschedulings and
\* deletions, an event is marked as processed only with everybody alerted who
\* had joined before the run.
THEOREM EarlyJoinersAreAlerted == Spec => []EarlyJoinersAlerted
<1>1. Init => AInv
  BY InitTypes, AttendanceAssumption DEF Init, AInv, RunsArePast, ListedOrAlerted, EarlyJoinersAlerted, JobIdle
<1>2. AInv => EarlyJoinersAlerted
  BY DEF AInv
<1> QED
  BY <1>1, <1>2, AlertInvariantStep, PTL DEF Spec

-------------------------------------------------------------------------------
(***************************************************************************)
(* The activity history implements the session ledger, for any number of   *)
(* attendees, events, requests and rows and whatever interleaves.  The     *)
(* hard step is RecordClockOut: it saves a whole row that it read earlier, *)
(* so the invariant speaks of the rows in the table and of the copies that *)
(* requests hold of them at once.                                          *)
(***************************************************************************)

\* The statements whose request holds a time it read from the clock and writes.
Timed == {"clock_in_insert", "clock_out_select", "clock_out_save"}

\* The rows of the history and those that clock-outs have read and will save.
Savers == {w \in Workers : pc[w] = "clock_out_save"}
Copies == sessions \cup {req[w].row : w \in Savers}

\* Every copy of a row has an id that was given out and a real clock-in time.
CopiesAreUsed == \A s \in Copies : s.id \in 1..lastId /\ s.in \in 1..MaxTime

\* Two copies of one row may differ in their clock-out, never in the clock-in:
\* also when the row itself is gone and a late save will bring it back.
CopiesAgree == \A s, t \in Copies : s.id = t.id => s.in = t.in

IdsAreUnique == \A s, t \in sessions : s.id = t.id => s = t

TimesAreReal ==
  /\ \A w \in Workers : pc[w] \in Timed => req[w].at \in 1..MaxTime
  /\ job.pc = "close" => job.at \in 1..MaxTime

RowsOK == CopiesAreUsed /\ CopiesAgree /\ IdsAreUnique /\ TimesAreReal

LInv == TInv /\ RowsOK

-----------------------------------------------------------------------------
(* What the ledger says of an id                                           *)

Entry(s) == [state |-> IF s.out = Open THEN "open" ELSE "closed", in |-> s.in, out |-> s.out]

LEMMA LedgerOfUnused ==
  ASSUME LInv, NEW i \in 1..MaxId, i > lastId
  PROVE  Ledger[i] = Late!Unused
BY DEF Ledger, LedgerOf, Late!Unused

LEMMA LedgerOfRow ==
  ASSUME LInv, NEW s \in sessions
  PROVE  s.id \in 1..MaxId /\ s.id <= lastId /\ Ledger[s.id] = Entry(s)
<1>1. s.id \in 1..lastId /\ lastId \in 0..MaxId
  BY DEF LInv, RowsOK, CopiesAreUsed, Copies, TInv, TypeOK
<1>2. s.id \in 1..MaxId /\ s.id <= lastId /\ ~(s.id > lastId)
  BY <1>1, AttendanceAssumption
<1>3. (CHOOSE t \in sessions : t.id = s.id) = s
  BY DEF LInv, RowsOK, IdsAreUnique
<1> QED
  BY <1>2, <1>3 DEF Ledger, LedgerOf, Entry

LEMMA LedgerOfRemoved ==
  ASSUME LInv, NEW i \in 1..MaxId, i <= lastId, \A s \in sessions : s.id # i
  PROVE  Ledger[i] = Late!Removed
<1>1. ~(i > lastId)
  BY DEF LInv, TInv, TypeOK
<1> QED
  BY <1>1 DEF Ledger, LedgerOf, Late!Removed

\* The three cases, as one: this is all the steps need to know of Ledger.
LedgerFacts ==
  /\ Ledger = [i \in 1..MaxId |-> Ledger[i]]
  /\ \A i \in 1..MaxId : i > lastId => Ledger[i] = Late!Unused
  /\ \A s \in sessions : s.id \in 1..MaxId /\ s.id <= lastId /\ Ledger[s.id] = Entry(s)
  /\ \A i \in 1..MaxId :
       i <= lastId /\ (\A s \in sessions : s.id # i) => Ledger[i] = Late!Removed

LEMMA LedgerCases == LInv => LedgerFacts
<1>1. Ledger = [i \in 1..MaxId |-> Ledger[i]]
  BY DEF Ledger
<1> QED
  BY <1>1, LedgerOfUnused, LedgerOfRow, LedgerOfRemoved DEF LedgerFacts

LEMMA LedgerCasesNext == LInv' => LedgerFacts'
BY LedgerCases, PTL

LEMMA LedgerUnchanged ==
  ASSUME UNCHANGED <<sessions, lastId>>
  PROVE  Ledger' = Ledger
BY DEF Ledger, LedgerOf

-----------------------------------------------------------------------------
(* What a change of the history is for the ledger                          *)

\* The id went to a join or to a mark.
LEMMA SkipStep ==
  ASSUME LInv, LInv', NewId, sessions' = sessions
  PROVE  \E i \in 1..MaxId : Late!Skip(i)
<1>1. LedgerFacts /\ LedgerFacts'
  BY LedgerCases, LedgerCasesNext
<1>2. lastId \in Nat /\ lastId' = lastId + 1 /\ lastId' \in 1..MaxId /\ lastId' > lastId
  BY AttendanceAssumption DEF LInv, TInv, TypeOK, NewId
<1> DEFINE i == lastId'
<1>3. Ledger[i] = Late!Unused
  BY <1>1, <1>2 DEF LedgerFacts
<1>4. ASSUME NEW j \in 1..MaxId
      PROVE  Ledger'[j] = IF j = i THEN Late!Removed ELSE Ledger[j]
  <2>1. CASE \E s \in sessions : s.id = j
    <3>1. PICK s \in sessions : s.id = j
      BY <2>1
    <3>2. Ledger[j] = Entry(s) /\ Ledger'[j] = Entry(s) /\ j <= lastId
      BY <1>1, <3>1 DEF LedgerFacts, Entry
    <3> QED
      BY <1>2, <3>2
  <2>2. CASE ~\E s \in sessions : s.id = j
    <3>1. j <= lastId => Ledger[j] = Late!Removed
      BY <1>1, <2>2 DEF LedgerFacts
    <3>2. j > lastId => Ledger[j] = Late!Unused
      BY <1>1 DEF LedgerFacts
    <3>3. j <= i => Ledger'[j] = Late!Removed
      BY <1>1, <2>2 DEF LedgerFacts, Late!Removed
    <3>4. j > i => Ledger'[j] = Late!Unused
      BY <1>1 DEF LedgerFacts, Late!Unused
    <3> QED
      BY <1>2, <3>1, <3>2, <3>3, <3>4
  <2> QED
    BY <2>1, <2>2
<1>5. Ledger' = [Ledger EXCEPT ![i] = Late!Removed]
  BY <1>1, <1>4 DEF LedgerFacts
<1> QED
  BY <1>2, <1>3, <1>5 DEF Late!Skip, Late!Removed, Late!Unused

\* A clock-in.
LEMMA OpenStep ==
  ASSUME LInv, LInv', NewId, NEW row, sessions' = sessions \cup {row},
         row.id = lastId', row.out = Open
  PROVE  \E i \in 1..MaxId, t \in 1..MaxTime : Late!ClockIn(i, t)
<1>1. LedgerFacts /\ LedgerFacts'
  BY LedgerCases, LedgerCasesNext
<1>2. lastId \in Nat /\ lastId' = lastId + 1 /\ lastId' \in 1..MaxId /\ lastId' > lastId
  BY AttendanceAssumption DEF LInv, TInv, TypeOK, NewId
<1>3. row.in \in 1..MaxTime
  BY DEF LInv, RowsOK, CopiesAreUsed, Copies
<1> DEFINE i == lastId'
<1>4. Ledger[i] = Late!Unused
  BY <1>1, <1>2 DEF LedgerFacts
<1>5. Ledger'[i] = Late!Opened(row.in)
  <2>1. Ledger'[i] = Entry(row)
    BY <1>1 DEF LedgerFacts, Entry
  <2> QED
    BY <2>1 DEF Entry, Late!Opened, Open
<1>6. ASSUME NEW j \in 1..MaxId, j # i PROVE Ledger'[j] = Ledger[j]
  <2>1. CASE \E s \in sessions : s.id = j
    <3>1. PICK s \in sessions : s.id = j
      BY <2>1
    <3>2. Ledger[j] = Entry(s) /\ Ledger'[j] = Entry(s)
      BY <1>1, <3>1 DEF LedgerFacts, Entry
    <3> QED
      BY <3>2
  <2>2. CASE ~\E s \in sessions : s.id = j
    <3>1. \A s \in sessions' : s.id # j
      BY <1>6, <2>2
    <3>2. j <= lastId => Ledger[j] = Late!Removed /\ Ledger'[j] = Late!Removed
      BY <1>1, <1>2, <2>2, <3>1 DEF LedgerFacts, Late!Removed
    <3>3. j > lastId => Ledger[j] = Late!Unused /\ Ledger'[j] = Late!Unused
      BY <1>1, <1>2, <1>6 DEF LedgerFacts, Late!Unused
    <3> QED
      BY <1>2, <3>2, <3>3
  <2> QED
    BY <2>1, <2>2
<1>7. Ledger' = [Ledger EXCEPT ![i] = Late!Opened(row.in)]
  BY <1>1, <1>5, <1>6 DEF LedgerFacts
<1>8. Late!ClockIn(i, row.in)
  BY <1>4, <1>7 DEF Late!ClockIn, Late!Opened, Late!Unused
<1> QED
  BY <1>2, <1>3, <1>8

\* A deletion or the trim.
LEMMA RemoveStep ==
  ASSUME LInv, LInv', lastId' = lastId, sessions' \subseteq sessions
  PROVE  \E S \in SUBSET (1..MaxId) : Late!Remove(S)
<1>1. LedgerFacts /\ LedgerFacts'
  BY LedgerCases, LedgerCasesNext
<1>2. lastId \in Nat
  BY DEF LInv, TInv, TypeOK
<1> DEFINE S == {i \in 1..MaxId : \E s \in sessions \ sessions' : s.id = i}
<1>3. ASSUME NEW i \in S PROVE Ledger[i] # Late!Unused
  <2>1. PICK s \in sessions \ sessions' : s.id = i
    OBVIOUS
  <2>2. Ledger[i] = Entry(s)
    BY <1>1, <2>1 DEF LedgerFacts
  <2> QED
    BY <2>2 DEF Entry, Late!Unused
<1>4. ASSUME NEW j \in 1..MaxId
      PROVE  Ledger'[j] = IF j \in S THEN Late!Removed ELSE Ledger[j]
  <2>1. CASE j \in S
    <3>1. PICK s \in sessions \ sessions' : s.id = j
      BY <2>1
    <3>2. \A t \in sessions' : t.id # j
      BY <3>1 DEF LInv, RowsOK, IdsAreUnique
    <3>3. j <= lastId'
      BY <1>1, <3>1 DEF LedgerFacts
    <3> QED
      BY <1>1, <2>1, <3>2, <3>3 DEF LedgerFacts, Late!Removed
  <2>2. CASE j \notin S /\ \E s \in sessions : s.id = j
    <3>1. PICK s \in sessions : s.id = j
      BY <2>2
    <3>2. s \in sessions'
      BY <2>2, <3>1
    <3>3. Ledger[j] = Entry(s) /\ Ledger'[j] = Entry(s)
      BY <1>1, <3>1, <3>2 DEF LedgerFacts, Entry
    <3> QED
      BY <2>2, <3>3
  <2>3. CASE ~\E s \in sessions : s.id = j
    <3>1. j \notin S /\ \A s \in sessions' : s.id # j
      BY <2>3
    <3>2. j <= lastId => Ledger[j] = Late!Removed /\ Ledger'[j] = Late!Removed
      BY <1>1, <2>3, <3>1 DEF LedgerFacts, Late!Removed
    <3>3. j > lastId => Ledger[j] = Late!Unused /\ Ledger'[j] = Late!Unused
      BY <1>1 DEF LedgerFacts, Late!Unused
    <3> QED
      BY <1>2, <3>1, <3>2, <3>3
  <2> QED
    BY <2>1, <2>2, <2>3
<1>5. Ledger' = [i \in 1..MaxId |-> IF i \in S THEN Late!Removed ELSE Ledger[i]]
  BY <1>1, <1>4 DEF LedgerFacts
<1>6. Late!Remove(S)
  BY <1>3, <1>5 DEF Late!Remove, Late!Removed, Late!Unused
<1> QED
  BY <1>6

\* The go-live job closes what is open of an event.
LEMMA JobCloseStep ==
  ASSUME LInv, LInv', JobClose
  PROVE  \E S \in SUBSET (1..MaxId), t \in 1..MaxTime : Late!Close(S, t)
<1>1. LedgerFacts /\ LedgerFacts'
  BY LedgerCases, LedgerCasesNext
<1>2. lastId \in Nat /\ lastId' = lastId /\ sessions \subseteq SessionRow
  BY DEF LInv, TInv, TypeOK, JobClose, GoLiveUnchanged
<1>3. job.at \in 1..MaxTime /\ job.at # Open
  BY AttendanceAssumption DEF LInv, RowsOK, TimesAreReal, JobClose, Open
<1> DEFINE Hit(s) == s.event = job.event /\ s.out = Open
           After(s) == IF Hit(s) THEN [s EXCEPT !.out = job.at] ELSE s
           S == {i \in 1..MaxId : \E s \in sessions : s.id = i /\ Hit(s)}
<1>4. sessions' = {After(s) : s \in sessions}
  BY DEF JobClose
<1>5. ASSUME NEW s \in sessions
      PROVE  /\ After(s) \in sessions' /\ After(s).id = s.id
             /\ Hit(s) => Entry(After(s)) = Late!Closed(s.in, job.at)
             /\ ~Hit(s) => After(s) = s
  BY <1>2, <1>3, <1>4 DEF Entry, Late!Closed, SessionRow
<1> HIDE DEF After
<1>6. ASSUME NEW i \in S PROVE Ledger[i].state = "open"
  <2>1. PICK s \in sessions : s.id = i /\ Hit(s)
    OBVIOUS
  <2>2. Ledger[i] = Entry(s)
    BY <1>1, <2>1 DEF LedgerFacts
  <2> QED
    BY <2>1, <2>2 DEF Entry
<1>7. ASSUME NEW j \in 1..MaxId
      PROVE  Ledger'[j] = IF j \in S THEN Late!Closed(Ledger[j].in, job.at) ELSE Ledger[j]
  <2>1. CASE \E s \in sessions : s.id = j
    <3>1. PICK s \in sessions : s.id = j
      BY <2>1
    <3>2. Ledger[j] = Entry(s) /\ Ledger'[j] = Entry(After(s))
      BY <1>1, <1>5, <3>1 DEF LedgerFacts, Entry
    <3>3. j \in S <=> Hit(s)
      BY <3>1 DEF LInv, RowsOK, IdsAreUnique
    <3>4. Ledger[j].in = s.in
      BY <3>2 DEF Entry
    <3> QED
      BY <1>5, <3>2, <3>3, <3>4
  <2>2. CASE ~\E s \in sessions : s.id = j
    <3>1. j \notin S /\ \A s \in sessions' : s.id # j
      BY <1>4, <1>5, <2>2
    <3>2. j <= lastId => Ledger[j] = Late!Removed /\ Ledger'[j] = Late!Removed
      BY <1>1, <1>2, <2>2, <3>1 DEF LedgerFacts, Late!Removed
    <3>3. j > lastId => Ledger[j] = Late!Unused /\ Ledger'[j] = Late!Unused
      BY <1>1, <1>2 DEF LedgerFacts, Late!Unused
    <3> QED
      BY <1>2, <3>1, <3>2, <3>3
  <2> QED
    BY <2>1, <2>2
<1>8. Ledger' = [i \in 1..MaxId |-> IF i \in S THEN Late!Closed(Ledger[i].in, job.at) ELSE Ledger[i]]
  BY <1>1, <1>7 DEF LedgerFacts
<1> HIDE DEF S
<1>9. Late!Close(S, job.at)
  BY <1>6, <1>8 DEF Late!Close, Late!Closed
<1>10. S \in SUBSET (1..MaxId)
  BY DEF S
<1> QED
  BY <1>3, <1>9, <1>10

\* What a clock-out writes is a closed row; it touches no other id.
LEMMA SavedRow ==
  ASSUME LInv, LInv', NEW w \in Workers, ClockOutSave(w)
  PROVE  LET row == req[w].row
             at  == req[w].at
         IN  /\ LedgerFacts
             /\ row.id \in 1..MaxId /\ row.id <= lastId
             /\ row.in \in 1..MaxTime /\ at \in 1..MaxTime
             /\ \A s \in sessions : s.id = row.id => s.in = row.in
             /\ Ledger' = [Ledger EXCEPT ![row.id] = Late!Closed(row.in, at)]
<1>1. LedgerFacts /\ LedgerFacts'
  BY LedgerCases, LedgerCasesNext
<1>2. lastId \in Nat /\ lastId' = lastId
  BY DEF LInv, TInv, TypeOK, ClockOutSave
<1> DEFINE row == req[w].row
           at == req[w].at
           new == [row EXCEPT !.out = at]
           i == row.id
<1>3. at \in 1..MaxTime /\ at # Open
  BY AttendanceAssumption DEF LInv, RowsOK, TimesAreReal, ClockOutSave, At, Timed, Open
<1>4. row \in SessionRow /\ row \in Copies
  BY RequestAt DEF LInv, ClockOutSave, At, Fits, Copies, Savers
<1>5. new.id = i /\ Entry(new) = Late!Closed(row.in, at)
  BY <1>3, <1>4 DEF Entry, Late!Closed, SessionRow
<1>6. sessions' = {s \in sessions : s.id # i} \cup {new}
  BY <1>5 DEF ClockOutSave, SaveSession
<1> HIDE DEF new
<1>7. i \in 1..MaxId /\ row.in \in 1..MaxTime /\ Ledger'[i] = Late!Closed(row.in, at) /\ i <= lastId
  <2>1. new \in sessions'
    BY <1>6
  <2>2. i \in 1..MaxId /\ i <= lastId' /\ Ledger'[i] = Entry(new)
    <3>1. new.id \in 1..MaxId /\ new.id <= lastId' /\ Ledger'[new.id] = Entry(new)
      BY <1>1, <2>1 DEF LedgerFacts, Entry
    <3> QED
      BY <1>5, <3>1
  <2>3. row.in \in 1..MaxTime
    BY <1>4 DEF LInv, RowsOK, CopiesAreUsed
  <2> QED
    BY <1>2, <1>5, <2>2, <2>3
<1>8. ASSUME NEW j \in 1..MaxId, j # i PROVE Ledger'[j] = Ledger[j]
  <2>1. CASE \E s \in sessions : s.id = j
    <3>1. PICK s \in sessions : s.id = j
      BY <2>1
    <3>2. s \in sessions'
      BY <1>6, <1>8, <3>1
    <3>3. Ledger[j] = Entry(s) /\ Ledger'[j] = Entry(s)
      BY <1>1, <3>1, <3>2 DEF LedgerFacts, Entry
    <3> QED
      BY <3>3
  <2>2. CASE ~\E s \in sessions : s.id = j
    <3>1. \A s \in sessions' : s.id # j
      BY <1>5, <1>6, <1>8, <2>2
    <3>2. j <= lastId => Ledger[j] = Late!Removed /\ Ledger'[j] = Late!Removed
      BY <1>1, <1>2, <2>2, <3>1 DEF LedgerFacts, Late!Removed
    <3>3. j > lastId => Ledger[j] = Late!Unused /\ Ledger'[j] = Late!Unused
      BY <1>1, <1>2 DEF LedgerFacts, Late!Unused
    <3> QED
      BY <1>2, <3>2, <3>3
  <2> QED
    BY <2>1, <2>2
<1>9. Ledger' = [Ledger EXCEPT ![i] = Late!Closed(row.in, at)]
  BY <1>1, <1>7, <1>8 DEF LedgerFacts
<1>10. \A s \in sessions : s.id = i => s.in = row.in
  BY <1>4 DEF LInv, RowsOK, CopiesAgree, Copies
<1> QED
  BY <1>1, <1>3, <1>7, <1>9, <1>10

\* A clock-out closes the row if it is still open, and is late otherwise.
LEMMA SaveStep ==
  ASSUME LInv, LInv', NEW w \in Workers, ClockOutSave(w)
  PROVE  \/ \E S \in SUBSET (1..MaxId), t \in 1..MaxTime : Late!Close(S, t)
         \/ \E i \in 1..MaxId, t, out \in 1..MaxTime : Late!LateClose(i, t, out)
<1> DEFINE row == req[w].row
           at == req[w].at
           i == row.id
<1>1. /\ LedgerFacts /\ i \in 1..MaxId /\ i <= lastId
      /\ row.in \in 1..MaxTime /\ at \in 1..MaxTime
      /\ \A s \in sessions : s.id = i => s.in = row.in
      /\ Ledger' = [Ledger EXCEPT ![i] = Late!Closed(row.in, at)]
  BY SavedRow
<1>2. CASE \E s \in sessions : s.id = i
  <2>1. PICK s \in sessions : s.id = i
    BY <1>2
  <2>2. Ledger[i] = Entry(s) /\ s.in = row.in
    BY <1>1, <2>1 DEF LedgerFacts
  <2>3. CASE s.out = Open
    <3>1. Ledger[i].state = "open" /\ Ledger[i].in = row.in
      BY <2>2, <2>3 DEF Entry
    <3>2. Ledger' = [j \in 1..MaxId |->
                       IF j \in {i} THEN Late!Closed(Ledger[j].in, at) ELSE Ledger[j]]
      BY <1>1, <3>1 DEF LedgerFacts
    <3>3. Late!Close({i}, at)
      BY <3>1, <3>2 DEF Late!Close, Late!Closed
    <3> QED
      BY <1>1, <3>3
  <2>4. CASE s.out # Open
    <3>1. Ledger[i].state = "closed" /\ Ledger[i].in = row.in
      BY <2>2, <2>4 DEF Entry
    <3>2. Late!LateClose(i, row.in, at)
      BY <1>1, <3>1 DEF Late!LateClose, Late!Closed
    <3> QED
      BY <1>1, <3>2
  <2> QED
    BY <2>3, <2>4
<1>3. CASE ~\E s \in sessions : s.id = i
  <2>1. Ledger[i] = Late!Removed
    BY <1>1, <1>3 DEF LedgerFacts
  <2>2. Late!LateClose(i, row.in, at)
    BY <1>1, <2>1 DEF Late!LateClose, Late!Closed, Late!Removed
  <2> QED
    BY <1>1, <2>2
<1> QED
  BY <1>2, <1>3

-----------------------------------------------------------------------------
(* The rows and their copies                                               *)

\* Copies derive from earlier copies, and ids only grow.
LEMMA DerivedRows ==
  ASSUME LInv, TInv', \A s \in Copies' : \E t \in Copies : t.id = s.id /\ t.in = s.in,
         IdsAreUnique', TimesAreReal', lastId <= lastId'
  PROVE  LInv'
<1>1. lastId \in Nat /\ lastId' \in Nat
  BY DEF LInv, TInv, TypeOK
<1>2. CopiesAreUsed'
  BY <1>1 DEF LInv, RowsOK, CopiesAreUsed
<1>3. CopiesAgree'
  BY DEF LInv, RowsOK, CopiesAgree
<1> QED
  BY <1>2, <1>3 DEF LInv, RowsOK

\* A request goes on to a statement that writes no time.
MovesOn(w) ==
  /\ \A v \in Workers \ {w} : pc'[v] = pc[v] /\ req'[v] = req[v]
  /\ pc'[w] \notin Timed

LEMMA MovesOnKeepsTimes ==
  ASSUME LInv, NEW w \in Workers, MovesOn(w), job' = job
  PROVE  TimesAreReal' /\ \A v \in Savers' : v \in Savers /\ req'[v] = req[v]
<1>1. TimesAreReal'
  BY DEF LInv, RowsOK, TimesAreReal, MovesOn
<1> QED
  BY <1>1 DEF Savers, MovesOn, Timed

\* Such a request may remove sessions and give an id to a row of another table.
LEMMA MovesOnKeepsRows ==
  ASSUME LInv, TInv', NEW w \in Workers, MovesOn(w), job' = job,
         sessions' \subseteq sessions, lastId <= lastId'
  PROVE  LInv'
<1>1. TimesAreReal' /\ \A v \in Savers' : v \in Savers /\ req'[v] = req[v]
  BY MovesOnKeepsTimes
<1>2. Copies' \subseteq Copies
  BY <1>1 DEF Copies
<1>3. IdsAreUnique'
  BY DEF LInv, RowsOK, IdsAreUnique
<1> QED
  BY <1>1, <1>2, <1>3, DerivedRows

LEMMA ReplyMovesOn ==
  ASSUME TInv, NEW w \in Workers, Reply(w)
  PROVE  MovesOn(w)
BY DEF TInv, TypeOK, Reply, Step, MovesOn, Timed

LEMMA StepMovesOn ==
  ASSUME TInv, NEW w \in Workers, NEW l, l \notin Timed, NEW r, Step(w, l, r)
  PROVE  MovesOn(w)
BY DEF TInv, TypeOK, Step, MovesOn

LEMMA GotoMovesOn ==
  ASSUME TInv, NEW w \in Workers, NEW l, l \notin Timed, Goto(w, l)
  PROVE  MovesOn(w)
BY DEF TInv, TypeOK, Goto, MovesOn

LEMMA BeginMovesOn ==
  ASSUME TInv, NEW w \in Workers, NEW h, NEW l, l \notin Timed, NEW r, Begin(w, h, l, r)
  PROVE  MovesOn(w)
BY StepMovesOn DEF Begin, Start

LEMMA CheckMovesOn ==
  ASSUME TInv, NEW w \in Workers, NEW here, NEW ok, NEW l, l \notin Timed,
         Check(w, here, ok, l)
  PROVE  MovesOn(w)
BY ReplyMovesOn, GotoMovesOn DEF Check

\* Everything but the four steps of clock-in and clock-out, which the others
\* leave to one side.
LEMMA MembershipMovesOn ==
  ASSUME TInv, NEW w \in Workers, MembershipStep(w)
  PROVE  /\ MovesOn(w) /\ UNCHANGED <<now, job>> /\ sessions' = sessions
         /\ NewId \/ lastId' = lastId
<1>1. /\ UNCHANGED <<now, job>> /\ sessions' = sessions
      /\ NewId \/ lastId' = lastId
  BY DEF MembershipStep, JoinByQR, JoinEvent, JoinLookup, JoinInsert, SubmitConsent, ConsentJoined,
         ConsentTemplate, ConsentLookup, ConsentInsert, ConsentSave, SaveTemplate,
         TemplateEvent, TemplateLookup, TemplateInsert, TemplateSave, MembershipUnchanged,
         memberTables
<1>2. CASE JoinByQR(w) \/ SubmitConsent(w) \/ SaveTemplate(w)
  BY <1>1, <1>2, BeginMovesOn DEF JoinByQR, SubmitConsent, SaveTemplate, Timed
<1>3. CASE JoinEvent(w) \/ ConsentJoined(w) \/ ConsentTemplate(w) \/ TemplateEvent(w)
  BY <1>1, <1>3, CheckMovesOn DEF JoinEvent, ConsentJoined, ConsentTemplate, TemplateEvent, Timed
<1>4. CASE JoinLookup(w) \/ ConsentLookup(w)
  BY <1>1, <1>4, ReplyMovesOn, StepMovesOn DEF JoinLookup, ConsentLookup, Timed
<1>5. CASE TemplateLookup(w)
  BY <1>1, <1>5, GotoMovesOn DEF TemplateLookup, Timed
<1>6. CASE JoinInsert(w) \/ ConsentInsert(w) \/ ConsentSave(w) \/ TemplateInsert(w) \/ TemplateSave(w)
  BY <1>1, <1>6, ReplyMovesOn DEF JoinInsert, ConsentInsert, ConsentSave, TemplateInsert, TemplateSave
<1> QED
  BY <1>1, <1>2, <1>3, <1>4, <1>5, <1>6 DEF MembershipStep

LEMMA GateMovesOn ==
  ASSUME TInv, NEW w \in Workers,
         \/ RecordClockInHandler(w) \/ GateQR(w) \/ GateJoined(w) \/ GateScan(w)
         \/ GateTemplate(w) \/ GateConsent(w) \/ GateFence(w)
         \/ MarkPresent(w) \/ MarkEvent(w) \/ MarkLookup(w) \/ MarkInsert(w)
  PROVE  /\ MovesOn(w) /\ UNCHANGED <<now, job>> /\ sessions' = sessions
         /\ NewId \/ lastId' = lastId
<1>1. /\ UNCHANGED <<now, job>> /\ sessions' = sessions
      /\ NewId \/ lastId' = lastId
  BY DEF RecordClockInHandler, GateQR, GateJoined, GateScan, GateTemplate, GateConsent, GateFence,
         MarkPresent, MarkEvent, MarkLookup, MarkInsert, ClockInUnchanged, rowTables
<1>2. CASE RecordClockInHandler(w)
  <2> DEFINE First(r) == CASE r.event = Nil        -> "clock_in_stamp"
                           [] r.source = "qr_scan" -> "gate_qr"
                           [] OTHER                -> "gate_joined"
  <2>1. PICK r \in ClockInRequests :
          Begin(w, "ClockIn", First(r),
                [NoRequest EXCEPT !.user = r.user, !.event = r.event,
                                  !.fence = r.fence, !.source = r.source])
    BY <1>2 DEF RecordClockInHandler
  <2>2. First(r) \in {"clock_in_stamp", "gate_qr", "gate_joined"}
    OBVIOUS
  <2>3. First(r) \notin Timed
    BY <2>2 DEF Timed
  <2> HIDE DEF First
  <2> QED
    BY <1>1, <2>1, <2>3, BeginMovesOn
<1>3. CASE MarkPresent(w)
  BY <1>1, <1>3, BeginMovesOn DEF MarkPresent, Timed
<1>4. CASE GateQR(w) \/ GateJoined(w) \/ MarkEvent(w)
  BY <1>1, <1>4, CheckMovesOn DEF GateQR, GateJoined, MarkEvent, Timed
<1>5. CASE GateConsent(w)
  BY <1>1, <1>5, CheckMovesOn DEF GateConsent, Timed
<1>6. CASE GateScan(w) \/ GateFence(w)
  <2>1. Reply(w) \/ Goto(w, "gate_template") \/ Goto(w, "clock_in_stamp")
    BY <1>6 DEF GateScan, GateFence, Check
  <2> QED
    BY <1>1, <2>1, ReplyMovesOn, GotoMovesOn DEF Timed
<1>7. CASE GateTemplate(w)
  BY <1>1, <1>7, GotoMovesOn DEF GateTemplate, Timed
<1>8. CASE MarkLookup(w) \/ MarkInsert(w)
  BY <1>1, <1>8, ReplyMovesOn, StepMovesOn DEF MarkLookup, MarkInsert, Timed
<1> QED
  BY <1>2, <1>3, <1>4, <1>5, <1>6, <1>7, <1>8

LEMMA AdminMovesOn ==
  ASSUME TInv, NEW w \in Workers, AdminStep(w) \/ AbortRequest(w)
  PROVE  MovesOn(w) /\ UNCHANGED <<now, job>> /\ sessions' \subseteq sessions /\ lastId' = lastId
<1>1. UNCHANGED <<now, job>> /\ sessions' \subseteq sessions /\ lastId' = lastId
  BY DEF AdminStep, UpdateEvent, UpdateEventRead, UpdateEventWrite, DeleteFence, DeleteFenceEvent,
         DeleteFenceRow, DeleteEvent, DeleteEventRead, DeleteEventRows, AbortRequest,
         AdminUnchanged, NothingWritten, rowTables
<1>2. CASE UpdateEvent(w) \/ DeleteFence(w) \/ DeleteEvent(w)
  BY <1>1, <1>2, BeginMovesOn DEF UpdateEvent, DeleteFence, DeleteEvent, Timed
<1>3. CASE UpdateEventRead(w) \/ DeleteFenceEvent(w) \/ DeleteEventRead(w)
  BY <1>1, <1>3, CheckMovesOn DEF UpdateEventRead, DeleteFenceEvent, DeleteEventRead, Timed
<1>4. CASE UpdateEventWrite(w) \/ DeleteFenceRow(w) \/ DeleteEventRows(w) \/ AbortRequest(w)
  BY <1>1, <1>4, ReplyMovesOn DEF UpdateEventWrite, DeleteFenceRow, DeleteEventRows, AbortRequest
<1> QED
  BY <1>1, <1>2, <1>3, <1>4 DEF AdminStep

\* What is read at these statements is the clock of the present, or a row as it is.
LEMMA ReadsKeepRows ==
  ASSUME LInv, TInv', NEW w \in Workers,
         ClockInStamp(w) \/ RecordClockOutHandler(w) \/ ClockOutSelect(w)
  PROVE  LInv'
<1>1. job' = job /\ sessions' = sessions /\ lastId' = lastId
  BY DEF ClockInStamp, RecordClockOutHandler, ClockOutSelect, ClockInUnchanged, rowTables
<1>2. TInv /\ lastId <= lastId' /\ now \in 1..MaxTime
  BY <1>1 DEF LInv, TInv, TypeOK
<1>3. IdsAreUnique'
  BY <1>1 DEF LInv, RowsOK, IdsAreUnique
<1>4. CASE ClockOutSelect(w) /\ Reply(w)
  BY <1>1, <1>2, <1>4, ReplyMovesOn, MovesOnKeepsRows
<1>5. ASSUME NEW l \in Labels, NEW r \in Request, Step(w, l, r),
             r.at \in 1..MaxTime, l = "clock_out_save" => r.row \in sessions
      PROVE  LInv'
  <2>1. \A v \in Workers : /\ pc'[v] = IF v = w THEN l ELSE pc[v]
                           /\ req'[v] = IF v = w THEN r ELSE req[v]
    BY <1>2, <1>5 DEF TInv, TypeOK, Step
  <2>2. TimesAreReal'
    BY <1>1, <1>5, <2>1 DEF LInv, RowsOK, TimesAreReal
  <2>3. Copies' \subseteq Copies
    BY <1>1, <1>5, <2>1 DEF Copies, Savers
  <2> QED
    BY <1>2, <1>3, <2>2, <2>3, DerivedRows
<1>6. CASE ClockInStamp(w)
  <2>1. PICK r : r = [req[w] EXCEPT !.at = now]
    OBVIOUS
  <2>2. req[w] \in Request /\ now \in Nat
    BY <1>2, RequestAt DEF TablesOK
  <2>3. r \in Request /\ r.at = now
    BY <2>1, <2>2 DEF Request
  <2>4. Step(w, "clock_in_insert", r)
    BY <1>6, <2>1 DEF ClockInStamp
  <2> QED
    BY <1>2, <1>5, <2>3, <2>4 DEF Labels
<1>7. CASE RecordClockOutHandler(w)
  <2>1. PICK u \in users :
          \/ \E id \in 1..lastId :
                Begin(w, "ClockOut", "clock_out_select",
                      [NoRequest EXCEPT !.user = u, !.session = id, !.at = now])
          \/ \E e \in Events, f \in Fences :
                Begin(w, "ClockOut", "clock_out_select",
                      [NoRequest EXCEPT !.user = u, !.event = e, !.fence = f, !.at = now])
    BY <1>7 DEF RecordClockOutHandler
  <2>2. u \in Users /\ now \in Nat /\ lastId \in Nat /\ NoRequest \in Request
    BY <1>2, RequestAt, NoRequestType DEF TablesOK
  <2>3. ASSUME NEW r \in Request, r.at = now, Begin(w, "ClockOut", "clock_out_select", r)
        PROVE  LInv'
    BY <1>2, <1>5, <2>3 DEF Begin, Start, Labels
  <2>4. \A id \in 1..lastId :
          LET r == [NoRequest EXCEPT !.user = u, !.session = id, !.at = now]
          IN  r \in Request /\ r.at = now
    <3>1. \A id \in 1..lastId : id \in Nat
      BY <2>2
    <3> QED
      BY <2>2, <3>1 DEF Request
  <2>5. \A e \in Events, f \in Fences :
          LET r == [NoRequest EXCEPT !.user = u, !.event = e, !.fence = f, !.at = now]
          IN  r \in Request /\ r.at = now
    BY <2>2 DEF Request
  <2> QED
    BY <2>1, <2>3, <2>4, <2>5
<1>8. CASE ClockOutSelect(w) /\ ~Reply(w)
  <2>1. PICK row \in OpenSessions(req[w]) :
           Step(w, "clock_out_save", [req[w] EXCEPT !.row = row])
    BY <1>8 DEF ClockOutSelect
  <2>2. row \in sessions /\ row \in SessionRow
    BY <1>2, RequestAt DEF OpenSessions, TablesOK
  <2>3. PICK r : r = [req[w] EXCEPT !.row = row]
    OBVIOUS
  <2>4. r \in Request /\ r.at = req[w].at /\ r.row = row
    BY <1>2, <2>2, <2>3, RequestAt DEF Request
  <2>5. req[w].at \in 1..MaxTime
    BY <1>8 DEF LInv, RowsOK, TimesAreReal, ClockOutSelect, At, Timed
  <2> QED
    BY <1>5, <2>1, <2>2, <2>3, <2>4, <2>5 DEF Labels
<1> QED
  BY <1>4, <1>6, <1>7, <1>8

\* A clock-in takes an id that no copy has.
LEMMA ClockInKeepsRows ==
  ASSUME LInv, TInv', NEW w \in Workers, ClockInInsert(w)
  PROVE  /\ LInv'
         /\ \E row : /\ sessions' = sessions \cup {row}
                     /\ row.id = lastId' /\ row.out = Open
<1> DEFINE row == [id |-> lastId', user |-> req[w].user, event |-> req[w].event,
                   fence |-> req[w].fence, source |-> req[w].source, in |-> req[w].at, out |-> Open]
<1>1. /\ job' = job /\ sessions' = sessions \cup {row} /\ lastId' = lastId + 1
      /\ Reply(w)
  BY DEF ClockInInsert, ClockInUnchanged, NewId
<1>2. row.id = lastId' /\ row.out = Open /\ row.in = req[w].at
  OBVIOUS
<1>3. req[w].at \in 1..MaxTime
  BY DEF LInv, RowsOK, TimesAreReal, ClockInInsert, At, Timed
<1> HIDE DEF row
<1>4. lastId \in Nat /\ lastId' = lastId + 1 /\ lastId' \in 1..lastId' /\ \A i \in 1..lastId : i # lastId'
  BY <1>1 DEF LInv, TInv, TypeOK
<1>5. TimesAreReal' /\ \A v \in Savers' : v \in Savers /\ req'[v] = req[v]
  BY <1>1, ReplyMovesOn, MovesOnKeepsTimes DEF LInv
<1>6. Copies' \subseteq Copies \cup {row}
  BY <1>1, <1>5 DEF Copies
<1>7. \A s \in Copies : s.id \in 1..lastId' /\ s.id # lastId'
  BY <1>4 DEF LInv, RowsOK, CopiesAreUsed
<1>8. CopiesAreUsed'
  BY <1>2, <1>3, <1>4, <1>6, <1>7 DEF LInv, RowsOK, CopiesAreUsed
<1>9. CopiesAgree'
  BY <1>2, <1>6, <1>7 DEF LInv, RowsOK, CopiesAgree
<1>10. IdsAreUnique'
  BY <1>1, <1>2, <1>7 DEF LInv, RowsOK, IdsAreUnique, Copies
<1> QED
  BY <1>1, <1>2, <1>5, <1>8, <1>9, <1>10 DEF LInv, RowsOK

LEMMA SaveKeepsRows ==
  ASSUME LInv, TInv', NEW w \in Workers, ClockOutSave(w)
  PROVE  LInv'
<1> DEFINE row == req[w].row
           new == [row EXCEPT !.out = req[w].at]
<1>1. job' = job /\ lastId' = lastId /\ lastId <= lastId' /\ Reply(w)
  BY DEF ClockOutSave, ClockInUnchanged, LInv, TInv, TypeOK
<1>2. row \in SessionRow /\ row \in Copies
  BY RequestAt DEF LInv, ClockOutSave, At, Fits, Copies, Savers
<1>3. new.id = row.id /\ new.in = row.in
  BY <1>2 DEF SessionRow
<1>4. sessions' = {s \in sessions : s.id # row.id} \cup {new}
  BY <1>3 DEF ClockOutSave, SaveSession
<1> HIDE DEF new
<1>5. TimesAreReal' /\ \A v \in Savers' : v \in Savers /\ req'[v] = req[v]
  BY <1>1, ReplyMovesOn, MovesOnKeepsTimes DEF LInv
<1>6. Copies' \subseteq Copies \cup {new}
  BY <1>4, <1>5 DEF Copies
<1>7. IdsAreUnique'
  BY <1>3, <1>4 DEF LInv, RowsOK, IdsAreUnique
<1> QED
  BY <1>1, <1>2, <1>3, <1>5, <1>6, <1>7, DerivedRows

LEMMA JobKeepsRows ==
  ASSUME LInv, TInv', JobWork \/ JobAbort
  PROVE  LInv'
<1> USE DEF GoLiveUnchanged, workers
<1>a. pc' = pc /\ req' = req /\ lastId' = lastId
  BY DEF JobWork, JobFind, JobNext, JobClose, JobList, JobAlert, JobStamp, JobAbort
<1>b. job \in JobState /\ sessions \subseteq SessionRow /\ now \in 1..MaxTime /\ lastId \in Nat
  BY DEF LInv, TInv, TypeOK
<1>1. /\ pc' = pc /\ req' = req /\ lastId' = lastId
      /\ lastId <= lastId' /\ job \in JobState /\ sessions \subseteq SessionRow /\ now \in 1..MaxTime
  BY <1>a, <1>b
<1>2. Savers' = Savers
  BY <1>1 DEF Savers
<1>3. TimesAreReal'
  <2>1. CASE JobNext
    <3>1. PICK e \in job.events :
            job' = [job EXCEPT !.pc = "close", !.event = e, !.events = @ \ {e}, !.at = now]
      BY <2>1 DEF JobNext
    <3>2. job'.at = now
      BY <1>1, <3>1 DEF JobState
    <3> QED
      BY <1>1, <3>2 DEF LInv, RowsOK, TimesAreReal
  <2>2. CASE ~JobNext
    <3>1. job'.pc # "close"
      <4>1. CASE JobFind \/ JobAbort \/ JobStamp
        <5>1. CASE JobFind
          BY <5>1 DEF JobFind, JobIdle
        <5>2. CASE JobAbort
          BY <5>2 DEF JobAbort, JobIdle
        <5>3. CASE JobStamp
          BY <5>3 DEF JobStamp, JobIdle
        <5> QED
          BY <4>1, <5>1, <5>2, <5>3
      <4>2. CASE JobClose \/ JobList \/ JobAlert
        BY <1>1, <4>2 DEF JobClose, JobList, JobAlert, JobState
      <4> QED
        BY <2>2, <4>1, <4>2 DEF JobWork
    <3> QED
      BY <1>1, <3>1 DEF LInv, RowsOK, TimesAreReal
  <2> QED
    BY <2>1, <2>2
<1>4. CASE JobClose
  <2> DEFINE After(s) == IF s.event = job.event /\ s.out = Open THEN [s EXCEPT !.out = job.at] ELSE s
  <2>1. sessions' = {After(s) : s \in sessions}
    BY <1>4 DEF JobClose
  <2>2. \A s \in sessions : After(s).id = s.id /\ After(s).in = s.in
    BY <1>1 DEF SessionRow
  <2> HIDE DEF After
  <2>3. \A s \in Copies' : \E t \in Copies : t.id = s.id /\ t.in = s.in
    BY <1>1, <1>2, <2>1, <2>2 DEF Copies
  <2>4. IdsAreUnique'
    BY <2>1, <2>2 DEF LInv, RowsOK, IdsAreUnique
  <2> QED
    BY <1>1, <1>3, <2>3, <2>4, DerivedRows
<1>5. CASE ~JobClose
  <2>1. sessions' = sessions
    BY <1>5 DEF JobWork, JobFind, JobNext, JobList, JobAlert, JobStamp, JobAbort
  <2>2. Copies' = Copies /\ IdsAreUnique'
    BY <1>1, <1>2, <2>1 DEF Copies, LInv, RowsOK, IdsAreUnique
  <2> QED
    BY <1>1, <1>3, <2>2, DerivedRows
<1> QED
  BY <1>4, <1>5

\* The requests that are one statement, and the clock.
LEMMA SingleKeepsRows ==
  ASSUME LInv, TInv', LeaveEvent \/ DeleteAccount \/ SetScanRequired \/ TrimHistory \/ Tick
  PROVE  LInv' /\ sessions' \subseteq sessions /\ lastId' = lastId
<1>1. /\ UNCHANGED <<pc, req, job, lastId>> /\ sessions' \subseteq sessions
      /\ lastId <= lastId'
  BY DEF LeaveEvent, DeleteAccount, SetScanRequired, TrimHistory, Tick, MembershipUnchanged,
         ClockInUnchanged, AdminUnchanged, workers, rowTables, LInv, TInv, TypeOK
<1>2. Copies' \subseteq Copies
  BY <1>1 DEF Copies, Savers
<1>3. IdsAreUnique' /\ TimesAreReal'
  BY <1>1 DEF LInv, RowsOK, IdsAreUnique, TimesAreReal
<1> QED
  BY <1>1, <1>2, <1>3, DerivedRows

-----------------------------------------------------------------------------
(* The refinement                                                          *)

LEMMA LedgerInit == Init => LInv /\ Late!Init
<1> SUFFICES ASSUME Init PROVE LInv /\ Late!Init
  OBVIOUS
<1>1. sessions = {} /\ Savers = {} /\ Copies = {} /\ lastId = 0
  BY DEF Init, Savers, Copies
<1>2. RowsOK
  BY <1>1 DEF RowsOK, CopiesAreUsed, CopiesAgree, IdsAreUnique, TimesAreReal, Init, JobIdle, Timed
<1>3. \A i \in 1..MaxId : i > lastId
  BY <1>1
<1>4. Ledger = [i \in 1..MaxId |-> Late!Unused]
  BY <1>3 DEF Ledger, LedgerOf, Late!Unused
<1> QED
  BY <1>2, <1>4, InitTypes DEF LInv, Late!Init, Late!Unused

LEMMA LedgerStep == LInv /\ [Next]_vars => LInv' /\ [Late!Next]_Ledger
<1> SUFFICES ASSUME LInv, [Next]_vars PROVE LInv' /\ [Late!Next]_Ledger
  OBVIOUS
<1>1. TInv /\ TInv' /\ lastId \in Nat
  BY NextKeepsTypes DEF LInv, TInv, TypeOK
<1>2. ASSUME LInv', sessions' \subseteq sessions, lastId' = lastId
      PROVE  [Late!Next]_Ledger
  BY <1>2, RemoveStep DEF Late!Next
<1>3. ASSUME LInv', sessions' = sessions, NewId \/ lastId' = lastId
      PROVE  [Late!Next]_Ledger
  BY <1>3, SkipStep, LedgerUnchanged DEF Late!Next
<1>4. ASSUME NEW w \in Workers, MembershipStep(w) PROVE LInv' /\ [Late!Next]_Ledger
  <2>1. lastId <= lastId'
    BY <1>1, <1>4, MembershipMovesOn DEF NewId
  <2>2. LInv'
    BY <1>1, <1>4, <2>1, MembershipMovesOn, MovesOnKeepsRows
  <2> QED
    BY <1>1, <1>3, <1>4, <2>2, MembershipMovesOn
<1>5. ASSUME NEW w \in Workers, ClockInStep(w) PROVE LInv' /\ [Late!Next]_Ledger
  <2>1. CASE \/ RecordClockInHandler(w) \/ GateQR(w) \/ GateJoined(w) \/ GateScan(w)
             \/ GateTemplate(w) \/ GateConsent(w) \/ GateFence(w)
             \/ MarkPresent(w) \/ MarkEvent(w) \/ MarkLookup(w) \/ MarkInsert(w)
    <3>1. lastId <= lastId'
      BY <1>1, <2>1, GateMovesOn DEF NewId
    <3>2. LInv'
      BY <1>1, <2>1, <3>1, GateMovesOn, MovesOnKeepsRows
    <3> QED
      BY <1>1, <1>3, <2>1, <3>2, GateMovesOn
  <2>2. CASE ClockInStamp(w) \/ RecordClockOutHandler(w) \/ ClockOutSelect(w)
    <3>1. LInv'
      BY <1>1, <2>2, ReadsKeepRows
    <3>2. sessions' = sessions /\ lastId' = lastId
      BY <2>2 DEF ClockInStamp, RecordClockOutHandler, ClockOutSelect, rowTables
    <3> QED
      BY <1>3, <3>1, <3>2
  <2>3. CASE ClockInInsert(w)
    <3>1. /\ LInv'
          /\ \E row : sessions' = sessions \cup {row} /\ row.id = lastId' /\ row.out = Open
      BY <1>1, <2>3, ClockInKeepsRows
    <3>2. NewId
      BY <2>3 DEF ClockInInsert
    <3> QED
      BY <3>1, <3>2, OpenStep DEF Late!Next
  <2>4. CASE ClockOutSave(w)
    <3>1. LInv'
      BY <1>1, <2>4, SaveKeepsRows
    <3> QED
      BY <2>4, <3>1, SaveStep DEF Late!Next
  <2> QED
    BY <1>5, <2>1, <2>2, <2>3, <2>4 DEF ClockInStep
<1>6. ASSUME NEW w \in Workers, AdminStep(w) \/ AbortRequest(w) PROVE LInv' /\ [Late!Next]_Ledger
  <2>1. lastId <= lastId'
    BY <1>1, <1>6, AdminMovesOn
  <2>2. LInv'
    BY <1>1, <1>6, <2>1, AdminMovesOn, MovesOnKeepsRows
  <2> QED
    BY <1>1, <1>2, <1>6, <2>2, AdminMovesOn
<1>7. CASE LeaveEvent \/ DeleteAccount \/ SetScanRequired \/ TrimHistory \/ Tick
  BY <1>1, <1>2, <1>7, SingleKeepsRows
<1>8. CASE JobWork \/ JobAbort
  <2>1. LInv'
    BY <1>1, <1>8, JobKeepsRows
  <2>2. CASE JobClose
    BY <2>1, <2>2, JobCloseStep DEF Late!Next
  <2>3. CASE ~JobClose
    <3>1. sessions' = sessions /\ lastId' = lastId
      BY <1>8, <2>3 DEF JobWork, JobFind, JobNext, JobList, JobAlert, JobStamp, JobAbort, GoLiveUnchanged
    <3> QED
      BY <1>3, <2>1, <3>1
  <2> QED
    BY <2>2, <2>3
<1>9. CASE UNCHANGED vars
  <2>1. UNCHANGED <<pc, req, job, sessions, lastId>>
    BY <1>9 DEF vars, workers, rowTables
  <2>2. LInv'
    BY <1>1, <2>1 DEF LInv, RowsOK, CopiesAreUsed, CopiesAgree, IdsAreUnique, TimesAreReal, Copies, Savers
  <2> QED
    BY <1>3, <2>1, <2>2
<1> QED
  BY <1>4, <1>5, <1>6, <1>7, <1>8, <1>9 DEF Next

\* Whatever requests and jobs interleave, the activity history implements the
\* session ledger with late writes: no session that was closed or deleted is
\* open again, although RecordClockOut saves a whole row that it read earlier.
THEOREM HistoryImplementsLedger == Spec => LateLedger
BY LedgerInit, LedgerStep, PTL DEF Spec, LateLedger, Late!Spec

-------------------------------------------------------------------------------
(***************************************************************************)
(* What the attendance handlers promise when requests run one at a time:   *)
(* with a single worker, beside the go-live job, the trim and the clock.   *)
(* No constraint of the database keeps any of it; it rests on what the     *)
(* handlers have read before they write, and each proof says what that is. *)
(***************************************************************************)

OneWorker == \A v, w \in Workers : v = w

\* A session of an event has the attendance row of its clock-in.
Backed(s) ==
  \E a \in attendance : a.id = s.id /\ a.event = s.event /\ a.user = s.user /\ a.at = s.in

GatePassed(r) ==
  /\ Joined(r.event, r.user)
  /\ NeedsConsent(r.event) => HasConsent(r.event, r.user)
  /\ r.event \in scan => r.source = "qr_scan"

\* What the reads of a request have found, and is still so at its statement l.
Knows(l, r) ==
  /\ l \in {"join_lookup", "join_insert", "template_lookup", "template_insert",
            "template_save", "mark_lookup", "mark_insert"} => r.event \in events
  /\ l = "join_insert" => ~Joined(r.event, r.user)
  /\ l = "mark_insert" => ~HasPresent(r.event, r.user)
  /\ l \in {"consent_template", "consent_lookup", "consent_insert", "consent_save",
            "gate_scan", "gate_template", "gate_consent", "gate_fence"}
       => Joined(r.event, r.user)
  /\ l \in {"gate_template", "gate_consent", "gate_fence"} =>
       (r.event \in scan => r.source = "qr_scan")
  /\ l = "gate_fence" => (NeedsConsent(r.event) => HasConsent(r.event, r.user))
  /\ l \in {"clock_in_stamp", "clock_in_insert"} /\ r.event # Nil => GatePassed(r)
  /\ l = "clock_out_save" =>
       /\ r.row.event \in events \cup {Nil}
       /\ r.row.event # Nil => Backed(r.row)

RequestsKnow == \A w \in Workers : Knows(pc[w], req[w])

\* MarkPresentOnce orders the rows of an attendee by their ids.
IdsArePast == \A a \in attendance : a.id \in 1..lastId

Promises == OneJoinRow /\ NoOrphanRows /\ SessionHasAttendance /\ MarkPresentOnce /\ IdsArePast

SInv == LInv /\ Promises /\ RequestsKnow

\* The tables that the promises are about, and those that requests know about.
knownTables == <<events, scan, templates, joins, consents, attendance>>
promiseTables == <<knownTables, fences, sessions, lastId>>

-----------------------------------------------------------------------------
(* Steps that only move a request                                          *)

LEMMA KnowsNothing ==
  ASSUME NEW r,
         NEW l \in {"idle", "join_event", "consent_joined", "template_event", "gate_qr",
                    "gate_joined", "clock_out_select", "mark_event", "update_event_read",
                    "update_event_write", "delete_fence_event", "delete_fence_row",
                    "delete_event_read", "delete_event_rows"}
  PROVE  Knows(l, r)
BY DEF Knows

LEMMA KnowsAt ==
  ASSUME SInv, NEW w \in Workers
  PROVE  /\ TInv /\ LInv /\ Promises
         /\ Knows(pc[w], req[w]) /\ Fits(pc[w], req[w]) /\ req[w] \in Request
BY RequestAt DEF SInv, LInv, RequestsKnow

LEMMA PromisesStay == Promises /\ UNCHANGED promiseTables => Promises'
BY DEF Promises, promiseTables, knownTables, OneJoinRow, NoOrphanRows, SessionHasAttendance,
       MarkPresentOnce, IdsArePast

LEMMA KnowledgeStays ==
  ASSUME NEW l, NEW r, Knows(l, r), UNCHANGED knownTables
  PROVE  Knows(l, r)'
BY DEF Knows, knownTables, Joined, HasConsent, HasPresent, NeedsConsent, GatePassed, Backed

\* The one request goes on, knowing r at l, and writes none of the tables.
LEMMA StepKeepsPromises ==
  ASSUME OneWorker, SInv, LInv', NEW w \in Workers, NEW l, NEW r, Step(w, l, r), Knows(l, r),
         UNCHANGED promiseTables
  PROVE  SInv'
<1>1. pc' = [pc EXCEPT ![w] = l] /\ req' = [req EXCEPT ![w] = r]
  BY DEF Step
<1>2. pc'[w] = l /\ req'[w] = r /\ \A v \in Workers : v = w
  BY <1>1, KnowsAt DEF TInv, TypeOK, OneWorker
<1>3. Knows(l, r)'
  BY KnowledgeStays DEF promiseTables
<1>4. RequestsKnow'
  BY <1>2, <1>3 DEF RequestsKnow
<1> QED
  BY <1>4, PromisesStay DEF SInv

\* The one request answers, after it has written what keeps the promises.
LEMMA ReplyKeepsPromises ==
  ASSUME OneWorker, SInv, LInv', NEW w \in Workers, Reply(w), Promises'
  PROVE  SInv'
<1>1. \A v \in Workers : pc'[v] = "idle"
  BY KnowsAt DEF Reply, Step, TInv, TypeOK, OneWorker
<1>2. RequestsKnow'
  BY <1>1 DEF RequestsKnow, Knows
<1> QED
  BY <1>2 DEF SInv

LEMMA MoveKeepsPromises ==
  ASSUME OneWorker, SInv, LInv', NEW w \in Workers, NEW l,
         Reply(w) \/ (Goto(w, l) /\ Knows(l, req[w])),
         UNCHANGED promiseTables
  PROVE  SInv'
<1>1. CASE Reply(w)
  BY <1>1, ReplyKeepsPromises, PromisesStay DEF SInv
<1>2. CASE Goto(w, l) /\ Knows(l, req[w])
  <2>1. Step(w, l, req[w])
    BY <1>2, KnowsAt DEF Goto, Step, TInv, TypeOK
  <2> QED
    BY <1>2, <2>1, StepKeepsPromises
<1> QED
  BY <1>1, <1>2

LEMMA BeginKeepsPromises ==
  ASSUME OneWorker, SInv, LInv', NEW w \in Workers, NEW h, NEW l, NEW r, Begin(w, h, l, r),
         Knows(l, r), UNCHANGED promiseTables
  PROVE  SInv'
BY StepKeepsPromises DEF Begin, Start

\* Reading the clock changes nothing that a request knows.
LEMMA StampKnows ==
  ASSUME SInv, NEW w \in Workers, NEW l, Knows(l, req[w])
  PROVE  Knows(l, [req[w] EXCEPT !.at = now])
<1> DEFINE r == [req[w] EXCEPT !.at = now]
<1>1. r.user = req[w].user /\ r.event = req[w].event /\ r.source = req[w].source /\ r.row = req[w].row
  BY KnowsAt DEF Request
<1> HIDE DEF r
<1>2. Knows(l, r)
  BY <1>1 DEF Knows, GatePassed
<1> QED
  BY <1>2 DEF r

LEMMA StampKeepsPromises ==
  ASSUME OneWorker, SInv, LInv', NEW w \in Workers, NEW l,
         Reply(w) \/ (Step(w, l, [req[w] EXCEPT !.at = now]) /\ Knows(l, req[w])),
         UNCHANGED promiseTables
  PROVE  SInv'
<1>1. CASE Reply(w)
  BY <1>1, ReplyKeepsPromises, PromisesStay DEF SInv
<1>2. CASE Step(w, l, [req[w] EXCEPT !.at = now]) /\ Knows(l, req[w])
  BY <1>2, StampKnows, StepKeepsPromises
<1> QED
  BY <1>1, <1>2

-----------------------------------------------------------------------------
(* Joining, consenting and the template                                    *)

LEMMA JoinKeepsPromises ==
  ASSUME OneWorker, SInv, LInv', NEW w \in Workers,
         JoinByQR(w) \/ JoinEvent(w) \/ JoinLookup(w) \/ JoinInsert(w)
  PROVE  SInv'
<1> USE DEF MembershipUnchanged, memberTables, promiseTables, knownTables
<1>1. CASE JoinByQR(w)
  <2>1. \A r : Knows("join_event", r)
    BY KnowsNothing
  <2> QED
    BY <1>1, <2>1, BeginKeepsPromises DEF JoinByQR
<1>2. CASE JoinEvent(w)
  <2>1. Reply(w) \/ (Goto(w, "join_lookup") /\ Knows("join_lookup", req[w]))
    BY <1>2 DEF JoinEvent, Check, Knows
  <2>2. UNCHANGED promiseTables
    BY <1>2 DEF JoinEvent
  <2> QED
    BY <2>1, <2>2, MoveKeepsPromises
<1>3. CASE JoinLookup(w)
  <2>1. \/ Reply(w)
        \/ Step(w, "join_insert", [req[w] EXCEPT !.at = now]) /\ Knows("join_insert", req[w])
    BY <1>3, KnowsAt DEF JoinLookup, At, Knows
  <2>2. UNCHANGED promiseTables
    BY <1>3 DEF JoinLookup
  <2> QED
    BY <2>1, <2>2, StampKeepsPromises
<1>4. CASE JoinInsert(w)
  <2> DEFINE row == [id |-> lastId', event |-> req[w].event, user |-> req[w].user,
                     at |-> req[w].at, seen |-> now]
  <2>1. /\ joins' = joins \cup {row} /\ lastId' = lastId + 1 /\ Reply(w)
        /\ UNCHANGED <<events, scan, templates, consents, attendance, fences, sessions>>
    BY <1>4 DEF JoinInsert, NewId
  <2>2. row.event = req[w].event /\ row.user = req[w].user
    OBVIOUS
  <2> HIDE DEF row
  <2>3. row.event \in events /\ ~Joined(row.event, row.user)
    BY <1>4, <2>2, KnowsAt DEF JoinInsert, At, Knows
  <2>4. Promises
    BY DEF SInv
  <2>5. OneJoinRow'
    BY <2>1, <2>3, <2>4 DEF Promises, OneJoinRow, Joined
  <2>6. NoOrphanRows'
    BY <2>1, <2>3, <2>4 DEF Promises, NoOrphanRows
  <2>7. IdsArePast'
    BY <2>1, <2>4, KnowsAt DEF Promises, IdsArePast, TInv, TypeOK
  <2>8. SessionHasAttendance' /\ MarkPresentOnce'
    BY <2>1, <2>4 DEF Promises, SessionHasAttendance, MarkPresentOnce
  <2> QED
    BY <2>1, <2>5, <2>6, <2>7, <2>8, ReplyKeepsPromises DEF Promises
<1> QED
  BY <1>1, <1>2, <1>3, <1>4

\* An attendee who has joined an event that exists consents to it.
LEMMA ConsentKeepsPromises ==
  ASSUME OneWorker, SInv, LInv', NEW w \in Workers,
         \/ SubmitConsent(w) \/ ConsentJoined(w) \/ ConsentTemplate(w)
         \/ ConsentLookup(w) \/ ConsentInsert(w) \/ ConsentSave(w)
  PROVE  SInv'
<1> USE DEF MembershipUnchanged, memberTables, promiseTables, knownTables
<1>1. CASE SubmitConsent(w)
  <2>1. \A r : Knows("consent_joined", r)
    BY KnowsNothing
  <2> QED
    BY <1>1, <2>1, BeginKeepsPromises DEF SubmitConsent
<1>2. CASE ConsentJoined(w)
  <2>1. Reply(w) \/ (Goto(w, "consent_template") /\ Knows("consent_template", req[w]))
    BY <1>2 DEF ConsentJoined, Check, Knows
  <2>2. UNCHANGED promiseTables
    BY <1>2 DEF ConsentJoined
  <2> QED
    BY <2>1, <2>2, MoveKeepsPromises
<1>3. CASE ConsentTemplate(w)
  <2>1. Reply(w) \/ (Goto(w, "consent_lookup") /\ Knows("consent_lookup", req[w]))
    BY <1>3, KnowsAt DEF ConsentTemplate, Check, At, Knows
  <2>2. UNCHANGED promiseTables
    BY <1>3 DEF ConsentTemplate
  <2> QED
    BY <2>1, <2>2, MoveKeepsPromises
<1>4. CASE ConsentLookup(w)
  <2>1. \E l \in {"consent_save", "consent_insert"} : Step(w, l, [req[w] EXCEPT !.at = now])
    BY <1>4 DEF ConsentLookup
  <2>2. \A l \in {"consent_save", "consent_insert"} : Knows(l, req[w])
    BY <1>4, KnowsAt DEF ConsentLookup, At, Knows
  <2>3. UNCHANGED promiseTables
    BY <1>4 DEF ConsentLookup
  <2> QED
    BY <2>1, <2>2, <2>3, StampKeepsPromises
<1>5. CASE ConsentInsert(w) \/ ConsentSave(w)
  <2>1. /\ \A c \in consents' : c \in consents \/ c.event = req[w].event
        /\ UNCHANGED <<events, scan, templates, joins, attendance, fences, sessions, lastId>>
        /\ Reply(w)
    BY <1>5 DEF ConsentInsert, ConsentSave, Consent
  <2>2. Promises
    BY DEF SInv
  <2>3. req[w].event \in events
    BY <1>5, <2>2, KnowsAt
       DEF ConsentInsert, ConsentSave, At, Knows, Joined, Promises, NoOrphanRows
  <2>4. NoOrphanRows'
    BY <2>1, <2>2, <2>3 DEF Promises, NoOrphanRows
  <2>5. Promises'
    BY <2>1, <2>2, <2>4
       DEF Promises, OneJoinRow, SessionHasAttendance, MarkPresentOnce, IdsArePast
  <2> QED
    BY <2>1, <2>5, ReplyKeepsPromises
<1> QED
  BY <1>1, <1>2, <1>3, <1>4, <1>5

LEMMA TemplateKeepsPromises ==
  ASSUME OneWorker, SInv, LInv', NEW w \in Workers,
         \/ SaveTemplate(w) \/ TemplateEvent(w) \/ TemplateLookup(w)
         \/ TemplateInsert(w) \/ TemplateSave(w)
  PROVE  SInv'
<1> USE DEF MembershipUnchanged, memberTables, promiseTables, knownTables
<1>1. CASE SaveTemplate(w)
  <2>1. \A r : Knows("template_event", r)
    BY KnowsNothing
  <2> QED
    BY <1>1, <2>1, BeginKeepsPromises DEF SaveTemplate
<1>2. CASE TemplateEvent(w)
  <2>1. Reply(w) \/ (Goto(w, "template_lookup") /\ Knows("template_lookup", req[w]))
    BY <1>2 DEF TemplateEvent, Check, Knows
  <2>2. UNCHANGED promiseTables
    BY <1>2 DEF TemplateEvent
  <2> QED
    BY <2>1, <2>2, MoveKeepsPromises
<1>3. CASE TemplateLookup(w)
  <2>1. \E l \in {"template_save", "template_insert"} : Goto(w, l)
    BY <1>3 DEF TemplateLookup
  <2>2. \A l \in {"template_save", "template_insert"} : Knows(l, req[w])
    BY <1>3, KnowsAt DEF TemplateLookup, At, Knows
  <2>3. UNCHANGED promiseTables
    BY <1>3 DEF TemplateLookup
  <2> QED
    BY <2>1, <2>2, <2>3, MoveKeepsPromises
<1>4. CASE TemplateInsert(w) \/ TemplateSave(w)
  <2>1. /\ \A t \in templates' : t \in templates \/ t.event = req[w].event
        /\ UNCHANGED <<events, scan, joins, consents, attendance, fences, sessions, lastId>>
        /\ Reply(w)
    BY <1>4 DEF TemplateInsert, TemplateSave
  <2>2. Promises
    BY DEF SInv
  <2>3. req[w].event \in events
    BY <1>4, KnowsAt DEF TemplateInsert, TemplateSave, At, Knows
  <2>4. NoOrphanRows'
    BY <2>1, <2>2, <2>3 DEF Promises, NoOrphanRows
  <2>5. Promises'
    BY <2>1, <2>2, <2>4
       DEF Promises, OneJoinRow, SessionHasAttendance, MarkPresentOnce, IdsArePast
  <2> QED
    BY <2>1, <2>5, ReplyKeepsPromises
<1> QED
  BY <1>1, <1>2, <1>3, <1>4

-----------------------------------------------------------------------------
(* Clocking in and out, and marking present                                *)

\* Each read of the gate adds to what the request knows.
LEMMA GateKeepsPromises ==
  ASSUME OneWorker, SInv, LInv', NEW w \in Workers,
         \/ RecordClockInHandler(w) \/ GateQR(w) \/ GateJoined(w) \/ GateScan(w)
         \/ GateTemplate(w) \/ GateConsent(w) \/ GateFence(w) \/ ClockInStamp(w)
  PROVE  SInv'
<1> USE DEF ClockInUnchanged, eventTables, memberTables, rowTables, promiseTables, knownTables
<1>1. UNCHANGED promiseTables
  BY DEF RecordClockInHandler, GateQR, GateJoined, GateScan, GateTemplate, GateConsent, GateFence,
         ClockInStamp
<1>2. CASE RecordClockInHandler(w)
  <2> DEFINE First(r) == CASE r.event = Nil        -> "clock_in_stamp"
                           [] r.source = "qr_scan" -> "gate_qr"
                           [] OTHER                -> "gate_joined"
             Q(r) == [NoRequest EXCEPT !.user = r.user, !.event = r.event,
                                       !.fence = r.fence, !.source = r.source]
  <2>1. PICK r \in ClockInRequests : Begin(w, "ClockIn", First(r), Q(r))
    BY <1>2 DEF RecordClockInHandler
  <2>2. Q(r).event = r.event
    BY DEF NoRequest
  <2>3. First(r) = "clock_in_stamp" => r.event = Nil
    BY DEF ClockInRequests
  <2>4. First(r) \in {"clock_in_stamp", "gate_qr", "gate_joined"}
    OBVIOUS
  <2> HIDE DEF First, Q
  <2>5. Knows(First(r), Q(r))
    BY <2>2, <2>3, <2>4 DEF Knows
  <2> QED
    BY <1>1, <2>1, <2>5, BeginKeepsPromises
<1>3. CASE GateQR(w)
  <2>1. Reply(w) \/ (Goto(w, "gate_joined") /\ Knows("gate_joined", req[w]))
    BY <1>3, KnowsNothing DEF GateQR, Check
  <2> QED
    BY <1>1, <2>1, MoveKeepsPromises
<1>4. CASE GateJoined(w)
  <2>1. Reply(w) \/ (Goto(w, "gate_scan") /\ Knows("gate_scan", req[w]))
    BY <1>4 DEF GateJoined, Check, Knows
  <2> QED
    BY <1>1, <2>1, MoveKeepsPromises
<1>5. CASE GateScan(w)
  <2>1. Reply(w) \/ (Goto(w, "gate_template") /\ Knows("gate_template", req[w]))
    BY <1>5, KnowsAt DEF GateScan, Check, At, Knows
  <2> QED
    BY <1>1, <2>1, MoveKeepsPromises
<1>6. CASE GateTemplate(w)
  <2>1. \/ Goto(w, "gate_consent")
        \/ Goto(w, "gate_fence") /\ ~NeedsConsent(req[w].event)
    BY <1>6 DEF GateTemplate
  <2>2. /\ Knows("gate_consent", req[w])
        /\ ~NeedsConsent(req[w].event) => Knows("gate_fence", req[w])
    BY <1>6, KnowsAt DEF GateTemplate, At, Knows
  <2> QED
    BY <1>1, <2>1, <2>2, MoveKeepsPromises
<1>7. CASE GateConsent(w)
  <2>1. Reply(w) \/ (Goto(w, "gate_fence") /\ Knows("gate_fence", req[w]))
    BY <1>7, KnowsAt DEF GateConsent, Check, At, Knows
  <2> QED
    BY <1>1, <2>1, MoveKeepsPromises
<1>8. CASE GateFence(w)
  <2>1. Reply(w) \/ Goto(w, "clock_in_stamp")
    BY <1>8 DEF GateFence, Check
  <2>2. Knows("clock_in_stamp", req[w])
    BY <1>8, KnowsAt DEF GateFence, Check, At, Knows, GatePassed
  <2> QED
    BY <1>1, <2>1, <2>2, MoveKeepsPromises
<1>9. CASE ClockInStamp(w)
  <2>1. Knows("clock_in_insert", req[w])
    BY <1>9, KnowsAt DEF ClockInStamp, At, Knows
  <2>2. Step(w, "clock_in_insert", [req[w] EXCEPT !.at = now])
    BY <1>9 DEF ClockInStamp
  <2> QED
    BY <1>1, <2>1, <2>2, StampKeepsPromises
<1> QED
  BY <1>2, <1>3, <1>4, <1>5, <1>6, <1>7, <1>8, <1>9

\* The session and the attendance row come in one transaction and with one id.
LEMMA ClockInKeepsPromises ==
  ASSUME OneWorker, SInv, LInv', NEW w \in Workers, ClockInInsert(w)
  PROVE  SInv'
<1> DEFINE r == req[w]
           session == [id |-> lastId', user |-> r.user, event |-> r.event, fence |-> r.fence,
                       source |-> r.source, in |-> r.at, out |-> Open]
           present == [id |-> lastId', event |-> r.event, user |-> r.user,
                       via |-> "clock_in", at |-> r.at]
<1>1. /\ sessions' = sessions \cup {session} /\ lastId' = lastId + 1 /\ Reply(w)
      /\ attendance' = IF r.event = Nil THEN attendance ELSE attendance \cup {present}
      /\ UNCHANGED <<events, scan, templates, joins, consents, fences>>
  BY DEF ClockInInsert, NewId, ClockInUnchanged, eventTables, memberTables
<1>2. /\ session.event = r.event /\ session.id = lastId' /\ session.user = r.user /\ session.in = r.at
      /\ present.id = lastId' /\ present.event = r.event /\ present.user = r.user
      /\ present.at = r.at /\ present.via = "clock_in"
  OBVIOUS
<1> HIDE DEF session, present
<1>3. lastId \in Nat /\ Promises /\ Knows("clock_in_insert", r)
  BY KnowsAt DEF TInv, TypeOK, ClockInInsert, At
<1>4. r.event \in events \cup {Nil}
  BY <1>3 DEF Knows, GatePassed, Joined, Promises, NoOrphanRows
<1>5. OneJoinRow'
  BY <1>1, <1>3 DEF Promises, OneJoinRow
<1>6. NoOrphanRows'
  BY <1>1, <1>2, <1>3, <1>4 DEF Promises, NoOrphanRows
<1>7. SessionHasAttendance'
  <2>1. attendance \subseteq attendance'
    BY <1>1
  <2>2. r.event # Nil => present \in attendance'
    BY <1>1
  <2> QED
    BY <1>1, <1>2, <1>3, <2>1, <2>2 DEF Promises, SessionHasAttendance
<1>8. IdsArePast'
  BY <1>1, <1>2, <1>3 DEF Promises, IdsArePast
<1>9. MarkPresentOnce'
  BY <1>1, <1>2, <1>3 DEF Promises, IdsArePast, MarkPresentOnce
<1> QED
  BY <1>1, <1>5, <1>6, <1>7, <1>8, <1>9, ReplyKeepsPromises DEF Promises

\* A clock-out changes nothing of its row but the time, even if it brings it back.
LEMMA ClockOutKeepsPromises ==
  ASSUME OneWorker, SInv, LInv', NEW w \in Workers,
         RecordClockOutHandler(w) \/ ClockOutSelect(w) \/ ClockOutSave(w)
  PROVE  SInv'
<1> USE DEF ClockInUnchanged, eventTables, memberTables, rowTables, promiseTables, knownTables
<1>1. CASE RecordClockOutHandler(w)
  <2>1. \A r : Knows("clock_out_select", r)
    BY KnowsNothing
  <2>2. UNCHANGED promiseTables
    BY <1>1 DEF RecordClockOutHandler
  <2>3. \E r : Begin(w, "ClockOut", "clock_out_select", r)
    BY <1>1 DEF RecordClockOutHandler
  <2> QED
    BY <2>1, <2>2, <2>3, BeginKeepsPromises
<1>2. CASE ClockOutSelect(w)
  <2>1. UNCHANGED promiseTables
    BY <1>2 DEF ClockOutSelect
  <2>2. CASE Reply(w)
    BY <2>1, <2>2, ReplyKeepsPromises, PromisesStay DEF SInv
  <2>3. CASE ~Reply(w)
    <3>1. PICK row \in OpenSessions(req[w]) :
             Step(w, "clock_out_save", [req[w] EXCEPT !.row = row])
      BY <1>2, <2>3 DEF ClockOutSelect
    <3>2. PICK r : r = [req[w] EXCEPT !.row = row]
      OBVIOUS
    <3>3. r.row = row /\ row \in sessions
      BY <3>2, KnowsAt DEF Request, OpenSessions
    <3>4. row.event \in events \cup {Nil} /\ (row.event # Nil => Backed(row))
      BY <3>3 DEF SInv, Promises, NoOrphanRows, SessionHasAttendance, Backed
    <3>5. Knows("clock_out_save", r)
      BY <3>3, <3>4 DEF Knows
    <3>6. Step(w, "clock_out_save", r)
      BY <3>1, <3>2
    <3> QED
      BY <2>1, <3>5, <3>6, StepKeepsPromises
  <2> QED
    BY <2>2, <2>3
<1>3. CASE ClockOutSave(w)
  <2> DEFINE row == req[w].row
             new == [row EXCEPT !.out = req[w].at]
  <2>1. row \in SessionRow /\ Promises /\ Knows("clock_out_save", req[w])
    BY <1>3, KnowsAt DEF ClockOutSave, At, Fits
  <2>2. /\ new.id = row.id /\ new.in = row.in
        /\ new.event = row.event /\ new.user = row.user
    BY <2>1 DEF SessionRow
  <2>3. /\ sessions' = {s \in sessions : s.id # row.id} \cup {new}
        /\ UNCHANGED <<events, scan, templates, joins, consents, attendance, fences, lastId>>
        /\ Reply(w)
    BY <1>3, <2>2 DEF ClockOutSave, SaveSession
  <2> HIDE DEF new
  <2>4. NoOrphanRows'
    BY <2>1, <2>2, <2>3 DEF Promises, NoOrphanRows, Knows
  <2>5. SessionHasAttendance'
    BY <2>1, <2>2, <2>3 DEF Promises, SessionHasAttendance, Knows, Backed
  <2>6. OneJoinRow' /\ MarkPresentOnce' /\ IdsArePast'
    BY <2>1, <2>3 DEF Promises, OneJoinRow, MarkPresentOnce, IdsArePast
  <2> QED
    BY <2>3, <2>4, <2>5, <2>6, ReplyKeepsPromises DEF Promises
<1> QED
  BY <1>1, <1>2, <1>3

\* A mark is inserted where no present row is, whoever wrote it.
LEMMA MarkKeepsPromises ==
  ASSUME OneWorker, SInv, LInv', NEW w \in Workers,
         MarkPresent(w) \/ MarkEvent(w) \/ MarkLookup(w) \/ MarkInsert(w)
  PROVE  SInv'
<1> USE DEF ClockInUnchanged, eventTables, memberTables, rowTables, promiseTables, knownTables
<1>1. CASE MarkPresent(w)
  <2>1. \A r : Knows("mark_event", r)
    BY KnowsNothing
  <2> QED
    BY <1>1, <2>1, BeginKeepsPromises DEF MarkPresent
<1>2. CASE MarkEvent(w)
  <2>1. Reply(w) \/ (Goto(w, "mark_lookup") /\ Knows("mark_lookup", req[w]))
    BY <1>2 DEF MarkEvent, Check, Knows
  <2>2. UNCHANGED promiseTables
    BY <1>2 DEF MarkEvent
  <2> QED
    BY <2>1, <2>2, MoveKeepsPromises
<1>3. CASE MarkLookup(w)
  <2>1. \/ Reply(w)
        \/ Step(w, "mark_insert", [req[w] EXCEPT !.at = now]) /\ Knows("mark_insert", req[w])
    BY <1>3, KnowsAt DEF MarkLookup, At, Knows
  <2>2. UNCHANGED promiseTables
    BY <1>3 DEF MarkLookup
  <2> QED
    BY <2>1, <2>2, StampKeepsPromises
<1>4. CASE MarkInsert(w)
  <2> DEFINE row == [id |-> lastId', event |-> req[w].event, user |-> req[w].user,
                     via |-> "mark_present", at |-> req[w].at]
  <2>1. /\ attendance' = attendance \cup {row} /\ lastId' = lastId + 1 /\ Reply(w)
        /\ UNCHANGED <<events, scan, templates, joins, consents, fences, sessions>>
    BY <1>4 DEF MarkInsert, NewId
  <2>2. row.id = lastId' /\ row.event = req[w].event /\ row.user = req[w].user
    OBVIOUS
  <2> HIDE DEF row
  <2>3. /\ lastId \in Nat /\ Promises
        /\ row.event \in events /\ ~HasPresent(row.event, row.user)
    BY <1>4, <2>2, KnowsAt DEF TInv, TypeOK, MarkInsert, At, Knows
  <2>4. NoOrphanRows'
    BY <2>1, <2>3 DEF Promises, NoOrphanRows
  <2>5. SessionHasAttendance' /\ OneJoinRow'
    BY <2>1, <2>3 DEF Promises, SessionHasAttendance, OneJoinRow
  <2>6. IdsArePast'
    BY <2>1, <2>2, <2>3 DEF Promises, IdsArePast
  <2>7. MarkPresentOnce'
    BY <2>1, <2>2, <2>3 DEF Promises, IdsArePast, MarkPresentOnce, HasPresent
  <2> QED
    BY <2>1, <2>4, <2>5, <2>6, <2>7, ReplyKeepsPromises DEF Promises
<1> QED
  BY <1>1, <1>2, <1>3, <1>4

-----------------------------------------------------------------------------
(* The organizer, the requests that are one statement, and the jobs        *)

LEMMA AdminKeepsPromises ==
  ASSUME OneWorker, SInv, LInv', NEW w \in Workers, AdminStep(w) \/ AbortRequest(w)
  PROVE  SInv'
<1> USE DEF AdminUnchanged, NothingWritten, eventTables, memberTables, rowTables,
            promiseTables, knownTables
<1>0. Promises
  BY DEF SInv
<1>1. CASE UpdateEvent(w) \/ DeleteFence(w) \/ DeleteEvent(w)
  <2>1. UNCHANGED promiseTables
    BY <1>1 DEF UpdateEvent, DeleteFence, DeleteEvent
  <2>2. \E l \in {"update_event_read", "delete_fence_event", "delete_event_read"} :
          \E h, r : Begin(w, h, l, r)
    BY <1>1 DEF UpdateEvent, DeleteFence, DeleteEvent
  <2> QED
    BY <2>1, <2>2, KnowsNothing, BeginKeepsPromises
<1>2. CASE UpdateEventRead(w) \/ DeleteFenceEvent(w) \/ DeleteEventRead(w)
  <2>1. UNCHANGED promiseTables
    BY <1>2 DEF UpdateEventRead, DeleteFenceEvent, DeleteEventRead
  <2>2. \/ Reply(w)
        \/ \E l \in {"update_event_write", "delete_fence_row", "delete_event_rows"} : Goto(w, l)
    BY <1>2 DEF UpdateEventRead, DeleteFenceEvent, DeleteEventRead, Check
  <2> QED
    BY <2>1, <2>2, KnowsNothing, MoveKeepsPromises
<1>3. CASE UpdateEventWrite(w) \/ AbortRequest(w)
  <2>1. UNCHANGED promiseTables /\ Reply(w)
    BY <1>3 DEF UpdateEventWrite, AbortRequest
  <2> QED
    BY <1>0, <2>1, PromisesStay, ReplyKeepsPromises
<1>4. CASE DeleteFenceRow(w)
  <2>1. /\ fences' \subseteq fences /\ Reply(w)
        /\ UNCHANGED <<events, scan, templates, joins, consents, attendance, sessions, lastId>>
    BY <1>4 DEF DeleteFenceRow
  <2>2. Promises'
    BY <1>0, <2>1 DEF Promises, OneJoinRow, NoOrphanRows, SessionHasAttendance,
                      MarkPresentOnce, IdsArePast
  <2> QED
    BY <2>1, <2>2, ReplyKeepsPromises
<1>5. CASE DeleteEventRows(w)
  <2> DEFINE e == req[w].event
  <2>1. Reply(w)
    BY <1>5 DEF DeleteEventRows
  <2>2. CASE e \notin events
    <3>1. UNCHANGED promiseTables
      BY <1>5, <2>2 DEF DeleteEventRows
    <3> QED
      BY <1>0, <2>1, <3>1, PromisesStay, ReplyKeepsPromises
  <2>3. CASE e \in events
    <3>1. /\ events' = events \ {e}
          /\ fences' = {f \in fences : f.event # e}
          /\ templates' = {t \in templates : t.event # e}
          /\ joins' = {j \in joins : j.event # e}
          /\ consents' = {c \in consents : c.event # e}
          /\ sessions' = {s \in sessions : s.event # e}
          /\ attendance' = {a \in attendance : a.event # e}
          /\ lastId' = lastId
      BY <1>5, <2>3 DEF DeleteEventRows
    <3>2. NoOrphanRows'
      BY <1>0, <3>1 DEF Promises, NoOrphanRows
    <3>3. SessionHasAttendance'
      BY <1>0, <3>1 DEF Promises, SessionHasAttendance
    <3>4. OneJoinRow' /\ MarkPresentOnce' /\ IdsArePast'
      BY <1>0, <3>1 DEF Promises, OneJoinRow, MarkPresentOnce, IdsArePast
    <3> QED
      BY <2>1, <3>2, <3>3, <3>4, ReplyKeepsPromises DEF Promises
  <2> QED
    BY <2>2, <2>3
<1> QED
  BY <1>1, <1>2, <1>3, <1>4, <1>5 DEF AdminStep

\* They run only when no request is between two of its statements.
LEMMA SingleKeepsPromises ==
  ASSUME OneWorker, SInv, LInv', LeaveEvent \/ DeleteAccount \/ SetScanRequired
  PROVE  SInv'
<1> USE DEF MembershipUnchanged, AdminUnchanged, eventTables, workers
<1>0. Promises
  BY DEF SInv
<1>1. \A w \in Workers : pc'[w] = "idle"
  BY DEF LeaveEvent, DeleteAccount, SetScanRequired, SomeWorkerFree, Idle, OneWorker
<1>2. RequestsKnow'
  BY <1>1 DEF RequestsKnow, Knows
<1>3. /\ UNCHANGED <<events, templates, fences, consents, lastId>>
      /\ joins' \subseteq joins /\ attendance' \subseteq attendance /\ sessions' \subseteq sessions
  BY DEF LeaveEvent, DeleteAccount, SetScanRequired
<1>4. SessionHasAttendance'
  <2>1. CASE DeleteAccount
    <3>1. PICK u \in users : /\ attendance' = {a \in attendance : a.user # u}
                             /\ sessions' = {s \in sessions : s.user # u}
      BY <2>1 DEF DeleteAccount
    <3> QED
      BY <1>0, <3>1 DEF Promises, SessionHasAttendance
  <2>2. CASE LeaveEvent \/ SetScanRequired
    BY <1>0, <2>2 DEF LeaveEvent, SetScanRequired, Promises, SessionHasAttendance
  <2> QED
    BY <2>1, <2>2
<1>5. OneJoinRow' /\ MarkPresentOnce' /\ IdsArePast'
  BY <1>0, <1>3 DEF Promises, OneJoinRow, MarkPresentOnce, IdsArePast
<1>6. NoOrphanRows'
  BY <1>0, <1>3 DEF Promises, NoOrphanRows
<1> QED
  BY <1>2, <1>4, <1>5, <1>6 DEF SInv, Promises

\* The trim and the go-live job change sessions between any two statements of
\* the request; none of what it knows is about them.
LEMMA BackgroundKeepsPromises ==
  ASSUME SInv, LInv', TrimHistory \/ Tick \/ JobWork \/ JobAbort
  PROVE  SInv'
<1> USE DEF ClockInUnchanged, GoLiveUnchanged, eventTables, memberTables, rowTables, workers
<1>0. Promises /\ sessions \subseteq SessionRow
  BY DEF SInv, LInv, TInv, TypeOK
<1>1. UNCHANGED <<pc, req, events, scan, templates, fences, joins, consents, attendance, lastId>>
  BY DEF TrimHistory, Tick, JobWork, JobFind, JobNext, JobClose, JobList, JobAlert, JobStamp, JobAbort
<1>2. \A t \in sessions' : \E s \in sessions :
        t.id = s.id /\ t.event = s.event /\ t.user = s.user /\ t.in = s.in
  <2>1. CASE JobClose
    <3> DEFINE After(s) == IF s.event = job.event /\ s.out = Open
                           THEN [s EXCEPT !.out = job.at] ELSE s
    <3>1. sessions' = {After(s) : s \in sessions}
      BY <2>1 DEF JobClose
    <3>2. \A s \in sessions : /\ After(s).id = s.id /\ After(s).event = s.event
                              /\ After(s).user = s.user /\ After(s).in = s.in
      BY <1>0 DEF SessionRow
    <3> HIDE DEF After
    <3> QED
      BY <3>1, <3>2
  <2>2. CASE ~JobClose
    <3>1. sessions' \subseteq sessions
      BY <2>2 DEF TrimHistory, Tick, JobWork, JobFind, JobNext, JobList, JobAlert, JobStamp, JobAbort
    <3> QED
      BY <3>1
  <2> QED
    BY <2>1, <2>2
<1>3. NoOrphanRows'
  BY <1>0, <1>1, <1>2 DEF Promises, NoOrphanRows
<1>4. SessionHasAttendance'
  BY <1>0, <1>1, <1>2 DEF Promises, SessionHasAttendance
<1>5. OneJoinRow' /\ MarkPresentOnce' /\ IdsArePast'
  BY <1>0, <1>1 DEF Promises, OneJoinRow, MarkPresentOnce, IdsArePast
<1>6. RequestsKnow'
  <2>1. UNCHANGED knownTables
    BY <1>1 DEF knownTables
  <2>2. ASSUME NEW w \in Workers PROVE Knows(pc[w], req[w])'
    <3>1. PICK l, r : l = pc[w] /\ r = req[w]
      OBVIOUS
    <3>2. Knows(l, r)'
      BY <2>1, <3>1, KnowledgeStays DEF SInv, RequestsKnow
    <3>3. l = pc'[w] /\ r = req'[w]
      BY <1>1, <3>1
    <3> QED
      BY <3>2, <3>3
  <2> QED
    BY <2>2 DEF RequestsKnow
<1> QED
  BY <1>3, <1>4, <1>5, <1>6 DEF SInv, Promises

-----------------------------------------------------------------------------
(* The theorems                                                            *)

LEMMA InitPromises == Init => SInv
<1> SUFFICES ASSUME Init PROVE SInv
  OBVIOUS
<1>1. PICK owner \in [Fences -> Events] :
        fences = {[event |-> owner[f], fence |-> f] : f \in Fences}
  BY DEF Init
<1>2. NoOrphanRows
  BY <1>1 DEF Init, NoOrphanRows
<1>3. OneJoinRow /\ SessionHasAttendance /\ MarkPresentOnce /\ IdsArePast
  BY DEF Init, OneJoinRow, SessionHasAttendance, MarkPresentOnce, IdsArePast
<1>4. RequestsKnow
  BY DEF Init, RequestsKnow, Knows
<1> QED
  BY <1>2, <1>3, <1>4, LedgerInit DEF SInv, Promises

LEMMA PromisesStep == OneWorker /\ SInv /\ [Next]_vars => SInv'
<1> SUFFICES ASSUME OneWorker, SInv, [Next]_vars PROVE SInv'
  OBVIOUS
<1>0. LInv'
  BY LedgerStep DEF SInv
<1>1. ASSUME NEW w \in Workers, MembershipStep(w) PROVE SInv'
  BY <1>0, <1>1, JoinKeepsPromises, ConsentKeepsPromises, TemplateKeepsPromises DEF MembershipStep
<1>2. ASSUME NEW w \in Workers, ClockInStep(w) PROVE SInv'
  BY <1>0, <1>2, GateKeepsPromises, ClockInKeepsPromises, ClockOutKeepsPromises, MarkKeepsPromises
     DEF ClockInStep
<1>3. ASSUME NEW w \in Workers, AdminStep(w) \/ AbortRequest(w) PROVE SInv'
  BY <1>0, <1>3, AdminKeepsPromises
<1>4. CASE LeaveEvent \/ DeleteAccount \/ SetScanRequired
  BY <1>0, <1>4, SingleKeepsPromises
<1>5. CASE TrimHistory \/ JobWork \/ JobAbort \/ Tick
  BY <1>0, <1>5, BackgroundKeepsPromises
<1>6. CASE UNCHANGED vars
  <2>1. UNCHANGED promiseTables /\ pc' = pc /\ req' = req
    BY <1>6 DEF vars, eventTables, memberTables, rowTables, workers, promiseTables, knownTables
  <2>2. RequestsKnow'
    BY <2>1 DEF SInv, RequestsKnow, Knows, promiseTables, knownTables, Joined, HasConsent,
                HasPresent, NeedsConsent, GatePassed, Backed
  <2> QED
    BY <1>0, <2>1, <2>2, PromisesStay DEF SInv
<1> QED
  BY <1>1, <1>2, <1>3, <1>4, <1>5, <1>6 DEF Next

\* With one request at a time nothing that the reads of a handler found is
\* undone before it writes, whatever the jobs do in between.
LEMMA ReadsHold == ASSUME OneWorker PROVE Spec => []SInv
BY InitPromises, PromisesStep, PTL DEF Spec

\* One request at a time: an attendee has at most one join row per event.
THEOREM JoinedOnce == ASSUME OneWorker PROVE Spec => []OneJoinRow
<1>1. SInv => OneJoinRow
  BY DEF SInv, Promises
<1> QED
  BY <1>1, ReadsHold, PTL

\* One request at a time: no row of any table outlives its event.
THEOREM RowsHaveEvents == ASSUME OneWorker PROVE Spec => []NoOrphanRows
<1>1. SInv => NoOrphanRows
  BY DEF SInv, Promises
<1> QED
  BY <1>1, ReadsHold, PTL

\* One request at a time: every session of an event in the activity history has
\* the attendance row of its clock-in.
THEOREM SessionsAreBacked == ASSUME OneWorker PROVE Spec => []SessionHasAttendance
<1>1. SInv => SessionHasAttendance
  BY DEF SInv, Promises
<1> QED
  BY <1>1, ReadsHold, PTL

\* One request at a time: mark-present never counts an attendee again.
THEOREM MarkedOnce == ASSUME OneWorker PROVE Spec => []MarkPresentOnce
<1>1. SInv => MarkPresentOnce
  BY DEF SInv, Promises
<1> QED
  BY <1>1, ReadsHold, PTL

\* One request at a time: a clock-in for an event is recorded only for an attendee
\* who has joined, has consented if that is needed and has scanned if that is
\* required, all of it still so when the session is inserted.
THEOREM GateIsHonoured == ASSUME OneWorker PROVE Spec => GateHonoured
<1> DEFINE Gate == \A s \in sessions' \ sessions :
                     s.id = lastId' /\ lastId' # lastId /\ s.event # Nil =>
                       /\ Joined(s.event, s.user)
                       /\ NeedsConsent(s.event) => HasConsent(s.event, s.user)
                       /\ s.event \in scan => s.source = "qr_scan"
<1>1. ASSUME SInv, [Next]_vars PROVE Gate
  <2>1. CASE \E w \in Workers : ClockInInsert(w)
    <3>1. PICK w \in Workers : ClockInInsert(w)
      BY <2>1
    <3> DEFINE row == [id |-> lastId', user |-> req[w].user, event |-> req[w].event,
                       fence |-> req[w].fence, source |-> req[w].source, in |-> req[w].at,
                       out |-> Open]
    <3>2. sessions' = sessions \cup {row}
      BY <3>1 DEF ClockInInsert
    <3>3. row.event = req[w].event /\ row.user = req[w].user /\ row.source = req[w].source
      OBVIOUS
    <3> HIDE DEF row
    <3>4. req[w].event # Nil => GatePassed(req[w])
      BY <1>1, <3>1, KnowsAt DEF ClockInInsert, At, Knows
    <3> QED
      BY <3>2, <3>3, <3>4 DEF GatePassed
  <2>2. CASE ~\E w \in Workers : ClockInInsert(w)
    <3>1. TInv
      BY <1>1 DEF SInv, LInv
    <3>2. sessions' \subseteq sessions \/ lastId' = lastId
      <4>1. ASSUME NEW w \in Workers, MembershipStep(w) \/ AdminStep(w) \/ AbortRequest(w)
            PROVE  sessions' \subseteq sessions \/ lastId' = lastId
        BY <3>1, <4>1, MembershipMovesOn, AdminMovesOn
      <4>2. ASSUME NEW w \in Workers, ClockInStep(w)
            PROVE  sessions' \subseteq sessions \/ lastId' = lastId
        <5>1. CASE \/ ClockInStamp(w) \/ RecordClockOutHandler(w)
                   \/ ClockOutSelect(w) \/ ClockOutSave(w)
          BY <5>1 DEF ClockInStamp, RecordClockOutHandler, ClockOutSelect, ClockOutSave, rowTables
        <5> QED
          BY <2>2, <3>1, <4>2, <5>1, GateMovesOn DEF ClockInStep
      <4>3. CASE LeaveEvent \/ DeleteAccount \/ SetScanRequired \/ TrimHistory \/ Tick
        BY <4>3 DEF LeaveEvent, DeleteAccount, SetScanRequired, TrimHistory, Tick, AdminUnchanged,
                    rowTables
      <4>4. CASE JobWork \/ JobAbort
        BY <4>4 DEF JobWork, JobFind, JobNext, JobClose, JobList, JobAlert, JobStamp, JobAbort,
                    GoLiveUnchanged
      <4>5. CASE UNCHANGED vars
        BY <4>5 DEF vars, rowTables
      <4> QED
        BY <1>1, <4>1, <4>2, <4>3, <4>4, <4>5 DEF Next
    <3> QED
      BY <3>2
  <2> QED
    BY <2>1, <2>2
<1>2. SInv /\ [Next]_vars => [Gate]_vars
  BY <1>1
<1> QED
  BY <1>2, ReadsHold, PTL DEF Spec, GateHonoured

-----------------------------------------------------------------------------
(* The strict ledger                                                       *)

\* No clock-in is later than the clock; what the one clock-out has read is the
\* open row as it is, and its time is not before any clock-in.
NoneIsLate ==
  /\ job.pc = "idle"
  /\ \A s \in sessions : s.in <= now
  /\ \A w \in Workers :
       /\ pc[w] = "clock_in_insert" => req[w].at <= now
       /\ pc[w] = "clock_out_select" => \A s \in sessions : s.in <= req[w].at
       /\ pc[w] = "clock_out_save" =>
            /\ req[w].row \in sessions /\ req[w].row.out = Open
            /\ req[w].row.in <= req[w].at

NoJobs == "GoLive" \notin Handlers /\ "TrimHistory" \notin Handlers

CInv == LInv /\ NoneIsLate

\* The one request goes on and adds no session.
LEMMA MovesOnIsNotLate ==
  ASSUME OneWorker, CInv, NEW w \in Workers, MovesOn(w), UNCHANGED <<now, job>>,
         sessions' \subseteq sessions
  PROVE  NoneIsLate'
<1>1. \A v \in Workers : pc'[v] \notin Timed
  BY DEF MovesOn, OneWorker
<1> QED
  BY <1>1 DEF CInv, NoneIsLate, Timed

LEMMA ReadsAreNotLate ==
  ASSUME OneWorker, CInv, NEW w \in Workers,
         ClockInStamp(w) \/ RecordClockOutHandler(w) \/ ClockOutSelect(w)
  PROVE  NoneIsLate'
<1>1. UNCHANGED <<now, job, sessions>>
  BY DEF ClockInStamp, RecordClockOutHandler, ClockOutSelect, ClockInUnchanged, rowTables
<1>2. TInv /\ now \in Nat /\ NoneIsLate /\ LInv
  BY DEF CInv, LInv, TInv, TypeOK
<1>3. ASSUME NEW l, NEW r, Step(w, l, r),
             l = "clock_in_insert" => r.at <= now,
             l = "clock_out_select" => \A s \in sessions : s.in <= r.at,
             l = "clock_out_save" => r.row \in sessions /\ r.row.out = Open /\ r.row.in <= r.at
      PROVE  NoneIsLate'
  <2>1. \A v \in Workers : pc'[v] = l /\ req'[v] = r
    BY <1>2, <1>3 DEF TInv, TypeOK, Step, OneWorker
  <2> QED
    BY <1>1, <1>2, <1>3, <2>1 DEF NoneIsLate
<1>4. CASE ClockInStamp(w)
  <2>1. PICK r : r = [req[w] EXCEPT !.at = now]
    OBVIOUS
  <2>2. r.at = now
    BY <1>2, <2>1, RequestAt DEF Request
  <2>3. Step(w, "clock_in_insert", r)
    BY <1>4, <2>1 DEF ClockInStamp
  <2> QED
    BY <1>2, <1>3, <2>2, <2>3
<1>5. CASE RecordClockOutHandler(w)
  <2>1. ASSUME NEW r, r.at = now, Begin(w, "ClockOut", "clock_out_select", r) PROVE NoneIsLate'
    BY <1>2, <1>3, <2>1 DEF Begin, Start, NoneIsLate
  <2>2. \A u, id : [NoRequest EXCEPT !.user = u, !.session = id, !.at = now].at = now
    BY DEF NoRequest
  <2>3. \A u, e, f : [NoRequest EXCEPT !.user = u, !.event = e, !.fence = f, !.at = now].at = now
    BY DEF NoRequest
  <2>4. PICK u \in users :
          \/ \E id \in 1..lastId :
                Begin(w, "ClockOut", "clock_out_select",
                      [NoRequest EXCEPT !.user = u, !.session = id, !.at = now])
          \/ \E e \in Events, f \in Fences :
                Begin(w, "ClockOut", "clock_out_select",
                      [NoRequest EXCEPT !.user = u, !.event = e, !.fence = f, !.at = now])
    BY <1>5 DEF RecordClockOutHandler
  <2>5. \E r : r.at = now /\ Begin(w, "ClockOut", "clock_out_select", r)
    <3>1. CASE \E id \in 1..lastId :
                 Begin(w, "ClockOut", "clock_out_select",
                       [NoRequest EXCEPT !.user = u, !.session = id, !.at = now])
      BY <2>2, <3>1
    <3>2. CASE \E e \in Events, f \in Fences :
                 Begin(w, "ClockOut", "clock_out_select",
                       [NoRequest EXCEPT !.user = u, !.event = e, !.fence = f, !.at = now])
      BY <2>3, <3>2
    <3> QED
      BY <2>4, <3>1, <3>2
  <2> QED
    BY <2>1, <2>5
<1>6. CASE ClockOutSelect(w) /\ ~Reply(w)
  <2>1. PICK row \in OpenSessions(req[w]) :
           Step(w, "clock_out_save", [req[w] EXCEPT !.row = row])
    BY <1>6 DEF ClockOutSelect
  <2>2. PICK r : r = [req[w] EXCEPT !.row = row]
    OBVIOUS
  <2>3. r.row = row /\ r.at = req[w].at
    BY <1>2, <2>2, RequestAt DEF Request
  <2>4. row \in sessions /\ row.out = Open /\ row.in <= req[w].at
    BY <1>2, <1>6 DEF OpenSessions, NoneIsLate, ClockOutSelect, At
  <2>5. Step(w, "clock_out_save", r)
    BY <2>1, <2>2
  <2> QED
    BY <1>3, <2>3, <2>4, <2>5
<1>7. CASE ClockOutSelect(w) /\ Reply(w)
  BY <1>1, <1>2, <1>7, ReplyMovesOn, MovesOnIsNotLate
<1> QED
  BY <1>4, <1>5, <1>6, <1>7

\* The three steps that write sessions and times.
LEMMA WritesAreNotLate ==
  ASSUME OneWorker, CInv, NEW w \in Workers, ClockInInsert(w) \/ ClockOutSave(w)
  PROVE  NoneIsLate'
<1>1. UNCHANGED <<now, job>> /\ Reply(w)
  BY DEF ClockInInsert, ClockOutSave, ClockInUnchanged
<1>2. \A v \in Workers : pc'[v] = "idle"
  BY <1>1 DEF Reply, Step, CInv, LInv, TInv, TypeOK, OneWorker
<1>3. \A s \in sessions' : s.in <= now
  <2>1. CASE ClockInInsert(w)
    <3> DEFINE row == [id |-> lastId', user |-> req[w].user, event |-> req[w].event,
                       fence |-> req[w].fence, source |-> req[w].source, in |-> req[w].at,
                       out |-> Open]
    <3>1. sessions' = sessions \cup {row}
      BY <2>1 DEF ClockInInsert
    <3>2. row.in = req[w].at
      OBVIOUS
    <3> HIDE DEF row
    <3> QED
      BY <2>1, <3>1, <3>2 DEF CInv, NoneIsLate, ClockInInsert, At
  <2>2. CASE ClockOutSave(w)
    <3> DEFINE row == req[w].row
               new == [row EXCEPT !.out = req[w].at]
    <3>1. row \in sessions /\ row \in SessionRow
      BY <2>2 DEF CInv, NoneIsLate, ClockOutSave, At, LInv, TInv, TypeOK
    <3>2. new.in = row.in
      BY <3>1 DEF SessionRow
    <3>3. sessions' \subseteq sessions \cup {new}
      BY <2>2 DEF ClockOutSave, SaveSession
    <3> HIDE DEF new
    <3> QED
      BY <3>1, <3>2, <3>3 DEF CInv, NoneIsLate
  <2> QED
    BY <2>1, <2>2
<1> QED
  BY <1>1, <1>2, <1>3 DEF CInv, NoneIsLate

\* A clock-out that is not late closes an open row, and not before its clock-in.
LEMMA StrictSaveStep ==
  ASSUME CInv, LInv', NEW w \in Workers, ClockOutSave(w)
  PROVE  \E S \in SUBSET (1..MaxId), t \in 1..MaxTime : Strict!Close(S, t)
<1> DEFINE row == req[w].row
           at == req[w].at
           i == row.id
<1>1. /\ LedgerFacts /\ i \in 1..MaxId /\ at \in 1..MaxTime
      /\ Ledger' = [Ledger EXCEPT ![i] = Late!Closed(row.in, at)]
  BY SavedRow DEF CInv
<1>2. row \in sessions /\ row.out = Open /\ row.in <= at
  BY DEF CInv, NoneIsLate, ClockOutSave, At
<1>3. Ledger[i] = Entry(row)
  BY <1>1, <1>2 DEF LedgerFacts
<1>4. Ledger[i].state = "open" /\ Ledger[i].in = row.in
  BY <1>2, <1>3 DEF Entry
<1>5. Ledger' = [j \in 1..MaxId |-> IF j \in {i} THEN Late!Closed(Ledger[j].in, at) ELSE Ledger[j]]
  BY <1>1, <1>4 DEF LedgerFacts
<1>6. Strict!Close({i}, at)
  BY <1>2, <1>4, <1>5 DEF Strict!Close, Strict!Closed, Late!Closed
<1> QED
  BY <1>1, <1>6

\* The steps of the ledger that say nothing of late writes.
LEMMA StrictSteps ==
  /\ \A i : Late!Skip(i) => Strict!Skip(i)
  /\ \A i, t : Late!ClockIn(i, t) => Strict!ClockIn(i, t)
  /\ \A S : Late!Remove(S) => Strict!Remove(S)
BY DEF Late!Skip, Strict!Skip, Late!ClockIn, Strict!ClockIn, Late!Remove, Strict!Remove,
       Late!Unused, Strict!Unused, Late!Removed, Strict!Removed, Late!Opened, Strict!Opened

LEMMA StrictStep ==
  OneWorker /\ NoJobs /\ CInv /\ [Next]_vars => CInv' /\ [Strict!Next]_Ledger
<1> SUFFICES ASSUME OneWorker, NoJobs, CInv, [Next]_vars PROVE CInv' /\ [Strict!Next]_Ledger
  OBVIOUS
<1>1. LInv /\ LInv' /\ TInv /\ now \in Nat
  BY LedgerStep DEF CInv, LInv, TInv, TypeOK
<1>2. ASSUME sessions' \subseteq sessions, lastId' = lastId PROVE [Strict!Next]_Ledger
  BY <1>1, <1>2, RemoveStep, StrictSteps DEF Strict!Next
<1>3. ASSUME sessions' = sessions, NewId \/ lastId' = lastId PROVE [Strict!Next]_Ledger
  BY <1>1, <1>3, SkipStep, StrictSteps, LedgerUnchanged DEF Strict!Next
<1>4. ASSUME NEW w \in Workers, MembershipStep(w) PROVE CInv' /\ [Strict!Next]_Ledger
  <2>1. /\ MovesOn(w) /\ UNCHANGED <<now, job>> /\ sessions' = sessions
        /\ NewId \/ lastId' = lastId
    BY <1>1, <1>4, MembershipMovesOn
  <2> QED
    BY <1>1, <1>3, <2>1, MovesOnIsNotLate DEF CInv
<1>5. ASSUME NEW w \in Workers, ClockInStep(w) PROVE CInv' /\ [Strict!Next]_Ledger
  <2>1. CASE \/ RecordClockInHandler(w) \/ GateQR(w) \/ GateJoined(w) \/ GateScan(w)
             \/ GateTemplate(w) \/ GateConsent(w) \/ GateFence(w)
             \/ MarkPresent(w) \/ MarkEvent(w) \/ MarkLookup(w) \/ MarkInsert(w)
    <3>1. /\ MovesOn(w) /\ UNCHANGED <<now, job>> /\ sessions' = sessions
          /\ NewId \/ lastId' = lastId
      BY <1>1, <2>1, GateMovesOn
    <3> QED
      BY <1>1, <1>3, <3>1, MovesOnIsNotLate DEF CInv
  <2>2. CASE ClockInStamp(w) \/ RecordClockOutHandler(w) \/ ClockOutSelect(w)
    <3>1. sessions' = sessions /\ lastId' = lastId
      BY <2>2 DEF ClockInStamp, RecordClockOutHandler, ClockOutSelect, rowTables
    <3> QED
      BY <1>1, <1>3, <2>2, <3>1, ReadsAreNotLate DEF CInv
  <2>3. CASE ClockInInsert(w)
    <3>1. \E row : sessions' = sessions \cup {row} /\ row.id = lastId' /\ row.out = Open
      BY <1>1, <2>3, ClockInKeepsRows DEF LInv
    <3>2. NewId
      BY <2>3 DEF ClockInInsert
    <3>3. [Strict!Next]_Ledger
      BY <1>1, <3>1, <3>2, OpenStep, StrictSteps DEF Strict!Next
    <3> QED
      BY <1>1, <2>3, <3>3, WritesAreNotLate DEF CInv
  <2>4. CASE ClockOutSave(w)
    <3>1. [Strict!Next]_Ledger
      BY <1>1, <2>4, StrictSaveStep DEF Strict!Next
    <3> QED
      BY <1>1, <2>4, <3>1, WritesAreNotLate DEF CInv
  <2> QED
    BY <1>5, <2>1, <2>2, <2>3, <2>4 DEF ClockInStep
<1>6. ASSUME NEW w \in Workers, AdminStep(w) \/ AbortRequest(w) PROVE CInv' /\ [Strict!Next]_Ledger
  <2>1. MovesOn(w) /\ UNCHANGED <<now, job>> /\ sessions' \subseteq sessions /\ lastId' = lastId
    BY <1>1, <1>6, AdminMovesOn
  <2> QED
    BY <1>1, <1>2, <2>1, MovesOnIsNotLate DEF CInv
<1>7. CASE LeaveEvent \/ DeleteAccount \/ SetScanRequired
  <2>1. \A w \in Workers : pc'[w] = "idle"
    BY <1>7 DEF LeaveEvent, DeleteAccount, SetScanRequired, SomeWorkerFree, Idle, OneWorker, workers
  <2>2. UNCHANGED <<now, job, lastId>> /\ sessions' \subseteq sessions
    BY <1>7 DEF LeaveEvent, DeleteAccount, SetScanRequired, MembershipUnchanged, AdminUnchanged
  <2>3. NoneIsLate'
    BY <2>1, <2>2 DEF CInv, NoneIsLate
  <2> QED
    BY <1>1, <1>2, <2>2, <2>3 DEF CInv
<1>8. CASE Tick
  <2>1. UNCHANGED <<pc, req, job, sessions, lastId>> /\ now' = now + 1
    BY <1>8 DEF Tick, workers, rowTables
  <2>2. /\ \A s \in sessions : s.in \in Nat
        /\ \A w \in Workers : req[w].at \in Nat
    BY <1>1 DEF TInv, TypeOK, SessionRow, Request
  <2>3. NoneIsLate'
    BY <1>1, <2>1, <2>2 DEF CInv, NoneIsLate
  <2> QED
    BY <1>1, <1>3, <2>1, <2>3 DEF CInv
<1>9. CASE UNCHANGED vars
  <2>1. UNCHANGED <<now, pc, req, job, sessions, lastId>>
    BY <1>9 DEF vars, workers, rowTables
  <2>2. NoneIsLate'
    BY <2>1 DEF CInv, NoneIsLate
  <2> QED
    BY <1>1, <1>3, <2>1, <2>2 DEF CInv
<1>10. ~TrimHistory /\ ~JobWork /\ ~JobAbort
  BY DEF NoJobs, CInv, NoneIsLate, TrimHistory, JobWork, JobFind, JobNext, JobClose, JobList,
         JobAlert, JobStamp, JobAbort
<1> QED
  BY <1>4, <1>5, <1>6, <1>7, <1>8, <1>9, <1>10 DEF Next

\* One request at a time and no background job: a session is opened once, closed
\* once and not before its clock-in, and its clock-out time is final.
THEOREM HistoryImplementsStrictLedger ==
  ASSUME OneWorker, NoJobs PROVE Spec => StrictLedger
<1>1. Init => CInv /\ Strict!Init
  <2> SUFFICES ASSUME Init PROVE CInv /\ Strict!Init
    OBVIOUS
  <2>1. LInv /\ Late!Init
    BY LedgerInit
  <2>2. NoneIsLate
    BY DEF Init, NoneIsLate, JobIdle
  <2> QED
    BY <2>1, <2>2 DEF CInv, Late!Init, Strict!Init, Late!Unused, Strict!Unused
<1>2. CInv /\ [Next]_vars => CInv' /\ [Strict!Next]_Ledger
  BY StrictStep
<1> QED
  BY <1>1, <1>2, PTL DEF Spec, StrictLedger, Strict!Spec

-----------------------------------------------------------------------------
(***************************************************************************)
(* The in-memory store, for any attendees, schedules and number of         *)
(* operations.  The properties of its lists follow from what the indexes   *)
(* know about them, which is the invariant that has to be carried.         *)
(***************************************************************************)

\* The sequences are numbers, and templates belong to events there were.
Counting ==
  /\ mEventSeq \in Nat /\ mFenceSeq \in Nat /\ mJoinSeq \in Nat /\ mAttendanceSeq \in Nat
  /\ mConsent \subseteq Memory!Seen

MemoryInv == Memory!TypeOK /\ Counting

\* Whoever is in a list is in its index, too; not the other way round.
JoinsIndexed == \A j \in mJoins : <<j.event, j.user>> \in mJoinByUser
MarksIndexed == \A a \in mAttendance : a.how = "marked" => <<a.event, a.user>> \in mPresentUser

JoinInv == JoinsIndexed /\ Memory!OneJoinRow
MarkInv == MarksIndexed /\ Memory!MarkedOnce

-----------------------------------------------------------------------------
(* Types                                                                   *)

LEMMA MemoryInitTypes == Memory!Init => MemoryInv
BY DEF Memory!Init, MemoryInv, Memory!TypeOK, Counting, Memory!Seen

\* The number of a new event is above all that were given out.
LEMMA NewEventIsFresh ==
  ASSUME MemoryInv, Memory!CreateEvent
  PROVE  /\ Memory!NewEventID = mEventSeq + 1 /\ mEventSeq' = mEventSeq + 1
         /\ Memory!NewEventID \notin Memory!Seen /\ Memory!Seen \subseteq Memory!Seen'
         /\ \E s \in MemorySchedules : mEvents' = [e \in DOMAIN mEvents \cup {Memory!NewEventID} |->
                                              IF e = Memory!NewEventID THEN s ELSE mEvents[e]]
BY DEF MemoryInv, Counting, Memory!CreateEvent, Memory!NewEventID, Memory!Seen

LEMMA CreateEventKeepsTypes == ASSUME MemoryInv, Memory!CreateEvent PROVE MemoryInv'
<1>1. /\ mEventSeq' = mEventSeq + 1 /\ Memory!NewEventID = mEventSeq + 1
      /\ Memory!Seen \subseteq Memory!Seen' /\ Memory!NewEventID \in Memory!Seen'
  BY NewEventIsFresh DEF MemoryInv, Counting, Memory!Seen
<1>2. DOMAIN mEvents' \subseteq Memory!Seen' /\ \A e \in DOMAIN mEvents' : mEvents'[e] \in MemorySchedules
  <2>1. PICK s \in MemorySchedules : mEvents' = [e \in DOMAIN mEvents \cup {Memory!NewEventID} |->
                                            IF e = Memory!NewEventID THEN s ELSE mEvents[e]]
    BY NewEventIsFresh
  <2> QED
    BY <1>1, <2>1 DEF MemoryInv, Memory!TypeOK
<1>3. UNCHANGED <<mFenceSeq, mFences, mJoinSeq, mJoins, mJoinByUser, mAttendanceSeq, mAttendance,
                  mPresentUser, mConsent, mUserConsents>>
  BY DEF Memory!CreateEvent, Memory!fencing, Memory!joining, Memory!marking, Memory!consenting
<1>4. (mJoinByUser \cup mPresentUser \cup mUserConsents)' \subseteq Memory!Seen' \X MemoryUsers
  BY <1>1, <1>3 DEF MemoryInv, Memory!TypeOK
<1>5. /\ \A f \in mFences' : f.id \in 1..mFenceSeq' /\ f.event \in Memory!Seen'
      /\ \A j \in mJoins' : j.id \in 1..mJoinSeq' /\ j.event \in Memory!Seen'
      /\ \A a \in mAttendance' : a.id \in 1..mAttendanceSeq' /\ a.event \in Memory!Seen'
      /\ \A a, b \in mAttendance' : a.id = b.id => a = b
  BY <1>1, <1>3 DEF MemoryInv, Memory!TypeOK
<1>6. Counting'
  BY <1>1, <1>3 DEF MemoryInv, Counting
<1> QED
  BY <1>2, <1>4, <1>5, <1>6 DEF MemoryInv, Memory!TypeOK

LEMMA UpdateEventKeepsTypes == ASSUME MemoryInv, Memory!UpdateEvent PROVE MemoryInv'
<1>1. PICK e \in DOMAIN mEvents, s \in MemorySchedules : mEvents' = [mEvents EXCEPT ![e] = s]
  BY DEF Memory!UpdateEvent
<1>2. DOMAIN mEvents' = DOMAIN mEvents /\ \A d \in DOMAIN mEvents' : mEvents'[d] \in MemorySchedules
  BY <1>1 DEF MemoryInv, Memory!TypeOK
<1> QED
  BY <1>2 DEF MemoryInv, Memory!TypeOK, Counting, Memory!UpdateEvent, Memory!Seen, Memory!fencing, Memory!joining, Memory!marking, Memory!consenting

LEMMA DeleteEventKeepsTypes == ASSUME MemoryInv, Memory!DeleteEvent PROVE MemoryInv'
<1>1. PICK e \in DOMAIN mEvents : mEvents' = Memory!Without(mEvents, e)
  BY DEF Memory!DeleteEvent
<1>2. DOMAIN mEvents' \subseteq DOMAIN mEvents /\ \A d \in DOMAIN mEvents' : mEvents'[d] = mEvents[d]
  BY <1>1 DEF Memory!Without
<1>3. /\ mFences' \subseteq mFences /\ mJoins' \subseteq mJoins /\ mAttendance' \subseteq mAttendance
      /\ mConsent' \subseteq mConsent /\ mUserConsents' \subseteq mUserConsents
      /\ mJoinByUser' \subseteq mJoinByUser /\ mPresentUser' \subseteq mPresentUser
      /\ UNCHANGED Memory!sequences
  BY DEF Memory!DeleteEvent
<1>4. Memory!Seen' = Memory!Seen
  BY <1>3 DEF Memory!sequences, Memory!Seen
<1>5. \A d \in DOMAIN mEvents' : mEvents'[d] \in MemorySchedules
  BY <1>2 DEF MemoryInv, Memory!TypeOK
<1>6. (mJoinByUser \cup mPresentUser \cup mUserConsents)' \subseteq Memory!Seen' \X MemoryUsers
  BY <1>3, <1>4 DEF MemoryInv, Memory!TypeOK
<1> QED
  BY <1>2, <1>3, <1>4, <1>5, <1>6 DEF MemoryInv, Memory!TypeOK, Counting, Memory!sequences

LEMMA FencesKeepTypes == ASSUME MemoryInv, Memory!AddFence \/ Memory!DeleteFence PROVE MemoryInv'
<1>1. CASE Memory!AddFence
  <2>1. PICK e \in DOMAIN mEvents, s \in MemorySchedules :
          mFences' = mFences \cup {[id |-> mFenceSeq', event |-> e, schedule |-> s]}
    BY <1>1 DEF Memory!AddFence
  <2>2. mFenceSeq' = mFenceSeq + 1 /\ mFenceSeq \in Nat /\ e \in Memory!Seen
    BY <1>1 DEF Memory!AddFence, MemoryInv, Memory!TypeOK, Counting
  <2>3. \A f \in mFences' : f.id \in 1..mFenceSeq' /\ f.event \in Memory!Seen
    <3>1. \A f \in mFences : f.id \in 1..mFenceSeq' /\ f.event \in Memory!Seen
      BY <2>2 DEF MemoryInv, Memory!TypeOK
    <3> QED
      BY <2>1, <2>2, <3>1
  <2> QED
    BY <1>1, <2>2, <2>3 DEF Memory!AddFence, MemoryInv, Memory!TypeOK, Counting, Memory!Seen, Memory!joining, Memory!marking, Memory!consenting
<1>2. CASE Memory!DeleteFence
  BY <1>2 DEF Memory!DeleteFence, MemoryInv, Memory!TypeOK, Counting, Memory!Seen, Memory!sequences, Memory!consenting
<1> QED
  BY <1>1, <1>2

LEMMA JoinsKeepTypes == ASSUME MemoryInv, Memory!JoinByQR \/ Memory!DeleteUserEventJoin PROVE MemoryInv'
<1>1. CASE Memory!JoinByQR
  <2>1. PICK e \in DOMAIN mEvents, u \in MemoryUsers :
          /\ mJoins' = mJoins \cup {[id |-> mJoinSeq', event |-> e, user |-> u]}
          /\ mJoinByUser' = mJoinByUser \cup {<<e, u>>}
    BY <1>1 DEF Memory!JoinByQR
  <2>2. mJoinSeq' = mJoinSeq + 1 /\ mJoinSeq \in Nat /\ e \in Memory!Seen
    BY <1>1 DEF Memory!JoinByQR, MemoryInv, Memory!TypeOK, Counting
  <2>3. \A j \in mJoins' : j.id \in 1..mJoinSeq' /\ j.event \in Memory!Seen
    <3>1. \A j \in mJoins : j.id \in 1..mJoinSeq' /\ j.event \in Memory!Seen
      BY <2>2 DEF MemoryInv, Memory!TypeOK
    <3> QED
      BY <2>1, <2>2, <3>1
  <2>4. mJoinByUser' \subseteq Memory!Seen \X MemoryUsers
    BY <2>1, <2>2 DEF MemoryInv, Memory!TypeOK
  <2> QED
    BY <1>1, <2>2, <2>3, <2>4 DEF Memory!JoinByQR, MemoryInv, Memory!TypeOK, Counting, Memory!Seen, Memory!fencing, Memory!marking, Memory!consenting
<1>2. CASE Memory!DeleteUserEventJoin
  BY <1>2 DEF Memory!DeleteUserEventJoin, MemoryInv, Memory!TypeOK, Counting, Memory!Seen, Memory!sequences, Memory!consenting
<1> QED
  BY <1>1, <1>2

\* A new record of attendance has a number of its own.
LEMMA AttendedKeepsTypes ==
  ASSUME MemoryInv, NEW e \in Memory!Seen, NEW u \in MemoryUsers, NEW how, Memory!Attended(e, u, how)
  PROVE  /\ mAttendanceSeq' \in Nat
         /\ \A a \in mAttendance' : a.id \in 1..mAttendanceSeq' /\ a.event \in Memory!Seen
         /\ \A a, b \in mAttendance' : a.id = b.id => a = b
<1>1. mAttendanceSeq \in Nat /\ mAttendanceSeq' = mAttendanceSeq + 1
  BY DEF MemoryInv, Counting, Memory!Attended
<1>2. \A a \in mAttendance : a.id \in 1..mAttendanceSeq /\ a.event \in Memory!Seen
  BY DEF MemoryInv, Memory!TypeOK
<1>3. mAttendance' = mAttendance \cup {[id |-> mAttendanceSeq', event |-> e, user |-> u, how |-> how]}
  BY DEF Memory!Attended
<1>4. \A a \in mAttendance : a.id # mAttendanceSeq'
  BY <1>1, <1>2
<1>5. \A a, b \in mAttendance' : a.id = b.id => a = b
  BY <1>3, <1>4 DEF MemoryInv, Memory!TypeOK
<1> QED
  BY <1>1, <1>2, <1>3, <1>5

LEMMA AttendanceKeepsTypes == ASSUME MemoryInv, Memory!MarkPresent \/ Memory!RecordClockIn PROVE MemoryInv'
<1>1. CASE Memory!MarkPresent
  <2>1. PICK e \in DOMAIN mEvents, u \in MemoryUsers :
          Memory!Attended(e, u, "marked") /\ mPresentUser' = mPresentUser \cup {<<e, u>>}
    BY <1>1 DEF Memory!MarkPresent
  <2>2. e \in Memory!Seen
    BY DEF MemoryInv, Memory!TypeOK
  <2>3. mPresentUser' \subseteq Memory!Seen \X MemoryUsers
    BY <2>1, <2>2 DEF MemoryInv, Memory!TypeOK
  <2> QED
    BY <1>1, <2>1, <2>2, <2>3, AttendedKeepsTypes
       DEF Memory!MarkPresent, MemoryInv, Memory!TypeOK, Counting, Memory!Seen, Memory!fencing, Memory!joining, Memory!consenting
<1>2. CASE Memory!RecordClockIn
  <2>1. PICK e \in Memory!Seen, u \in MemoryUsers : Memory!Attended(e, u, "clocked_in")
    BY <1>2 DEF Memory!RecordClockIn
  <2> QED
    BY <1>2, <2>1, AttendedKeepsTypes
       DEF Memory!RecordClockIn, MemoryInv, Memory!TypeOK, Counting, Memory!Seen, Memory!fencing, Memory!joining, Memory!consenting
<1> QED
  BY <1>1, <1>2

LEMMA ConsentsKeepTypes == ASSUME MemoryInv, Memory!SaveConsentTemplate \/ Memory!SaveUserEventConsent PROVE MemoryInv'
<1>1. CASE Memory!SaveConsentTemplate
  <2>1. mConsent' \subseteq Memory!Seen
    BY <1>1 DEF Memory!SaveConsentTemplate, MemoryInv, Memory!TypeOK, Counting
  <2> QED
    BY <1>1, <2>1 DEF Memory!SaveConsentTemplate, MemoryInv, Memory!TypeOK, Counting, Memory!Seen, Memory!fencing, Memory!joining, Memory!marking
<1>2. CASE Memory!SaveUserEventConsent
  <2>1. mUserConsents' \subseteq Memory!Seen \X MemoryUsers
    BY <1>2 DEF Memory!SaveUserEventConsent, MemoryInv, Memory!TypeOK
  <2> QED
    BY <1>2, <2>1 DEF Memory!SaveUserEventConsent, MemoryInv, Memory!TypeOK, Counting, Memory!Seen, Memory!fencing, Memory!joining, Memory!marking
<1> QED
  BY <1>1, <1>2

LEMMA MemoryKeepsTypes == MemoryInv /\ [Memory!Next]_(Memory!vars) => MemoryInv'
<1> SUFFICES ASSUME MemoryInv, [Memory!Next]_(Memory!vars) PROVE MemoryInv'
  OBVIOUS
<1>1. CASE Memory!Tick \/ UNCHANGED Memory!vars
  BY <1>1 DEF Memory!Tick, Memory!vars, MemoryInv, Memory!TypeOK, Counting, Memory!Seen, Memory!fencing, Memory!joining, Memory!marking, Memory!consenting
<1> QED
  BY <1>1, CreateEventKeepsTypes, UpdateEventKeepsTypes, DeleteEventKeepsTypes, FencesKeepTypes,
     JoinsKeepTypes, AttendanceKeepsTypes, ConsentsKeepTypes DEF Memory!Next

LEMMA TypesHold == Memory!Spec => []MemoryInv
BY MemoryInitTypes, MemoryKeepsTypes, PTL DEF Memory!Spec

-----------------------------------------------------------------------------
(* Joins, marks and late rows                                              *)

\* Without an index entry there is no join, so that a new one is the only one.
LEMMA JoinsStaySingle == JoinInv /\ [Memory!Next]_(Memory!vars) => JoinInv'
<1> SUFFICES ASSUME JoinInv, [Memory!Next]_(Memory!vars) PROVE JoinInv'
  OBVIOUS
<1>1. CASE Memory!JoinByQR
  <2>1. PICK e \in DOMAIN mEvents, u \in MemoryUsers :
          /\ <<e, u>> \notin mJoinByUser
          /\ mJoins' = mJoins \cup {[id |-> mJoinSeq', event |-> e, user |-> u]}
          /\ mJoinByUser' = mJoinByUser \cup {<<e, u>>}
    BY <1>1 DEF Memory!JoinByQR
  <2>2. JoinsIndexed'
    <3> SUFFICES ASSUME NEW j \in mJoins' PROVE <<j.event, j.user>> \in mJoinByUser'
      BY DEF JoinsIndexed
    <3>1. CASE j \in mJoins
      BY <2>1, <3>1 DEF JoinInv, JoinsIndexed
    <3>2. CASE j = [id |-> mJoinSeq', event |-> e, user |-> u]
      BY <2>1, <3>2
    <3> QED
      BY <2>1, <3>1, <3>2
  <2>3. \A j \in mJoins : ~(j.event = e /\ j.user = u)
    BY <2>1 DEF JoinInv, JoinsIndexed
  <2>4. Memory!OneJoinRow'
    BY <2>1, <2>3 DEF JoinInv, Memory!OneJoinRow
  <2> QED
    BY <2>2, <2>4 DEF JoinInv
<1>2. CASE Memory!DeleteEvent
  <2>1. PICK e \in DOMAIN mEvents : /\ mJoins' = {j \in mJoins : j.event # e}
                                   /\ mJoinByUser' = {p \in mJoinByUser : p[1] # e}
    BY <1>2 DEF Memory!DeleteEvent
  <2>2. JoinsIndexed'
    BY <2>1 DEF JoinInv, JoinsIndexed
  <2> QED
    BY <2>1, <2>2 DEF JoinInv, Memory!OneJoinRow
<1>3. CASE Memory!DeleteUserEventJoin
  BY <1>3 DEF Memory!DeleteUserEventJoin, JoinInv, JoinsIndexed, Memory!OneJoinRow
<1>4. CASE UNCHANGED <<mJoins, mJoinByUser>>
  BY <1>4 DEF JoinInv, JoinsIndexed, Memory!OneJoinRow
<1>5. \/ Memory!JoinByQR \/ Memory!DeleteEvent \/ Memory!DeleteUserEventJoin \/ UNCHANGED <<mJoins, mJoinByUser>>
  BY DEF Memory!Next, Memory!vars, Memory!joining, Memory!CreateEvent, Memory!UpdateEvent, Memory!AddFence, Memory!DeleteFence, Memory!MarkPresent,
         Memory!RecordClockIn, Memory!SaveConsentTemplate, Memory!SaveUserEventConsent, Memory!Tick
<1> QED
  BY <1>1, <1>2, <1>3, <1>4, <1>5

\* The same of marks.  Clock-ins are in the list and not in the index, and need not be.
LEMMA MarksStaySingle == MarkInv /\ [Memory!Next]_(Memory!vars) => MarkInv'
<1> SUFFICES ASSUME MarkInv, [Memory!Next]_(Memory!vars) PROVE MarkInv'
  OBVIOUS
<1>1. CASE Memory!MarkPresent
  <2>1. PICK e \in DOMAIN mEvents, u \in MemoryUsers :
          /\ <<e, u>> \notin mPresentUser
          /\ mAttendance' = mAttendance \cup
               {[id |-> mAttendanceSeq', event |-> e, user |-> u, how |-> "marked"]}
          /\ mPresentUser' = mPresentUser \cup {<<e, u>>}
    BY <1>1 DEF Memory!MarkPresent, Memory!Attended
  <2>2. MarksIndexed'
    BY <2>1 DEF MarkInv, MarksIndexed
  <2>3. \A a \in mAttendance : a.how = "marked" => ~(a.event = e /\ a.user = u)
    BY <2>1 DEF MarkInv, MarksIndexed
  <2>4. Memory!MarkedOnce'
    BY <2>1, <2>3 DEF MarkInv, Memory!MarkedOnce
  <2> QED
    BY <2>2, <2>4 DEF MarkInv
<1>2. CASE Memory!RecordClockIn
  <2>1. PICK e \in Memory!Seen, u \in MemoryUsers :
          mAttendance' = mAttendance \cup
            {[id |-> mAttendanceSeq', event |-> e, user |-> u, how |-> "clocked_in"]}
    BY <1>2 DEF Memory!RecordClockIn, Memory!Attended
  <2>2. mPresentUser' = mPresentUser
    BY <1>2 DEF Memory!RecordClockIn
  <2>3. \A a \in mAttendance' : a.how = "marked" => a \in mAttendance
    BY <2>1
  <2> QED
    BY <2>2, <2>3 DEF MarkInv, MarksIndexed, Memory!MarkedOnce
<1>3. CASE Memory!DeleteEvent
  <2>1. PICK e \in DOMAIN mEvents : /\ mAttendance' = {a \in mAttendance : a.event # e}
                                   /\ mPresentUser' = {p \in mPresentUser : p[1] # e}
    BY <1>3 DEF Memory!DeleteEvent
  <2>2. MarksIndexed'
    BY <2>1 DEF MarkInv, MarksIndexed
  <2> QED
    BY <2>1, <2>2 DEF MarkInv, Memory!MarkedOnce
<1>4. CASE UNCHANGED <<mAttendance, mPresentUser>>
  BY <1>4 DEF MarkInv, MarksIndexed, Memory!MarkedOnce
<1>5. \/ Memory!MarkPresent \/ Memory!RecordClockIn \/ Memory!DeleteEvent \/ UNCHANGED <<mAttendance, mPresentUser>>
  BY DEF Memory!Next, Memory!vars, Memory!marking, Memory!CreateEvent, Memory!UpdateEvent, Memory!AddFence, Memory!DeleteFence, Memory!JoinByQR,
         Memory!DeleteUserEventJoin, Memory!SaveConsentTemplate, Memory!SaveUserEventConsent, Memory!Tick
<1> QED
  BY <1>1, <1>2, <1>3, <1>4, <1>5

\* Joins, fences, templates and index entries are made for events that are there, and go
\* with them.
LEMMA LateRowsStayApart == Memory!NothingButLateRows /\ [Memory!Next]_(Memory!vars) => Memory!NothingButLateRows'
<1> SUFFICES ASSUME Memory!NothingButLateRows, [Memory!Next]_(Memory!vars) PROVE Memory!NothingButLateRows'
  OBVIOUS
<1> DEFINE Within(es, fs, js, cs, ps) ==
      /\ \A f \in fs : f.event \in es
      /\ \A j \in js : j.event \in es
      /\ cs \subseteq es
      /\ \A p \in ps : p[1] \in es
<1>1. Within(DOMAIN mEvents, mFences, mJoins, mConsent, mJoinByUser \cup mPresentUser)
  BY DEF Memory!NothingButLateRows
<1>2. SUFFICES Within(DOMAIN mEvents', mFences', mJoins', mConsent', (mJoinByUser \cup mPresentUser)')
  BY DEF Memory!NothingButLateRows
<1>3. CASE Memory!CreateEvent
  <2>1. DOMAIN mEvents \subseteq DOMAIN mEvents'
    BY <1>3 DEF Memory!CreateEvent
  <2> QED
    BY <1>1, <1>3, <2>1 DEF Memory!CreateEvent, Memory!fencing, Memory!joining, Memory!marking, Memory!consenting
<1>4. CASE Memory!UpdateEvent
  <2>1. DOMAIN mEvents' = DOMAIN mEvents
    BY <1>4 DEF Memory!UpdateEvent
  <2> QED
    BY <1>1, <1>4, <2>1 DEF Memory!UpdateEvent, Memory!fencing, Memory!joining, Memory!marking, Memory!consenting
<1>5. CASE Memory!DeleteEvent
  <2>1. PICK e \in DOMAIN mEvents :
          /\ mEvents' = Memory!Without(mEvents, e)
          /\ mFences' = {f \in mFences : f.event # e}
          /\ mJoins' = {j \in mJoins : j.event # e}
          /\ mConsent' = mConsent \ {e}
          /\ mJoinByUser' = {p \in mJoinByUser : p[1] # e}
          /\ mPresentUser' = {p \in mPresentUser : p[1] # e}
    BY <1>5 DEF Memory!DeleteEvent
  <2>2. DOMAIN mEvents' = DOMAIN mEvents \ {e}
    BY <2>1 DEF Memory!Without
  <2> QED
    BY <1>1, <2>1, <2>2
<1>6. CASE Memory!AddFence
  <2>1. PICK e \in DOMAIN mEvents, s \in MemorySchedules :
          mFences' = mFences \cup {[id |-> mFenceSeq', event |-> e, schedule |-> s]}
    BY <1>6 DEF Memory!AddFence
  <2>2. \A f \in mFences' : f.event \in DOMAIN mEvents
    BY <1>1, <2>1
  <2> QED
    BY <1>1, <1>6, <2>2 DEF Memory!AddFence, Memory!joining, Memory!marking, Memory!consenting
<1>7. CASE Memory!DeleteFence
  BY <1>1, <1>7 DEF Memory!DeleteFence, Memory!consenting
<1>8. CASE Memory!JoinByQR
  <2>1. PICK e \in DOMAIN mEvents, u \in MemoryUsers :
          /\ mJoins' = mJoins \cup {[id |-> mJoinSeq', event |-> e, user |-> u]}
          /\ mJoinByUser' = mJoinByUser \cup {<<e, u>>}
    BY <1>8 DEF Memory!JoinByQR
  <2>2. \A j \in mJoins' : j.event \in DOMAIN mEvents
    BY <1>1, <2>1
  <2>3. \A p \in mJoinByUser' : p[1] \in DOMAIN mEvents
    BY <1>1, <2>1
  <2> QED
    BY <1>1, <1>8, <2>2, <2>3 DEF Memory!JoinByQR, Memory!fencing, Memory!marking, Memory!consenting
<1>9. CASE Memory!DeleteUserEventJoin
  BY <1>1, <1>9 DEF Memory!DeleteUserEventJoin, Memory!consenting
<1>10. CASE Memory!MarkPresent
  <2>1. PICK e \in DOMAIN mEvents, u \in MemoryUsers : mPresentUser' = mPresentUser \cup {<<e, u>>}
    BY <1>10 DEF Memory!MarkPresent
  <2>2. \A p \in mPresentUser' : p[1] \in DOMAIN mEvents
    BY <1>1, <2>1
  <2> QED
    BY <1>1, <1>10, <2>2 DEF Memory!MarkPresent, Memory!fencing, Memory!joining, Memory!consenting
<1>11. CASE Memory!SaveConsentTemplate
  <2>1. mConsent' \subseteq DOMAIN mEvents
    BY <1>1, <1>11 DEF Memory!SaveConsentTemplate
  <2> QED
    BY <1>1, <1>11, <2>1 DEF Memory!SaveConsentTemplate, Memory!fencing, Memory!joining, Memory!marking
<1>12. CASE Memory!RecordClockIn \/ Memory!SaveUserEventConsent \/ Memory!Tick \/ UNCHANGED Memory!vars
  BY <1>1, <1>12 DEF Memory!RecordClockIn, Memory!SaveUserEventConsent, Memory!Tick, Memory!vars, Memory!fencing, Memory!joining, Memory!marking,
                     Memory!consenting
<1> QED
  BY <1>3, <1>4, <1>5, <1>6, <1>7, <1>8, <1>9, <1>10, <1>11, <1>12 DEF Memory!Next

-----------------------------------------------------------------------------
(* New events and fences                                                   *)

\* Only CreateEvent makes an event, with a number that no row can have.
LEMMA EventsStartEmpty ==
  ASSUME MemoryInv, [Memory!Next]_(Memory!vars), NEW e \in DOMAIN mEvents' \ DOMAIN mEvents
  PROVE  /\ \A r \in mJoins' \cup mAttendance' \cup mFences' : r.event # e
         /\ \A p \in mUserConsents' \cup mJoinByUser' \cup mPresentUser' : p[1] # e
         /\ e \notin mConsent'
<1>1. Memory!CreateEvent
  <2>1. CASE Memory!UpdateEvent
    BY <2>1 DEF Memory!UpdateEvent
  <2>2. CASE Memory!DeleteEvent
    <3>1. PICK d \in DOMAIN mEvents : mEvents' = Memory!Without(mEvents, d)
      BY <2>2 DEF Memory!DeleteEvent
    <3> QED
      BY <3>1 DEF Memory!Without
  <2>3. CASE UNCHANGED mEvents
    BY <2>3
  <2>4. Memory!CreateEvent \/ Memory!UpdateEvent \/ Memory!DeleteEvent \/ UNCHANGED mEvents
    BY DEF Memory!Next, Memory!vars, Memory!AddFence, Memory!DeleteFence, Memory!JoinByQR, Memory!DeleteUserEventJoin, Memory!MarkPresent,
           Memory!RecordClockIn, Memory!SaveConsentTemplate, Memory!SaveUserEventConsent, Memory!Tick
  <2> QED
    BY <2>1, <2>2, <2>3, <2>4
<1>2. e = Memory!NewEventID /\ e \notin Memory!Seen
  <2>1. PICK s \in MemorySchedules : mEvents' = [d \in DOMAIN mEvents \cup {Memory!NewEventID} |->
                                            IF d = Memory!NewEventID THEN s ELSE mEvents[d]]
    BY <1>1, NewEventIsFresh
  <2> QED
    BY <1>1, <2>1, NewEventIsFresh
<1>3. UNCHANGED <<mFences, mJoins, mJoinByUser, mAttendance, mPresentUser, mConsent, mUserConsents>>
  BY <1>1 DEF Memory!CreateEvent, Memory!fencing, Memory!joining, Memory!marking, Memory!consenting
<1>4. /\ \A r \in mJoins \cup mAttendance \cup mFences : r.event \in Memory!Seen
      /\ \A p \in mUserConsents \cup mJoinByUser \cup mPresentUser : p[1] \in Memory!Seen
      /\ mConsent \subseteq Memory!Seen
  BY DEF MemoryInv, Memory!TypeOK, Counting
<1> QED
  BY <1>2, <1>3, <1>4

\* Only UpdateEvent changes a schedule, and it asks the fences first.
LEMMA FencesKeepInside ==
  ASSUME MemoryInv, Memory!NothingButLateRows, [Memory!Next]_(Memory!vars), NEW f \in mFences \cap mFences',
         Memory!FenceScheduleFits(mEvents[f.event], f.schedule)
  PROVE  Memory!FenceScheduleFits(mEvents'[f.event], f.schedule)
<1>1. f.event \in DOMAIN mEvents
  BY DEF Memory!NothingButLateRows
<1>2. CASE Memory!CreateEvent
  <2>1. PICK s \in MemorySchedules : mEvents' = [e \in DOMAIN mEvents \cup {Memory!NewEventID} |->
                                            IF e = Memory!NewEventID THEN s ELSE mEvents[e]]
    BY <1>2, NewEventIsFresh
  <2>2. f.event # Memory!NewEventID
    BY <1>1, <1>2, NewEventIsFresh DEF MemoryInv, Memory!TypeOK
  <2> QED
    BY <1>1, <2>1, <2>2
<1>3. CASE Memory!UpdateEvent
  <2>1. PICK e \in DOMAIN mEvents, s \in MemorySchedules :
          /\ \A g \in mFences : g.event = e => Memory!FenceScheduleFits(s, g.schedule)
          /\ mEvents' = [mEvents EXCEPT ![e] = s]
    BY <1>3 DEF Memory!UpdateEvent
  <2> QED
    BY <1>1, <2>1
<1>4. CASE Memory!DeleteEvent
  <2>1. PICK e \in DOMAIN mEvents : /\ mEvents' = Memory!Without(mEvents, e)
                                   /\ mFences' = {g \in mFences : g.event # e}
    BY <1>4 DEF Memory!DeleteEvent
  <2>2. f.event # e
    BY <2>1
  <2> QED
    BY <1>1, <2>1, <2>2 DEF Memory!Without
<1>5. CASE UNCHANGED mEvents
  BY <1>5
<1>6. Memory!CreateEvent \/ Memory!UpdateEvent \/ Memory!DeleteEvent \/ UNCHANGED mEvents
  BY DEF Memory!Next, Memory!vars, Memory!AddFence, Memory!DeleteFence, Memory!JoinByQR, Memory!DeleteUserEventJoin, Memory!MarkPresent,
         Memory!RecordClockIn, Memory!SaveConsentTemplate, Memory!SaveUserEventConsent, Memory!Tick
<1> QED
  BY <1>2, <1>3, <1>4, <1>5, <1>6

-----------------------------------------------------------------------------
LEMMA MapsAgreeAlone == Memory!Spec => Memory!MemoryMapsAgree
<1>1. Memory!Init => JoinInv /\ MarkInv /\ Memory!NothingButLateRows
  BY DEF Memory!Init, JoinInv, JoinsIndexed, Memory!OneJoinRow, MarkInv, MarksIndexed, Memory!MarkedOnce,
         Memory!NothingButLateRows
<1>2. MemoryInv => Memory!TypeOK
  BY DEF MemoryInv
<1>3. JoinInv => Memory!OneJoinRow
  BY DEF JoinInv
<1>4. MarkInv => Memory!MarkedOnce
  BY DEF MarkInv
<1>5. MemoryInv /\ [Memory!Next]_(Memory!vars) =>
        [\A e \in DOMAIN mEvents' \ DOMAIN mEvents :
           /\ \A r \in mJoins' \cup mAttendance' \cup mFences' : r.event # e
           /\ \A p \in mUserConsents' \cup mJoinByUser' \cup mPresentUser' : p[1] # e
           /\ e \notin mConsent']_(Memory!vars)
  BY EventsStartEmpty
<1>6. MemoryInv /\ Memory!NothingButLateRows /\ [Memory!Next]_(Memory!vars) =>
        [\A f \in mFences \cap mFences' :
           Memory!FenceScheduleFits(mEvents[f.event], f.schedule)
             => Memory!FenceScheduleFits(mEvents'[f.event], f.schedule)]_(Memory!vars)
  BY FencesKeepInside
<1>7. Memory!Spec => [](JoinInv /\ MarkInv /\ Memory!NothingButLateRows)
  BY <1>1, JoinsStaySingle, MarksStaySingle, LateRowsStayApart, PTL DEF Memory!Spec
<1>8. Memory!Spec => [](Memory!TypeOK /\ Memory!OneJoinRow /\ Memory!MarkedOnce /\ Memory!NothingButLateRows)
  BY <1>2, <1>3, <1>4, <1>7, TypesHold, PTL
<1>9. Memory!Spec => Memory!NewEventIsEmpty
  BY <1>5, TypesHold, PTL DEF Memory!Spec, Memory!NewEventIsEmpty
<1>10. Memory!Spec => Memory!FencesStayInside
  BY <1>6, <1>7, TypesHold, PTL DEF Memory!Spec, Memory!FencesStayInside
<1> QED
  BY <1>8, <1>9, <1>10 DEF Memory!MemoryMapsAgree

\* Whatever the order of operations, and however many there are, the maps of the store
\* agree: one join and one mark, rows of events there are but for those that came late,
\* none of them in a new event, and no fence that a schedule leaves outside.  The
\* database beside it changes nothing of it.
THEOREM MapsAgree == PartsSpec => MemoryMapsAgree
<1>1. PartsInit => Memory!Init
  BY DEF PartsInit
<1>2. [PartsNext]_<<part, vars, mVars>> => [Memory!Next]_(Memory!vars)
  BY DEF PartsNext, mVars, Memory!vars, Memory!fencing, Memory!joining, Memory!marking,
         Memory!consenting
<1>3. PartsSpec => Memory!Spec
  BY <1>1, <1>2, PTL DEF PartsSpec, Memory!Spec
<1> QED
  BY <1>3, MapsAgreeAlone DEF MemoryMapsAgree
===============================================================================
