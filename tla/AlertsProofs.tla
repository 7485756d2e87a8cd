----------------------------- MODULE AlertsProofs -----------------------------
(***************************************************************************)
(* Proofs about Alerts, for any number of requests, attendees, events,     *)
(* joins, devices and notifications.  Polls, the job, the dispatcher, a    *)
(* join and the registration of a device each write in a later step what   *)
(* they have read in an earlier one: the invariants carry along what is    *)
(* still true of it, whatever happened meanwhile, or while requests run    *)
(* one at a time, or until a run of the job fails.                         *)
(***************************************************************************)
EXTENDS Alerts, SequenceTheorems, TLAPS

DeviceLabels == {"device_read", "device_move", "device_insert", "registered"}
JoinLabels == {"join_read", "join_insert"}

\* What a request r carries at statement l.
Fits(l, r) ==
  /\ l \in DeviceLabels \cup JoinLabels \cup {"poll_read"} => r.user \in Users
  /\ l \in DeviceLabels => r.token \in Tokens
  /\ l \in JoinLabels \cup {"delete_read", "delete_rows"} => r.event \in Events

\* The job works on an event, and only alerts are of events.
JobFits == job.at = "alert" => job.event \in Events

KindsFit == \A i \in DOMAIN notices : notices[i].type = "missed_check_in" <=> notices[i].event = Nil

TInv ==
  /\ TypeOK /\ JobFits /\ KindsFit
  /\ \A w \in Workers : Fits(pc[w], req[w]) /\ req[w].alerts \subseteq Alerts

\* The statements of requests, which Next lists.
WorkerStep(w) ==
  \/ Poll(w) \/ PollRead(w) \/ PollMark(w) \/ PollAnswer(w)
  \/ Register(w) \/ DeviceRead(w) \/ DeviceMove(w) \/ DeviceInsert(w) \/ Registered(w)
  \/ DispatchMine(w) \/ DispatchedMine(w)
  \/ JoinByQR(w) \/ JoinRead(w) \/ JoinInsert(w)
  \/ DeleteEvent(w) \/ DeleteEventRead(w) \/ DeleteEventRows(w)
  \/ AbortRequest(w)

\* What an attendee does in one statement.
ShortStep == SignOut \/ SetPrefs \/ DeleteAccount \/ LeaveEvent

\* The rest of Next, which leaves requests where they are.
OtherStep == Deliver \/ JobStep \/ ShortStep \/ Turn

-----------------------------------------------------------------------------
(* Notifications                                                           *)

\* Notifications are only added.
Grow ==
  /\ notices' \in Seq(Notice) /\ Len(notices') <= MaxNotices
  /\ \A i \in DOMAIN notices : i \in DOMAIN notices' /\ notices'[i] = notices[i]

LEMMA AlertsGrow == ASSUME Grow PROVE Alerts \subseteq Alerts'
BY DEF Grow, Alerts

LEMMA Notified ==
  ASSUME TInv, MaxNotices \in Nat, NEW n \in Notice, Notify(n)
  PROVE  /\ Grow /\ Len(notices') = Len(notices) + 1 /\ Len(notices) \in Nat
         /\ DOMAIN notices' = DOMAIN notices \cup {Len(notices')}
         /\ Len(notices') \notin DOMAIN notices /\ notices'[Len(notices')] = n
<1>1. notices \in Seq(Notice) /\ Len(notices) < MaxNotices /\ notices' = Append(notices, n)
  BY DEF TInv, TypeOK, Notify
<1>2. /\ notices' \in Seq(Notice) /\ Len(notices') = Len(notices) + 1 /\ Len(notices) \in Nat
      /\ \A i \in 1..Len(notices) : notices'[i] = notices[i]
      /\ notices'[Len(notices) + 1] = n
  BY <1>1, AppendProperties
<1>3. DOMAIN notices = 1..Len(notices) /\ DOMAIN notices' = 1..(Len(notices) + 1)
  BY <1>1, <1>2
<1>4. Len(notices') <= MaxNotices
  BY <1>1, <1>2
<1> QED BY <1>2, <1>3, <1>4 DEF Grow

\* The dispatcher works on a notification that there is.
DispatchesOK ==
  /\ dispatches \subseteq Dispatch /\ \A d \in dispatches : d.id \in DOMAIN notices
  /\ sent \subseteq (DOMAIN notices) \X (Tokens \cup {"mail"})

LEMMA NotifiedDispatches ==
  ASSUME TInv, MaxNotices \in Nat, NEW n \in Notice, Notify(n), sent' = sent
  PROVE  /\ DispatchesOK'
         /\ \A d \in dispatches' \ dispatches :
              d = [id |-> Len(notices'), at |-> "prefs", by |-> {}, tokens |-> {}]
<1>1. Grow /\ Len(notices') \in Nat /\ Len(notices') \in DOMAIN notices'
  BY Notified
<1>2. [id |-> Len(notices'), at |-> "prefs", by |-> {}, tokens |-> {}] \in Dispatch
  BY <1>1 DEF Dispatch
<1>3. \/ dispatches' = dispatches
      \/ dispatches' = dispatches \cup {[id |-> Len(notices'), at |-> "prefs", by |-> {}, tokens |-> {}]}
  BY DEF Notify
<1>4. sent' \subseteq (DOMAIN notices') \X (Tokens \cup {"mail"})
  BY <1>1 DEF Grow, TInv, TypeOK
<1>5. ASSUME NEW d \in dispatches' PROVE d \in Dispatch /\ d.id \in DOMAIN notices'
  <2>1. CASE d \in dispatches
    BY <1>1, <2>1 DEF Grow, TInv, TypeOK
  <2>2. CASE d = [id |-> Len(notices'), at |-> "prefs", by |-> {}, tokens |-> {}]
    BY <1>1, <1>2, <2>2
  <2> QED BY <1>3, <1>5, <2>1, <2>2
<1> QED BY <1>3, <1>4, <1>5 DEF DispatchesOK

\* Of the steps that leave notifications alone.
LEMMA Kept ==
  ASSUME TInv, notices' = notices
  PROVE  Grow /\ Alerts' = Alerts /\ KindsFit'
BY DEF TInv, TypeOK, Grow, Alerts, KindsFit

\* What the dispatcher may do with a goroutine d.
Dispatched(d) ==
  \/ dispatches' = dispatches \ {d} /\ sent' = sent
  \/ /\ d.at = "prefs" /\ sent' = sent
     /\ notices[d.id].user \in accounts
     /\ ShouldDeliver(notices[d.id].type, prefs[notices[d.id].user])
     /\ Becomes(d, [d EXCEPT !.at = "user", !.by = {c \in Channels : prefs[notices[d.id].user][c]}])
  \/ /\ d.at = "user" /\ sent' = sent
     /\ Becomes(d, [d EXCEPT !.at = IF "mail" \in d.by THEN "mail" ELSE "list"])
  \/ /\ d.at = "mail" /\ sent' \in {sent, sent \cup {<<d.id, "mail">>}}
     /\ Becomes(d, [d EXCEPT !.at = "list"])
  \/ /\ d.at = "list" /\ "push" \in d.by /\ sent' = sent
     /\ Becomes(d, [d EXCEPT !.at = "push",
                             !.tokens = {r.token : r \in {r \in devices : r.user = notices[d.id].user}}])
  \/ /\ d.at = "push"
     /\ \E t \in d.tokens : /\ Becomes(d, [d EXCEPT !.tokens = @ \ {t}])
                            /\ sent' \in {sent, sent \cup {<<d.id, t>>}}

LEMMA Delivers ==
  ASSUME Deliver
  PROVE  /\ \E d \in dispatches : Dispatched(d)
         /\ UNCHANGED <<attendees, gatherings, inbox, job, history, workers>>
<1>1. ASSUME NEW d \in dispatches, DispatchPrefs(d) \/ DispatchUser(d) PROVE Dispatched(d)
  BY <1>1 DEF DispatchPrefs, DispatchUser, Dispatched
<1>2. ASSUME NEW d \in dispatches, DispatchMail(d) \/ DispatchList(d) PROVE Dispatched(d)
  BY <1>2 DEF DispatchMail, DispatchList, Dispatched
<1>3. ASSUME NEW d \in dispatches, DispatchPush(d) \/ DispatchDrop(d) PROVE Dispatched(d)
  BY <1>3 DEF DispatchPush, DispatchDrop, Dispatched
<1> QED BY <1>1, <1>2, <1>3 DEF Deliver

LEMMA DeliverTypes ==
  ASSUME TInv, Deliver
  PROVE  DispatchesOK'
<1>1. PICK d \in dispatches : Dispatched(d)
  BY Delivers
<1>2. notices' = notices /\ devices \subseteq DeviceRow /\ d \in Dispatch /\ d.id \in DOMAIN notices
  BY Delivers DEF inbox, TInv, TypeOK
<1>3. ASSUME NEW e \in Dispatch, e.id = d.id, Becomes(d, e)
      PROVE  dispatches' \subseteq Dispatch /\ \A f \in dispatches' : f.id \in DOMAIN notices'
  BY <1>2, <1>3 DEF Becomes, TInv, TypeOK
<1>4. ASSUME NEW t \in Tokens \cup {"mail"}, sent' \in {sent, sent \cup {<<d.id, t>>}}
      PROVE  sent' \subseteq (DOMAIN notices') \X (Tokens \cup {"mail"})
  BY <1>2, <1>4 DEF TInv, TypeOK
<1>5. CASE dispatches' = dispatches \ {d} /\ sent' = sent
  BY <1>2, <1>5 DEF DispatchesOK, TInv, TypeOK
<1>6. ASSUME NEW e, Becomes(d, e), sent' = sent,
             \/ e = [d EXCEPT !.at = "user", !.by = {c \in Channels : prefs[notices[d.id].user][c]}]
             \/ e = [d EXCEPT !.at = IF "mail" \in d.by THEN "mail" ELSE "list"]
             \/ e = [d EXCEPT !.at = "push",
                              !.tokens = {r.token : r \in {r \in devices : r.user = notices[d.id].user}}]
      PROVE  DispatchesOK'
  <2>1. {r.token : r \in {r \in devices : r.user = notices[d.id].user}} \subseteq Tokens
    BY <1>2 DEF DeviceRow
  <2>2. e \in Dispatch /\ e.id = d.id
    BY <1>2, <1>6, <2>1 DEF Dispatch
  <2> QED BY <1>2, <1>3, <1>6, <2>2 DEF DispatchesOK, TInv, TypeOK
<1>7. ASSUME d.at = "mail", Becomes(d, [d EXCEPT !.at = "list"]), sent' \in {sent, sent \cup {<<d.id, "mail">>}}
      PROVE  DispatchesOK'
  <2>1. [d EXCEPT !.at = "list"] \in Dispatch /\ [d EXCEPT !.at = "list"].id = d.id
    BY <1>2 DEF Dispatch
  <2> QED BY <1>3, <1>4, <1>7, <2>1 DEF DispatchesOK
<1>8. ASSUME NEW t \in d.tokens, Becomes(d, [d EXCEPT !.tokens = @ \ {t}]),
             sent' \in {sent, sent \cup {<<d.id, t>>}}
      PROVE  DispatchesOK'
  <2>1. [d EXCEPT !.tokens = @ \ {t}] \in Dispatch /\ [d EXCEPT !.tokens = @ \ {t}].id = d.id
        /\ t \in Tokens
    BY <1>2 DEF Dispatch
  <2> QED BY <1>3, <1>4, <1>8, <2>1 DEF DispatchesOK
<1> QED BY <1>1, <1>5, <1>6, <1>7, <1>8 DEF Dispatched

-----------------------------------------------------------------------------
(* Moves                                                                   *)

\* Where a statement takes its request, and what it has found then.
Goes(w, l, r) ==
  /\ Step(w, l, r)
  /\ l \in Labels /\ r \in Request /\ Fits(l, r) /\ r.alerts \subseteq Alerts
  /\ l = "poll_mark" => At(w, "poll_read") /\ r.alerts = AlertsOf(req[w].user) \ delivered
  /\ l = "poll_answer" =>
       \/ r.alerts = {}
       \/ At(w, "poll_mark") /\ r = req[w] /\ delivered' = delivered \cup (r.alerts \ removed)
  /\ l = "join_insert" => At(w, "join_read") /\ r = req[w] /\ ~HasJoined(r.user, r.event)
  /\ l = "device_move" =>
       At(w, "device_read") /\ \E d \in devices : d.token = r.token /\ d.id = r.row
  /\ l = "device_insert" => At(w, "device_read") /\ \A d \in devices : d.token # r.token
  /\ l = "registered" =>
       \/ /\ At(w, "device_move") /\ r = req[w]
          /\ devices' = {IF d.id = r.row THEN [d EXCEPT !.user = r.user] ELSE d : d \in devices}
       \/ /\ At(w, "device_insert") /\ r = req[w]
          /\ devices' = devices \cup {[id |-> lastRow', token |-> r.token, user |-> r.user]}
          /\ lastRow' = lastRow + 1 /\ \A d \in devices : d.token # r.token

LEMMA Moves ==
  ASSUME TInv, NEW w \in Workers, NEW l, NEW r, Step(w, l, r)
  PROVE  \A v \in Workers : /\ pc'[v] = IF v = w THEN l ELSE pc[v]
                            /\ req'[v] = IF v = w THEN r ELSE req[v]
BY DEF TInv, TypeOK, Step

LEMMA GotoMoves ==
  ASSUME TInv, NEW w \in Workers, NEW l, Goto(w, l)
  PROVE  Step(w, l, req[w])
BY DEF TInv, TypeOK, Goto, Step

LEMMA ReplyGoes ==
  ASSUME TInv, NEW w \in Workers, Reply(w)
  PROVE  Goes(w, "idle", NoRequest)
BY DEF Reply, Goes, Fits, NoRequest, Request, Labels, DeviceLabels, JoinLabels

\* Requests begin.
LEMMA BeginsGo ==
  ASSUME TInv, MaxNotices \in Nat, NEW w \in Workers,
         Poll(w) \/ Register(w) \/ DispatchMine(w) \/ JoinByQR(w) \/ DeleteEvent(w)
  PROVE  \E l, r : Goes(w, l, r)
<1>1. CASE Poll(w)
  <2>1. PICK u \in Users : Begin(w, "poll_read", [NoRequest EXCEPT !.user = u])
    BY <1>1 DEF Poll, PollOf
  <2>2. PICK r : r = [NoRequest EXCEPT !.user = u]
    OBVIOUS
  <2>3. r \in Request /\ r.user \in Users /\ r.alerts = {}
    BY <2>2 DEF NoRequest, Request
  <2>4. Fits("poll_read", r)
    BY <2>3 DEF Fits, DeviceLabels, JoinLabels
  <2>5. Goes(w, "poll_read", r)
    BY <2>1, <2>2, <2>3, <2>4 DEF Begin, Start, Goes, Labels
  <2> QED BY <2>5
<1>2. CASE Register(w)
  <2>1. PICK u \in Users, t \in Tokens : Begin(w, "device_read", [NoRequest EXCEPT !.user = u, !.token = t])
    BY <1>2 DEF Register, TInv, TypeOK
  <2>2. PICK r : r = [NoRequest EXCEPT !.user = u, !.token = t]
    OBVIOUS
  <2>3. r \in Request /\ r.user \in Users /\ r.token \in Tokens /\ r.alerts = {}
    BY <2>2 DEF NoRequest, Request
  <2>4. Fits("device_read", r)
    BY <2>3 DEF Fits, DeviceLabels, JoinLabels
  <2>5. Goes(w, "device_read", r)
    BY <2>1, <2>2, <2>3, <2>4 DEF Begin, Start, Goes, Labels
  <2> QED BY <2>5
<1>3. CASE DispatchMine(w)
  <2>1. PICK u \in Users : /\ Notify([user |-> u, event |-> Nil, type |-> "missed_check_in", join |-> Nil])
                           /\ Begin(w, "dispatching", [NoRequest EXCEPT !.user = u, !.id = Len(notices')])
    BY <1>3 DEF DispatchMine, TInv, TypeOK
  <2>2. PICK r : r = [NoRequest EXCEPT !.user = u, !.id = Len(notices')]
    OBVIOUS
  <2>3. Len(notices') \in Nat
    <3>1. [user |-> u, event |-> Nil, type |-> "missed_check_in", join |-> Nil] \in Notice
      BY DEF Notice
    <3> QED BY <2>1, <3>1, Notified
  <2>4. r \in Request /\ r.alerts = {}
    BY <2>2, <2>3 DEF NoRequest, Request
  <2>5. Goes(w, "dispatching", r)
    BY <2>1, <2>2, <2>4 DEF Begin, Start, Goes, Labels, Fits, DeviceLabels, JoinLabels
  <2> QED BY <2>5
<1>4. CASE JoinByQR(w)
  <2>1. PICK u \in Users, e \in Events : Begin(w, "join_read", [NoRequest EXCEPT !.user = u, !.event = e])
    BY <1>4 DEF JoinByQR, TInv, TypeOK
  <2>2. PICK r : r = [NoRequest EXCEPT !.user = u, !.event = e]
    OBVIOUS
  <2>3. r \in Request /\ r.user \in Users /\ r.event \in Events /\ r.alerts = {}
    BY <2>2 DEF NoRequest, Request
  <2>4. Fits("join_read", r)
    BY <2>3 DEF Fits, DeviceLabels, JoinLabels
  <2>5. Goes(w, "join_read", r)
    BY <2>1, <2>2, <2>3, <2>4 DEF Begin, Start, Goes, Labels
  <2> QED BY <2>5
<1>5. CASE DeleteEvent(w)
  <2>1. PICK e \in Events : Begin(w, "delete_read", [NoRequest EXCEPT !.event = e])
    BY <1>5 DEF DeleteEvent, TInv, TypeOK
  <2>2. PICK r : r = [NoRequest EXCEPT !.event = e]
    OBVIOUS
  <2>3. r \in Request /\ r.event \in Events /\ r.alerts = {}
    BY <2>2 DEF NoRequest, Request
  <2>4. Fits("delete_read", r)
    BY <2>3 DEF Fits, DeviceLabels, JoinLabels
  <2>5. Goes(w, "delete_read", r)
    BY <2>1, <2>2, <2>3, <2>4 DEF Begin, Start, Goes, Labels
  <2> QED BY <2>5
<1> QED BY <1>1, <1>2, <1>3, <1>4, <1>5

LEMMA PollsGo ==
  ASSUME TInv, NEW w \in Workers, PollRead(w) \/ PollMark(w)
  PROVE  \E l, r : Goes(w, l, r)
<1>0. PICK q : q = req[w]
  OBVIOUS
<1>1. q \in Request /\ q.alerts \subseteq Alerts /\ Fits(pc[w], q)
  BY <1>0 DEF TInv, TypeOK
<1>2. CASE PollRead(w)
  <2> DEFINE ids == AlertsOf(q.user) \ delivered
  <2>1. PICK r : r = [q EXCEPT !.alerts = ids]
    OBVIOUS
  <2>2. ids \subseteq Alerts /\ Alerts \subseteq Nat
    BY DEF AlertsOf, Alerts, TInv, TypeOK
  <2>3. r \in Request /\ r.alerts = ids /\ r.user = q.user
    BY <1>1, <2>1, <2>2 DEF Request
  <2>4. At(w, "poll_read") /\ Step(w, IF ids = {} THEN "poll_answer" ELSE "poll_mark", r)
    BY <1>0, <1>2, <2>1 DEF PollRead
  <2> QED BY <1>0, <2>2, <2>3, <2>4 DEF Goes, Labels, Fits, DeviceLabels, JoinLabels
<1>3. CASE PollMark(w)
  <2>1. Step(w, "poll_answer", q)
    BY <1>0, <1>3, GotoMoves DEF PollMark
  <2> QED BY <1>0, <1>1, <1>3, <2>1 DEF PollMark, Goes, Labels, Fits, DeviceLabels, JoinLabels
<1> QED BY <1>2, <1>3

LEMMA DevicesGo ==
  ASSUME TInv, NEW w \in Workers, DeviceRead(w) \/ DeviceMove(w) \/ DeviceInsert(w)
  PROVE  \E l, r : Goes(w, l, r)
<1>0. PICK q : q = req[w]
  OBVIOUS
<1>1. q \in Request /\ q.alerts \subseteq Alerts /\ Fits(pc[w], q)
  BY <1>0 DEF TInv, TypeOK
<1>2. pc[w] \in DeviceLabels
  BY DEF DeviceRead, DeviceMove, DeviceInsert, At, DeviceLabels
<1>3. q.user \in Users /\ q.token \in Tokens
  BY <1>1, <1>2 DEF Fits
<1>4. \A l \in DeviceLabels : Fits(l, q)
  BY <1>3 DEF Fits, DeviceLabels, JoinLabels
<1>5. CASE DeviceRead(w)
  <2>1. CASE {r \in devices : r.token = q.token} = {} /\ Goto(w, "device_insert")
    BY <1>0, <1>1, <1>4, <1>5, <2>1, GotoMoves DEF DeviceRead, Goes, Labels, DeviceLabels
  <2>2. ASSUME NEW d \in devices, d.token = q.token, Step(w, "device_move", [q EXCEPT !.row = d.id])
        PROVE  \E l, r : Goes(w, l, r)
    <3>1. PICK r : r = [q EXCEPT !.row = d.id]
      OBVIOUS
    <3>2. /\ r \in Request /\ r.alerts = q.alerts /\ r.token = q.token /\ r.row = d.id
          /\ r.user = q.user
      BY <1>1, <3>1 DEF Request, TInv, TypeOK, DeviceRow
    <3>3. Fits("device_move", r)
      BY <1>3, <3>2 DEF Fits, DeviceLabels, JoinLabels
    <3>4. At(w, "device_read") /\ \E f \in devices : f.token = r.token /\ f.id = r.row
      BY <1>5, <2>2, <3>2 DEF DeviceRead
    <3>5. Step(w, "device_move", r) /\ r.alerts \subseteq Alerts
      BY <1>1, <2>2, <3>1, <3>2
    <3> QED BY <3>2, <3>3, <3>4, <3>5 DEF Goes, Labels
  <2> QED BY <1>0, <1>5, <2>1, <2>2 DEF DeviceRead
<1>6. CASE DeviceMove(w)
  BY <1>0, <1>1, <1>4, <1>6, GotoMoves DEF DeviceMove, Goes, Labels, DeviceLabels
<1>7. CASE DeviceInsert(w)
  <2>1. CASE Reply(w)
    BY <2>1, ReplyGoes
  <2>2. CASE ~Reply(w)
    BY <1>0, <1>1, <1>4, <1>7, <2>2, GotoMoves DEF DeviceInsert, Goes, Labels, DeviceLabels
  <2> QED BY <2>1, <2>2
<1> QED BY <1>5, <1>6, <1>7

LEMMA GatheringsGo ==
  ASSUME TInv, NEW w \in Workers, JoinRead(w) \/ DeleteEventRead(w)
  PROVE  \E l, r : Goes(w, l, r)
<1>0. PICK q : q = req[w]
  OBVIOUS
<1>1. q \in Request /\ q.alerts \subseteq Alerts /\ Fits(pc[w], q)
  BY <1>0 DEF TInv, TypeOK
<1>2. CASE Reply(w)
  BY <1>2, ReplyGoes
<1>3. CASE JoinRead(w) /\ ~Reply(w)
  <2>1. At(w, "join_read") /\ ~HasJoined(q.user, q.event) /\ Step(w, "join_insert", q)
    BY <1>0, <1>3, GotoMoves DEF JoinRead
  <2>2. Fits("join_insert", q)
    BY <1>1, <2>1 DEF Fits, At, DeviceLabels, JoinLabels
  <2> QED BY <1>0, <1>1, <2>1, <2>2 DEF Goes, Labels
<1>4. CASE DeleteEventRead(w) /\ ~Reply(w)
  <2>1. At(w, "delete_read") /\ Step(w, "delete_rows", q)
    BY <1>0, <1>4, GotoMoves DEF DeleteEventRead
  <2>2. Fits("delete_rows", q)
    BY <1>1, <2>1 DEF Fits, At, DeviceLabels, JoinLabels
  <2> QED BY <1>0, <1>1, <2>1, <2>2 DEF Goes, Labels
<1> QED BY <1>2, <1>3, <1>4

LEMMA StepGoes ==
  ASSUME TInv, MaxNotices \in Nat, NEW w \in Workers, WorkerStep(w)
  PROVE  \E l, r : Goes(w, l, r)
<1>1. CASE PollAnswer(w) \/ Registered(w) \/ DispatchedMine(w) \/ AbortRequest(w)
  BY <1>1, ReplyGoes DEF PollAnswer, Registered, DispatchedMine, AbortRequest
<1>2. CASE JoinInsert(w) \/ DeleteEventRows(w)
  BY <1>2, ReplyGoes DEF JoinInsert, DeleteEventRows
<1> QED BY <1>1, <1>2, BeginsGo, PollsGo, DevicesGo, GatheringsGo DEF WorkerStep

-----------------------------------------------------------------------------
(* Rows                                                                    *)

AttendeesOK ==
  /\ accounts \subseteq Users /\ prefs \in [Users -> PrefRow]
  /\ devices \subseteq DeviceRow /\ lastRow \in 0..MaxRows

GatheringsOK ==
  /\ events \subseteq Events /\ live \subseteq events /\ processed \subseteq events
  /\ joins \subseteq JoinRow /\ lastJoin \in 0..MaxJoins

JobOK ==
  /\ job \in [at : {"idle", "next", "alert"}, events : SUBSET Events, event : Events \cup {Nil},
              rows : SUBSET JoinRow]
  /\ JobFits

HistoryOK ==
  /\ delivered \subseteq Alerts /\ removed \subseteq Alerts /\ lost \subseteq Alerts
  /\ answered \in [1..MaxNotices -> 0..2] /\ failed \in BOOLEAN /\ raced \in BOOLEAN

RowsOK == AttendeesOK /\ GatheringsOK /\ JobOK /\ HistoryOK /\ DispatchesOK /\ KindsFit

LEMMA TypesSplit ==
  TInv <=> /\ RowsOK
           /\ notices \in Seq(Notice) /\ Len(notices) <= MaxNotices
           /\ held \in [1..MaxNotices -> SUBSET Tokens] /\ wanted \in [1..MaxNotices -> SUBSET Channels]
           /\ pc \in [Workers -> Labels] /\ req \in [Workers -> Request]
           /\ \A w \in Workers : Fits(pc[w], req[w]) /\ req[w].alerts \subseteq Alerts
BY DEF TInv, TypeOK, RowsOK, AttendeesOK, GatheringsOK, JobOK, HistoryOK, DispatchesOK

\* What the job writes for a row j of the joins.
AlertFor(j) == [user |-> j.user, event |-> job.event, type |-> "event_live", join |-> j]

LEMMA AlertWritten ==
  ASSUME TInv, AlertsAssumption, JobAlert
  PROVE  \E j \in job.rows :
           /\ j \in JoinRow /\ job.event \in Events
           /\ AlertFor(j) \in Notice /\ Notify(AlertFor(j))
           /\ job' = [job EXCEPT !.rows = @ \ {j}]
<1>1. job.at = "alert" /\ job.event \in Events /\ job.rows \subseteq JoinRow
  BY DEF JobAlert, TInv, TypeOK, JobFits
<1>2. \A j \in JoinRow : AlertFor(j) \in Notice
  BY <1>1 DEF AlertFor, Notice, JoinRow
<1> QED BY <1>1, <1>2 DEF JobAlert, AlertFor

LEMMA JobRows ==
  ASSUME TInv, AlertsAssumption, JobStep
  PROVE  Grow /\ RowsOK'
<1>1. /\ RowsOK /\ MaxNotices \in Nat
      /\ UNCHANGED <<attendees, gatherings, sent, answered, lost, raced, workers>>
  BY TypesSplit DEF JobStep, AlertsAssumption
<1>2. AttendeesOK'
  BY <1>1 DEF attendees, RowsOK, AttendeesOK
<1>3. CASE JobFind \/ JobList \/ JobMark \/ JobAbort
  <2>1. UNCHANGED <<notices, delivered, removed, dispatches>> /\ failed' \in BOOLEAN
    BY <1>1, <1>3 DEF JobFind, JobList, JobMark, JobAbort, inbox, RowsOK, HistoryOK
  <2>2. Grow /\ Alerts' = Alerts /\ KindsFit'
    BY <2>1, Kept
  <2>3. processed' \subseteq events
    BY <1>1, <1>3 DEF JobFind, JobList, JobMark, JobAbort, inbox, RowsOK, GatheringsOK
  <2>4. GatheringsOK'
    BY <1>1, <2>3 DEF gatherings, RowsOK, GatheringsOK
  <2>5. JobOK'
    <3>1. CASE JobFind
      <4>1. live \subseteq Events /\ live \ processed \subseteq Events
        BY <1>1 DEF RowsOK, GatheringsOK
      <4> QED BY <3>1, <4>1 DEF JobFind, JobIdle, JobOK, JobFits
    <3>2. CASE JobList
      <4>1. PICK e \in job.events :
              job' = [at |-> "alert", events |-> job.events \ {e}, event |-> e,
                      rows |-> {j \in joins : j.event = e}]
        BY <3>2 DEF JobList
      <4> QED BY <1>1, <4>1 DEF RowsOK, JobOK, JobFits, GatheringsOK
    <3>3. CASE JobMark
      BY <1>1, <3>3 DEF JobMark, JobIdle, RowsOK, JobOK, JobFits
    <3>4. CASE JobAbort
      BY <3>4 DEF JobAbort, JobIdle, JobOK, JobFits
    <3> QED BY <1>3, <3>1, <3>2, <3>3, <3>4
  <2>6. HistoryOK' /\ DispatchesOK'
    BY <1>1, <2>1, <2>2 DEF RowsOK, HistoryOK, DispatchesOK
  <2> QED BY <1>2, <2>2, <2>4, <2>5, <2>6 DEF RowsOK
<1>4. CASE JobAlert
  <2>1. PICK j \in job.rows :
           /\ j \in JoinRow /\ job.event \in Events
           /\ AlertFor(j) \in Notice /\ Notify(AlertFor(j))
           /\ job' = [job EXCEPT !.rows = @ \ {j}]
    BY <1>4, AlertWritten
  <2>2. /\ Grow /\ DOMAIN notices' = DOMAIN notices \cup {Len(notices')}
        /\ notices'[Len(notices')] = AlertFor(j)
    BY <1>1, <2>1, Notified
  <2>3. DispatchesOK'
    BY <1>1, <2>1, NotifiedDispatches
  <2>4. Alerts \subseteq Alerts'
    BY <2>2, AlertsGrow
  <2>5. HistoryOK' /\ GatheringsOK'
    BY <1>1, <1>4, <2>4 DEF JobAlert, RowsOK, HistoryOK, GatheringsOK, gatherings
  <2>6. JobOK'
    BY <1>1, <1>4, <2>1 DEF JobAlert, RowsOK, JobOK, JobFits
  <2>7. KindsFit'
    <3>1. AlertFor(j).type = "event_live" /\ AlertFor(j).event # Nil
      BY <2>1 DEF AlertFor, AlertsAssumption
    <3>2. \A i \in DOMAIN notices : notices[i].type = "missed_check_in" <=> notices[i].event = Nil
      BY <1>1 DEF RowsOK, KindsFit
    <3>3. ASSUME NEW i \in DOMAIN notices'
          PROVE  notices'[i].type = "missed_check_in" <=> notices'[i].event = Nil
      <4>1. CASE i \in DOMAIN notices
        BY <2>2, <3>2, <4>1 DEF Grow
      <4>2. CASE i = Len(notices')
        BY <2>2, <3>1, <4>2
      <4> QED BY <2>2, <3>3, <4>1, <4>2
    <3> QED BY <3>3 DEF KindsFit
  <2> QED BY <1>2, <2>2, <2>3, <2>5, <2>6, <2>7 DEF RowsOK
<1> QED BY <1>3, <1>4 DEF JobStep

LEMMA ShortRows ==
  ASSUME TInv, AlertsAssumption, ShortStep
  PROVE  Grow /\ RowsOK' /\ UNCHANGED workers
<1>1. RowsOK
  BY TypesSplit
<1>2. /\ UNCHANGED <<inbox, delivery, answered, lost, failed, workers, lastRow, events, live, lastJoin>>
      /\ raced' \in BOOLEAN
  BY <1>1 DEF ShortStep, SignOut, SetPrefs, DeleteAccount, LeaveEvent, Overlap, attendees, gatherings,
              RowsOK, HistoryOK
<1>3. Grow /\ Alerts' = Alerts /\ KindsFit'
  BY <1>2, Kept DEF inbox
<1>4. joins' \subseteq joins
  BY DEF ShortStep, SignOut, SetPrefs, DeleteAccount, LeaveEvent, gatherings
<1>5. AttendeesOK'
  <2>1. CASE SignOut
    BY <1>1, <2>1 DEF SignOut, RowsOK, AttendeesOK
  <2>2. CASE SetPrefs
    BY <1>1, <2>2 DEF SetPrefs, RowsOK, AttendeesOK, AlertsAssumption
  <2>3. CASE DeleteAccount
    BY <1>1, <2>3 DEF DeleteAccount, RowsOK, AttendeesOK
  <2>4. CASE LeaveEvent
    BY <1>1, <2>4 DEF LeaveEvent, attendees, RowsOK, AttendeesOK
  <2> QED BY <2>1, <2>2, <2>3, <2>4 DEF ShortStep
<1>6. GatheringsOK'
  BY <1>1, <1>2, <1>4 DEF inbox, RowsOK, GatheringsOK
<1>7. JobOK' /\ HistoryOK' /\ DispatchesOK'
  BY <1>1, <1>2, <1>3 DEF inbox, delivery, RowsOK, JobOK, JobFits, HistoryOK, DispatchesOK
<1> QED BY <1>2, <1>3, <1>5, <1>6, <1>7 DEF RowsOK

LEMMA OtherRows ==
  ASSUME TInv, AlertsAssumption, OtherStep
  PROVE  Grow /\ RowsOK' /\ UNCHANGED workers
<1>1. RowsOK
  BY TypesSplit
<1>2. CASE Deliver
  <2>1. UNCHANGED <<attendees, gatherings, inbox, job, history, workers>>
    BY <1>2, Delivers
  <2>2. Grow /\ Alerts' = Alerts /\ KindsFit'
    BY <2>1, Kept DEF inbox
  <2>3. DispatchesOK'
    BY <1>2, DeliverTypes
  <2>4. AttendeesOK' /\ GatheringsOK'
    BY <1>1, <2>1 DEF attendees, gatherings, inbox, RowsOK, AttendeesOK, GatheringsOK
  <2>5. JobOK' /\ HistoryOK'
    BY <1>1, <2>1, <2>2 DEF inbox, history, RowsOK, JobOK, JobFits, HistoryOK
  <2> QED BY <2>1, <2>2, <2>3, <2>4, <2>5 DEF RowsOK
<1>3. CASE JobStep
  BY <1>3, JobRows DEF JobStep
<1>4. CASE ShortStep
  BY <1>4, ShortRows
<1>5. CASE Turn
  <2>1. UNCHANGED <<attendees, events, joins, lastJoin, inbox, delivery, history, workers>>
        /\ live' \subseteq live \cup events
    BY <1>5 DEF Turn
  <2>2. Grow /\ Alerts' = Alerts /\ KindsFit'
    BY <2>1, Kept DEF inbox
  <2>3. AttendeesOK' /\ GatheringsOK'
    BY <1>1, <2>1 DEF attendees, inbox, RowsOK, AttendeesOK, GatheringsOK
  <2>4. JobOK' /\ HistoryOK' /\ DispatchesOK'
    BY <1>1, <2>1, <2>2 DEF inbox, delivery, history, RowsOK, JobOK, JobFits, HistoryOK, DispatchesOK
  <2> QED BY <2>1, <2>2, <2>3, <2>4 DEF RowsOK
<1> QED BY <1>2, <1>3, <1>4, <1>5 DEF OtherStep

\* What which statement of a request writes.
WorkerWrites(w) ==
  /\ UNCHANGED <<accounts, prefs, job, sent, failed>>
  /\ PollMark(w) \/ delivered' = delivered
  /\ PollAnswer(w) \/ answered' = answered
  /\ AbortRequest(w) \/ lost' = lost
  /\ DeviceMove(w) \/ DeviceInsert(w) \/ UNCHANGED <<devices, lastRow>>
  /\ DispatchMine(w) \/ UNCHANGED <<notices, dispatches>>
  /\ JoinInsert(w) \/ lastJoin' = lastJoin
  /\ JoinInsert(w) \/ DeleteEventRows(w) \/ joins' = joins
  /\ DeleteEventRows(w) \/ UNCHANGED <<events, live, processed, removed>>
  /\ IF Idle(w) THEN raced' = (raced \/ \E v \in Workers : ~Idle(v)) ELSE raced' = raced

LEMMA WorkersWrite ==
  ASSUME NEW w \in Workers, WorkerStep(w)
  PROVE  WorkerWrites(w)
<1>1. CASE Poll(w) \/ Register(w) \/ JoinByQR(w) \/ DeleteEvent(w)
  BY <1>1 DEF Poll, PollOf, Register, JoinByQR, DeleteEvent, Begin, Start, Overlap, attendees, gatherings,
              inbox, delivery, WorkerWrites
<1>2. CASE DispatchMine(w)
  BY <1>2 DEF DispatchMine, Begin, Start, Overlap, attendees, gatherings, WorkerWrites
<1>3. CASE PollRead(w) \/ DeviceRead(w) \/ Registered(w) \/ DispatchedMine(w) \/ JoinRead(w) \/ DeleteEventRead(w)
  BY <1>3 DEF PollRead, DeviceRead, Registered, DispatchedMine, JoinRead, DeleteEventRead, At, Idle,
              attendees, gatherings, inbox, delivery, history, WorkerWrites
<1>4. CASE PollMark(w)
  BY <1>4 DEF PollMark, At, Idle, attendees, gatherings, delivery, history, WorkerWrites
<1>5. CASE PollAnswer(w)
  BY <1>5 DEF PollAnswer, At, Idle, attendees, gatherings, inbox, delivery, WorkerWrites
<1>6. CASE DeviceMove(w) \/ DeviceInsert(w)
  BY <1>6 DEF DeviceMove, DeviceInsert, DeviceChange, At, Idle, gatherings, inbox, delivery, history, WorkerWrites
<1>7. CASE AbortRequest(w)
  BY <1>7 DEF AbortRequest, attendees, gatherings, inbox, delivery, WorkerWrites
<1>8. CASE JoinInsert(w)
  BY <1>8 DEF JoinInsert, At, Idle, attendees, inbox, delivery, history, WorkerWrites
<1>9. CASE DeleteEventRows(w)
  BY <1>9 DEF DeleteEventRows, At, Idle, attendees, delivery, history, WorkerWrites
<1> QED BY <1>1, <1>2, <1>3, <1>4, <1>5, <1>6, <1>7, <1>8, <1>9 DEF WorkerStep

\* What the rest of Next leaves alone.
LEMMA OthersWrite ==
  ASSUME OtherStep \/ UNCHANGED vars
  PROVE  /\ UNCHANGED <<delivered, removed, answered, lost, events, lastRow, pc, req>>
         /\ raced => raced'
         /\ joins' \subseteq joins /\ devices' \subseteq devices
         /\ SignOut \/ devices' = devices
         /\ JobStep \/ UNCHANGED <<notices, job, processed, failed>>
         /\ Deliver \/ JobStep \/ dispatches' = dispatches
         /\ Deliver \/ sent' = sent
<1>1. CASE Deliver
  BY <1>1 DEF Deliver, attendees, gatherings, inbox, history, workers
<1>2. CASE JobStep
  BY <1>2 DEF JobStep, JobFind, JobList, JobAlert, JobMark, JobAbort, attendees, gatherings, inbox, workers
<1>3. CASE SignOut \/ SetPrefs
  BY <1>3 DEF SignOut, SetPrefs, Overlap, gatherings, inbox, delivery, workers
<1>4. CASE DeleteAccount \/ LeaveEvent
  BY <1>4 DEF DeleteAccount, LeaveEvent, Overlap, attendees, inbox, delivery, workers
<1>5. CASE Turn \/ UNCHANGED vars
  BY <1>5 DEF Turn, vars, attendees, gatherings, inbox, delivery, history, workers
<1> QED BY <1>1, <1>2, <1>3, <1>4, <1>5 DEF OtherStep, ShortStep

LEMMA WorkerNotices ==
  ASSUME TInv, AlertsAssumption, NEW w \in Workers, WorkerStep(w)
  PROVE  Grow /\ KindsFit' /\ DispatchesOK'
<1>1. MaxNotices \in Nat /\ RowsOK /\ WorkerWrites(w)
  BY WorkersWrite, TypesSplit DEF AlertsAssumption
<1>2. CASE UNCHANGED <<notices, dispatches>>
  <2>1. Grow /\ KindsFit'
    BY <1>2, Kept
  <2> QED BY <1>1, <1>2, <2>1 DEF WorkerWrites, RowsOK, DispatchesOK
<1>3. CASE DispatchMine(w)
  <2>1. PICK u \in Users : Notify([user |-> u, event |-> Nil, type |-> "missed_check_in", join |-> Nil])
    BY <1>3 DEF DispatchMine, TInv, TypeOK
  <2>2. PICK n : n = [user |-> u, event |-> Nil, type |-> "missed_check_in", join |-> Nil]
    OBVIOUS
  <2>3. n \in Notice /\ n.event = Nil /\ n.type = "missed_check_in"
    BY <2>2 DEF Notice
  <2>4. /\ Grow /\ DOMAIN notices' = DOMAIN notices \cup {Len(notices')}
        /\ notices'[Len(notices')] = n
    BY <1>1, <2>1, <2>2, <2>3, Notified
  <2>5. DispatchesOK'
    BY <1>1, <2>1, <2>2, <2>3, NotifiedDispatches DEF WorkerWrites
  <2>6. ASSUME NEW i \in DOMAIN notices'
        PROVE  notices'[i].type = "missed_check_in" <=> notices'[i].event = Nil
    <3>1. CASE i \in DOMAIN notices
      BY <1>1, <2>4, <3>1 DEF Grow, RowsOK, KindsFit
    <3>2. CASE i = Len(notices')
      BY <2>3, <2>4, <3>2
    <3> QED BY <2>4, <2>6, <3>1, <3>2
  <2> QED BY <2>4, <2>5, <2>6 DEF KindsFit
<1> QED BY <1>1, <1>2, <1>3 DEF WorkerWrites

LEMMA WorkerDevices ==
  ASSUME TInv, AlertsAssumption, NEW w \in Workers, WorkerStep(w)
  PROVE  devices' \subseteq DeviceRow /\ lastRow' \in 0..MaxRows
<1>1. /\ MaxRows \in Nat /\ devices \subseteq DeviceRow /\ lastRow \in 0..MaxRows /\ WorkerWrites(w)
      /\ Fits(pc[w], req[w])
  BY WorkersWrite DEF AlertsAssumption, TInv, TypeOK
<1>2. CASE DeviceMove(w)
  <2>1. req[w].user \in Users
    BY <1>1, <1>2 DEF DeviceMove, At, Fits, DeviceLabels
  <2> QED BY <1>1, <1>2, <2>1 DEF DeviceMove, DeviceRow
<1>3. CASE DeviceInsert(w)
  <2>1. req[w].user \in Users /\ req[w].token \in Tokens
    BY <1>1, <1>3 DEF DeviceInsert, At, Fits, DeviceLabels
  <2>2. lastRow' \in 0..MaxRows /\ lastRow' \in Nat
    BY <1>1, <1>3 DEF DeviceInsert
  <2> QED BY <1>1, <1>3, <2>1, <2>2 DEF DeviceInsert, DeviceRow
<1> QED BY <1>1, <1>2, <1>3 DEF WorkerWrites

LEMMA WorkerGatherings ==
  ASSUME TInv, AlertsAssumption, NEW w \in Workers, WorkerStep(w)
  PROVE  GatheringsOK'
<1>1. /\ MaxJoins \in Nat /\ GatheringsOK /\ WorkerWrites(w) /\ Fits(pc[w], req[w])
  BY WorkersWrite, TypesSplit DEF AlertsAssumption, TInv, RowsOK
<1>2. CASE JoinInsert(w)
  <2>1. req[w].user \in Users /\ req[w].event \in Events
    BY <1>1, <1>2 DEF JoinInsert, At, Fits, JoinLabels
  <2>2. lastJoin' = lastJoin + 1 /\ lastJoin' \in 0..MaxJoins /\ lastJoin' \in Nat
    BY <1>1, <1>2 DEF JoinInsert, GatheringsOK
  <2>3. [id |-> lastJoin', user |-> req[w].user, event |-> req[w].event] \in JoinRow
    BY <2>1, <2>2 DEF JoinRow
  <2>4. joins' \subseteq JoinRow /\ UNCHANGED <<events, live, processed>>
    BY <1>1, <1>2, <2>3 DEF JoinInsert, inbox, GatheringsOK
  <2> QED BY <1>1, <2>2, <2>4 DEF GatheringsOK
<1>3. CASE DeleteEventRows(w)
  BY <1>1, <1>3 DEF DeleteEventRows, GatheringsOK
<1>4. CASE UNCHANGED <<events, live, processed, joins, lastJoin>>
  BY <1>1, <1>4 DEF GatheringsOK
<1> QED BY <1>1, <1>2, <1>3, <1>4 DEF WorkerWrites, JoinInsert, DeleteEventRows, inbox

LEMMA WorkerHistory ==
  ASSUME TInv, AlertsAssumption, NEW w \in Workers, WorkerStep(w)
  PROVE  HistoryOK'
<1>1. /\ HistoryOK /\ req[w].alerts \subseteq Alerts /\ Alerts \subseteq Alerts' /\ WorkerWrites(w)
  BY WorkersWrite, WorkerNotices, AlertsGrow, TypesSplit DEF RowsOK
<1>2. delivered' \subseteq Alerts' /\ removed' \subseteq Alerts'
  <2>1. delivered' \subseteq Alerts'
    BY <1>1 DEF WorkerWrites, PollMark, HistoryOK
  <2>2. CASE DeleteEventRows(w)
    <3>1. req[w].event # Nil
      BY <2>2 DEF DeleteEventRows, At, TInv, Fits, AlertsAssumption
    <3>2. removed' \subseteq removed \cup Alerts
      BY <2>2, <3>1 DEF DeleteEventRows, Alerts
    <3> QED BY <1>1, <2>1, <3>2 DEF HistoryOK
  <2>3. CASE removed' = removed
    BY <1>1, <2>1, <2>3 DEF HistoryOK
  <2> QED BY <1>1, <2>2, <2>3 DEF WorkerWrites
<1>3. lost' \subseteq Alerts'
  BY <1>1 DEF WorkerWrites, AbortRequest, HistoryOK
<1>4. answered' \in [1..MaxNotices -> 0..2]
  BY <1>1 DEF WorkerWrites, PollAnswer, HistoryOK
<1>5. failed' \in BOOLEAN /\ raced' \in BOOLEAN
  BY <1>1 DEF WorkerWrites, HistoryOK
<1> QED BY <1>2, <1>3, <1>4, <1>5 DEF HistoryOK

-----------------------------------------------------------------------------
(* Types                                                                   *)

\* Observe only adds, whose devices and preferences a notification's attendee has now.
LEMMA Observed ==
  ASSUME Observe, NEW i \in 1..MaxNotices
  PROVE  /\ held[i] \subseteq held'[i] /\ wanted[i] \subseteq wanted'[i]
         /\ i \in DOMAIN notices' =>
              /\ {r.token : r \in {r \in devices' : r.user = notices'[i].user}} \subseteq held'[i]
              /\ /\ notices'[i].user \in accounts'
                 /\ IF notices'[i].event = Nil THEN prefs'[notices'[i].user].missed
                    ELSE prefs'[notices'[i].user].geofence
                 => {c \in Channels : prefs'[notices'[i].user][c]} \subseteq wanted'[i]
<1>1. held'[i] = held[i] \cup {r.token : r \in {r \in devices' : i \in DOMAIN notices' /\ r.user = notices'[i].user}}
  BY DEF Observe
<1>2. held[i] \subseteq held'[i]
  BY <1>1
<1>3. wanted[i] \subseteq wanted'[i]
  BY DEF Observe
<1>4. ASSUME i \in DOMAIN notices'
      PROVE  {r.token : r \in {r \in devices' : r.user = notices'[i].user}} \subseteq held'[i]
  BY <1>1, <1>4
<1>5. ASSUME i \in DOMAIN notices', notices'[i].user \in accounts',
             IF notices'[i].event = Nil THEN prefs'[notices'[i].user].missed
             ELSE prefs'[notices'[i].user].geofence
      PROVE  {c \in Channels : prefs'[notices'[i].user][c]} \subseteq wanted'[i]
  BY <1>5 DEF Observe
<1> QED BY <1>2, <1>3, <1>4, <1>5

LEMMA ObservedTypes ==
  ASSUME TInv, Observe, devices' \subseteq DeviceRow
  PROVE  held' \in [1..MaxNotices -> SUBSET Tokens] /\ wanted' \in [1..MaxNotices -> SUBSET Channels]
<1>1. held \in [1..MaxNotices -> SUBSET Tokens] /\ wanted \in [1..MaxNotices -> SUBSET Channels]
  BY DEF TInv, TypeOK
<1>2. ASSUME NEW i \in 1..MaxNotices PROVE held'[i] \subseteq Tokens
  <2>1. held'[i] = held[i] \cup {r.token : r \in {r \in devices' : i \in DOMAIN notices' /\ r.user = notices'[i].user}}
    BY DEF Observe
  <2> QED BY <1>1, <2>1 DEF DeviceRow
<1>3. held' \in [1..MaxNotices -> SUBSET Tokens]
  BY <1>2 DEF Observe
<1>4. ASSUME NEW i \in 1..MaxNotices PROVE wanted'[i] \subseteq Channels
  BY <1>1 DEF Observe
<1>5. wanted' \in [1..MaxNotices -> SUBSET Channels]
  BY <1>4 DEF Observe
<1> QED BY <1>3, <1>5

LEMMA NextKeepsTypes ==
  ASSUME TInv, AlertsAssumption, [Next]_vars
  PROVE  TInv'
<1>1. ASSUME NEW w \in Workers, WorkerStep(w), Observe PROVE TInv'
  <2>1. PICK l, r : Goes(w, l, r)
    BY <1>1, StepGoes DEF AlertsAssumption
  <2>2. \A v \in Workers : /\ pc'[v] = IF v = w THEN l ELSE pc[v]
                           /\ req'[v] = IF v = w THEN r ELSE req[v]
    BY <2>1, Moves DEF Goes
  <2>3. Grow /\ KindsFit' /\ DispatchesOK' /\ HistoryOK' /\ Alerts \subseteq Alerts'
    BY <1>1, WorkerNotices, WorkerHistory, AlertsGrow
  <2>4. AttendeesOK' /\ GatheringsOK' /\ JobOK'
    BY <1>1, WorkerDevices, WorkerGatherings, WorkersWrite, TypesSplit
       DEF WorkerWrites, RowsOK, AttendeesOK, JobOK, JobFits
  <2>5. \A v \in Workers : Fits(pc'[v], req'[v]) /\ req'[v].alerts \subseteq Alerts'
    BY <2>1, <2>2, <2>3 DEF Goes, TInv
  <2>6. \A v \in Workers : (Fits(pc[v], req[v]) /\ req[v].alerts \subseteq Alerts)'
    BY <2>5 DEF Fits
  <2>7. pc' \in [Workers -> Labels] /\ req' \in [Workers -> Request]
    BY <2>1 DEF Goes, Step, TInv, TypeOK
  <2>8. held' \in [1..MaxNotices -> SUBSET Tokens] /\ wanted' \in [1..MaxNotices -> SUBSET Channels]
    BY <1>1, <2>4, ObservedTypes DEF AttendeesOK
  <2> QED BY <2>3, <2>4, <2>6, <2>7, <2>8 DEF TInv, TypeOK, Grow, RowsOK, AttendeesOK, GatheringsOK, JobOK, HistoryOK,
              DispatchesOK
<1>2. ASSUME OtherStep, Observe PROVE TInv'
  <2>1. Grow /\ RowsOK' /\ pc' = pc /\ req' = req
    BY <1>2, OtherRows DEF workers
  <2>2. \A v \in Workers : (Fits(pc[v], req[v]) /\ req[v].alerts \subseteq Alerts)'
    BY <2>1, AlertsGrow DEF TInv, Fits
  <2>3. held' \in [1..MaxNotices -> SUBSET Tokens] /\ wanted' \in [1..MaxNotices -> SUBSET Channels]
    BY <1>2, <2>1, ObservedTypes DEF RowsOK, AttendeesOK
  <2>4. pc' \in [Workers -> Labels] /\ req' \in [Workers -> Request]
    BY <2>1 DEF TInv, TypeOK
  <2> QED BY <2>1, <2>2, <2>3, <2>4 DEF TInv, TypeOK, Grow, RowsOK, AttendeesOK, GatheringsOK, JobOK, HistoryOK,
              DispatchesOK
<1>3. CASE UNCHANGED vars
  BY <1>3 DEF vars, attendees, gatherings, inbox, delivery, history, observed, workers, TInv, TypeOK,
              JobFits, KindsFit, Fits, Alerts
<1> QED BY <1>1, <1>2, <1>3 DEF Next, WorkerStep, OtherStep, ShortStep

LEMMA InitTypes == ASSUME AlertsAssumption, Init PROVE TInv
<1>1. NoRequest \in Request
  BY DEF NoRequest, Request
<1>2. notices \in Seq(Notice) /\ Len(notices) = 0 /\ DOMAIN notices = {}
  BY DEF Init
<1>3. lastRow \in 0..MaxRows /\ Len(notices) <= MaxNotices
  BY <1>2 DEF AlertsAssumption, Init
<1>4. AttendeesOK /\ GatheringsOK /\ JobOK
  <2>1. \A m \in Members : [id |-> 0, user |-> m[1], event |-> m[2]] \in JoinRow
    BY DEF AlertsAssumption, JoinRow
  <2>2. GatheringsOK
    BY <2>1 DEF Init, GatheringsOK, AlertsAssumption
  <2>3. AttendeesOK /\ JobOK
    BY <1>3 DEF Init, AttendeesOK, JobOK, JobFits, JobIdle, PrefRow
  <2> QED BY <2>2, <2>3
<1>5. HistoryOK /\ DispatchesOK /\ KindsFit
  <2>1. answered \in [1..MaxNotices -> 0..2]
    BY DEF Init
  <2>2. HistoryOK
    BY <2>1 DEF Init, HistoryOK
  <2>3. DispatchesOK
    BY DEF Init, DispatchesOK
  <2>4. KindsFit
    BY <1>2 DEF KindsFit
  <2> QED BY <2>2, <2>3, <2>4
<1>6. held \in [1..MaxNotices -> SUBSET Tokens] /\ wanted \in [1..MaxNotices -> SUBSET Channels]
  BY DEF Init
<1>7. \A w \in Workers : Fits(pc[w], req[w]) /\ req[w].alerts \subseteq Alerts
  BY DEF Init, Fits, DeviceLabels, JoinLabels, NoRequest
<1>8. pc \in [Workers -> Labels] /\ req \in [Workers -> Request]
  BY <1>1 DEF Init, Labels
<1> QED BY <1>2, <1>3, <1>4, <1>5, <1>6, <1>7, <1>8, TypesSplit DEF RowsOK

\* The types of rows and goroutines, and the numbers of notifications and devices.
THEOREM TypeInvariant == ASSUME AlertsAssumption PROVE Spec => []TypeOK
<1>1. Init => TInv
  BY InitTypes
<1>2. TInv /\ [Next]_vars => TInv'
  BY NextKeepsTypes
<1>3. TInv => TypeOK
  BY DEF TInv
<1> QED BY <1>1, <1>2, <1>3, PTL DEF Spec

-----------------------------------------------------------------------------
(* Polls                                                                   *)

\* Alerts are numbered.
LEMMA AlertNumbers ==
  ASSUME TInv, MaxNotices \in Nat
  PROVE  Alerts \subseteq 1..MaxNotices
<1>1. DOMAIN notices = 1..Len(notices) /\ Len(notices) \in Nat /\ Len(notices) <= MaxNotices
  BY DEF TInv, TypeOK
<1> QED BY <1>1 DEF Alerts

\* An answer is over when it arrives or gets lost.
LEMMA AnswersEnd ==
  ASSUME NEW w \in Workers, WorkerStep(w), pc[w] = "poll_answer"
  PROVE  PollAnswer(w) \/ AbortRequest(w)
<1>1. ~(Poll(w) \/ Register(w) \/ DispatchMine(w) \/ JoinByQR(w) \/ DeleteEvent(w))
  BY DEF Poll, PollOf, Register, DispatchMine, JoinByQR, DeleteEvent, Begin, Start, Idle
<1>2. ~(PollRead(w) \/ PollMark(w) \/ DeviceRead(w) \/ DeviceMove(w) \/ DeviceInsert(w))
  BY DEF PollRead, PollMark, DeviceRead, DeviceMove, DeviceInsert, At
<1>3. ~(Registered(w) \/ DispatchedMine(w))
  BY DEF Registered, DispatchedMine, At
<1>4. ~(JoinRead(w) \/ JoinInsert(w) \/ DeleteEventRead(w) \/ DeleteEventRows(w))
  BY DEF JoinRead, JoinInsert, DeleteEventRead, DeleteEventRows, At
<1> QED BY <1>1, <1>2, <1>3, <1>4 DEF WorkerStep

LEMMA AnswersCount ==
  ASSUME TInv, NEW w \in Workers, WorkerStep(w), NEW i \in 1..MaxNotices
  PROVE  /\ answered[i] \in Nat /\ answered[i] > 0 => answered'[i] > 0
         /\ PollAnswer(w) /\ i \in req[w].alerts => answered'[i] > 0
         /\ ~(PollAnswer(w) /\ i \in req[w].alerts) => answered'[i] = answered[i]
         /\ PollAnswer(w) /\ i \in req[w].alerts /\ answered[i] = 0 => answered'[i] = 1
<1>1. answered[i] \in 0..2 /\ (PollAnswer(w) \/ answered' = answered)
  BY WorkersWrite DEF TInv, TypeOK, WorkerWrites
<1>2. CASE PollAnswer(w)
  <2>1. answered'[i] = IF i \in req[w].alerts /\ answered[i] < 2 THEN answered[i] + 1 ELSE answered[i]
    BY <1>2 DEF PollAnswer
  <2> QED BY <1>1, <1>2, <2>1
<1> QED BY <1>1, <1>2

MInv == TInv /\ MarkedIsAnswered

LEMMA NextKeepsMarked ==
  ASSUME MInv, AlertsAssumption, [Next]_vars
  PROVE  MarkedIsAnswered'
<1>1. ASSUME NEW w \in Workers, WorkerStep(w) PROVE MarkedIsAnswered'
  <2>1. PICK l, r : Goes(w, l, r)
    BY <1>1, StepGoes DEF AlertsAssumption, MInv
  <2>2. \A v \in Workers : /\ pc'[v] = IF v = w THEN l ELSE pc[v]
                           /\ req'[v] = IF v = w THEN r ELSE req[v]
    BY <2>1, Moves DEF Goes, MInv
  <2>3. ASSUME NEW i \in delivered'
        PROVE  \/ answered'[i] > 0
               \/ i \in lost'
               \/ \E v \in Workers : pc'[v] = "poll_answer" /\ i \in req'[v].alerts
    <3>1. CASE i \notin delivered
      <4>1. PollMark(w) /\ i \in req[w].alerts
        BY <1>1, <2>3, <3>1, WorkersWrite DEF WorkerWrites, PollMark
      <4>2. pc'[w] = "poll_answer" /\ req'[w] = req[w]
        BY <4>1 DEF PollMark, Goto, MInv, TInv, TypeOK
      <4> QED BY <4>1, <4>2
    <3>2. CASE i \in delivered
      <4>1. i \in 1..MaxNotices
        BY <3>2, AlertNumbers DEF MInv, TInv, TypeOK, AlertsAssumption
      <4>2. CASE answered[i] > 0
        BY <1>1, <4>1, <4>2, AnswersCount DEF MInv
      <4>3. CASE i \in lost
        BY <1>1, <4>3, WorkersWrite DEF WorkerWrites, AbortRequest
      <4>4. ASSUME NEW v \in Workers, v # w, pc[v] = "poll_answer", i \in req[v].alerts
            PROVE  pc'[v] = "poll_answer" /\ i \in req'[v].alerts
        BY <2>2, <4>4
      <4>5. ASSUME pc[w] = "poll_answer", i \in req[w].alerts
            PROVE  answered'[i] > 0 \/ i \in lost'
        BY <1>1, <4>1, <4>5, AnswersEnd, AnswersCount DEF AbortRequest, At, MInv
      <4> QED BY <3>2, <4>2, <4>3, <4>4, <4>5 DEF MInv, MarkedIsAnswered
    <3> QED BY <3>1, <3>2
  <2> QED BY <2>3 DEF MarkedIsAnswered
<1>2. CASE OtherStep \/ UNCHANGED vars
  <2>1. UNCHANGED <<delivered, answered, lost, pc, req>>
    BY <1>2, OthersWrite
  <2> QED BY <2>1 DEF MInv, MarkedIsAnswered
<1> QED BY <1>1, <1>2 DEF Next, WorkerStep, OtherStep, ShortStep

\* However polls, the job and failures interleave, no alert is marked that nobody read.
THEOREM MarkedAlertsWereRead == ASSUME AlertsAssumption PROVE Spec => []MarkedIsAnswered
<1>1. Init => MInv
  BY InitTypes DEF Init, MInv, MarkedIsAnswered
<1>2. MInv /\ [Next]_vars => MInv'
  BY NextKeepsTypes, NextKeepsMarked DEF MInv
<1>3. MInv => MarkedIsAnswered
  BY DEF MInv
<1> QED BY <1>1, <1>2, <1>3, PTL DEF Spec

-----------------------------------------------------------------------------
(* Answers of polls that run one at a time                                 *)

\* Until requests have overlapped, one is in flight at most.
Alone == ~raced => \A v, w \in Workers : ~Idle(v) /\ ~Idle(w) => v = w

\* What got into an answer was marked before, unless its event was deleted in between.
MarkedFirst ==
  /\ \A i \in 1..MaxNotices : answered[i] > 0 \/ i \in lost => i \in delivered \cup removed
  /\ \A w \in Workers : pc[w] = "poll_answer" => req[w].alerts \subseteq delivered \cup removed

\* What a poll has read was in no answer.
UnansweredYet ==
  ~raced => \A w \in Workers : pc[w] \in {"poll_mark", "poll_answer"} =>
              \A i \in req[w].alerts : answered[i] = 0 /\ i \notin lost

CountedOnce == ~raced => \A i \in 1..MaxNotices : answered[i] <= 1 /\ (answered[i] = 1 => i \notin lost)

AInv == TInv /\ Alone /\ MarkedFirst /\ UnansweredYet /\ CountedOnce

\* A request moves alone, or races.
LEMMA NextKeepsAlone ==
  ASSUME TInv, Alone, AlertsAssumption, [Next]_vars
  PROVE  /\ Alone' /\ (raced => raced')
         /\ \A w \in Workers : WorkerStep(w) /\ ~raced' => \A v \in Workers : v # w => Idle(v)
<1>1. ASSUME NEW w \in Workers, WorkerStep(w)
      PROVE  Alone' /\ (raced => raced') /\ (~raced' => \A v \in Workers : v # w => Idle(v))
  <2>1. PICK l, r : Goes(w, l, r)
    BY <1>1, StepGoes DEF AlertsAssumption
  <2>2. \A v \in Workers : pc'[v] = IF v = w THEN l ELSE pc[v]
    BY <2>1, Moves DEF Goes
  <2>3. (raced => raced') /\ (~raced' => \A v \in Workers : v # w => Idle(v))
    BY <1>1, WorkersWrite DEF WorkerWrites, Alone
  <2> QED BY <2>2, <2>3 DEF Alone, Idle
<1>2. ASSUME OtherStep \/ UNCHANGED vars
      PROVE  Alone' /\ (raced => raced') /\ pc' = pc
  <2>1. pc' = pc /\ (raced => raced')
    BY <1>2, OthersWrite
  <2> QED BY <2>1 DEF Alone, Idle
<1> QED BY <1>1, <1>2 DEF Next, WorkerStep, OtherStep, ShortStep

LEMMA NextKeepsMarkedFirst ==
  ASSUME TInv, MarkedFirst, AlertsAssumption, NEW w \in Workers, WorkerStep(w)
  PROVE  MarkedFirst'
<1>1. PICK l, r : Goes(w, l, r)
  BY StepGoes DEF AlertsAssumption
<1>2. \A v \in Workers : /\ pc'[v] = IF v = w THEN l ELSE pc[v]
                         /\ req'[v] = IF v = w THEN r ELSE req[v]
  BY <1>1, Moves DEF Goes
<1>3. delivered \subseteq delivered' /\ removed \subseteq removed'
  BY WorkersWrite DEF WorkerWrites, PollMark, DeleteEventRows
<1>4. \A v \in Workers : pc'[v] = "poll_answer" => req'[v].alerts \subseteq delivered' \cup removed'
  BY <1>1, <1>2, <1>3 DEF Goes, MarkedFirst
<1>5. ASSUME NEW i \in 1..MaxNotices, answered'[i] > 0 \/ i \in lost' PROVE i \in delivered' \cup removed'
  <2>1. answered[i] > 0 \/ i \in lost \/ (pc[w] = "poll_answer" /\ i \in req[w].alerts)
    BY <1>5, AnswersCount, WorkersWrite DEF WorkerWrites, PollAnswer, AbortRequest, At
  <2> QED BY <1>3, <2>1 DEF MarkedFirst
<1> QED BY <1>3, <1>4, <1>5 DEF MarkedFirst

LEMMA NextKeepsAnswers ==
  ASSUME AInv, AlertsAssumption, [Next]_vars
  PROVE  MarkedFirst' /\ UnansweredYet' /\ CountedOnce'
<1>1. ASSUME NEW w \in Workers, WorkerStep(w) PROVE MarkedFirst' /\ UnansweredYet' /\ CountedOnce'
  <2>1. PICK l, r : Goes(w, l, r)
    BY <1>1, StepGoes DEF AlertsAssumption, AInv
  <2>2. \A v \in Workers : /\ pc'[v] = IF v = w THEN l ELSE pc[v]
                           /\ req'[v] = IF v = w THEN r ELSE req[v]
    BY <2>1, Moves DEF Goes, AInv
  <2>3. (raced => raced') /\ (~raced' => \A v \in Workers : v # w => Idle(v))
    BY <1>1, NextKeepsAlone DEF AInv
  <2>4. MarkedFirst'
    BY <1>1, NextKeepsMarkedFirst DEF AInv
  <2>5. ASSUME ~raced', NEW i \in 1..MaxNotices, ~(pc[w] = "poll_answer" /\ i \in req[w].alerts)
        PROVE  answered'[i] = answered[i] /\ (i \in lost' <=> i \in lost)
    BY <1>1, <2>5, AnswersCount, WorkersWrite DEF AInv, WorkerWrites, PollAnswer, AbortRequest, At
  <2>6. ASSUME ~raced', l \in {"poll_mark", "poll_answer"}, NEW i \in r.alerts
        PROVE  answered'[i] = 0 /\ i \notin lost'
    <3>1. i \in 1..MaxNotices
      BY <2>1, AlertNumbers DEF Goes, AInv, AlertsAssumption
    <3>2. pc[w] # "poll_answer" /\ answered[i] = 0 /\ i \notin lost
      <4>1. CASE l = "poll_mark"
        <5>1. i \notin delivered \cup removed /\ pc[w] # "poll_answer"
          BY <2>1, <2>6, <4>1 DEF Goes, At, AlertsOf
        <5> QED BY <3>1, <5>1 DEF AInv, MarkedFirst, TInv, TypeOK
      <4>2. CASE l = "poll_answer"
        <5>1. pc[w] = "poll_mark" /\ i \in req[w].alerts
          BY <2>1, <2>6, <4>2 DEF Goes, At
        <5> QED BY <2>3, <2>6, <5>1 DEF AInv, UnansweredYet
      <4> QED BY <2>6, <4>1, <4>2
    <3> QED BY <2>5, <2>6, <3>1, <3>2
  <2>7. UnansweredYet'
    <3>1. ASSUME NEW v \in Workers, ~raced', pc'[v] \in {"poll_mark", "poll_answer"} PROVE v = w
      BY <2>2, <2>3, <3>1 DEF Idle
    <3> QED BY <2>2, <2>6, <3>1 DEF UnansweredYet
  <2>8. ASSUME ~raced', NEW i \in 1..MaxNotices
        PROVE  answered'[i] <= 1 /\ (answered'[i] = 1 => i \notin lost')
    <3>1. CASE pc[w] = "poll_answer" /\ i \in req[w].alerts
      <4>1. answered[i] = 0 /\ i \notin lost
        BY <2>3, <2>8, <3>1 DEF AInv, UnansweredYet
      <4>2. CASE PollAnswer(w)
        BY <1>1, <3>1, <4>1, <4>2, AnswersCount DEF AInv, PollAnswer
      <4>3. CASE AbortRequest(w) /\ ~PollAnswer(w)
        BY <1>1, <4>1, <4>3, AnswersCount DEF AInv
      <4> QED BY <1>1, <3>1, <4>2, <4>3, AnswersEnd
    <3>2. CASE ~(pc[w] = "poll_answer" /\ i \in req[w].alerts)
      BY <2>3, <2>5, <2>8, <3>2 DEF AInv, CountedOnce
    <3> QED BY <3>1, <3>2
  <2> QED BY <2>4, <2>7, <2>8 DEF CountedOnce
<1>2. CASE OtherStep \/ UNCHANGED vars
  <2>1. UNCHANGED <<delivered, removed, answered, lost, pc, req>>
    BY <1>2, OthersWrite
  <2>2. raced => raced'
    BY NextKeepsAlone DEF AInv
  <2> QED BY <2>1, <2>2 DEF AInv, MarkedFirst, UnansweredYet, CountedOnce
<1> QED BY <1>1, <1>2 DEF Next, WorkerStep, OtherStep, ShortStep

\* As long as requests run one at a time, an alert is in one answer at most, and in
\* none after an answer with it got lost.
THEOREM AlertsAreAnsweredOnce == ASSUME AlertsAssumption PROVE Spec => []AnsweredOnce
<1>1. ASSUME Init PROVE AInv
  <2>1. \A i \in 1..MaxNotices : answered[i] = 0 /\ i \notin lost
    BY <1>1 DEF Init
  <2>2. \A w \in Workers : pc[w] = "idle"
    BY <1>1 DEF Init
  <2>3. MarkedFirst /\ CountedOnce
    BY <2>1, <2>2 DEF MarkedFirst, CountedOnce
  <2>4. Alone /\ UnansweredYet
    BY <2>2 DEF Alone, UnansweredYet, Idle
  <2> QED BY <1>1, <2>3, <2>4, InitTypes DEF AInv
<1>2. AInv /\ [Next]_vars => AInv'
  BY NextKeepsTypes, NextKeepsAlone, NextKeepsAnswers DEF AInv
<1>3. AInv => AnsweredOnce
  BY AlertNumbers DEF AInv, AnsweredOnce, CountedOnce, AlertsAssumption
<1> QED BY <1>1, <1>2, <1>3, PTL DEF Spec

-----------------------------------------------------------------------------
(* The job                                                                 *)

\* The job alerts the rows of the event that it works on.
RowsOfRun == job.at = "alert" => \A j \in job.rows : j.event = job.event

AlertsOfJoins == \A i \in Alerts : notices[i].join.event = notices[i].event

\* As long as requests run one at a time, an attendee has one join of an event.
JoinedOnce ==
  ~raced =>
    /\ \A j, k \in joins : j.user = k.user /\ j.event = k.event => j = k
    /\ job.at = "alert" => \A j, k \in job.rows : j.user = k.user => j = k
    /\ \A w \in Workers : pc[w] = "join_insert" => ~HasJoined(req[w].user, req[w].event)

\* An event whose joins were alerted is not found again: it is processed or deleted, or
\* the run is about to mark it.
Told ==
  ~failed =>
    /\ job.events \cap processed = {}
    /\ job.at = "alert" => job.event \notin job.events \cup processed
    /\ \A i \in Alerts :
         /\ notices[i].event \notin job.events
         /\ \/ notices[i].event \in processed \/ notices[i].event \notin events
            \/ job.at = "alert" /\ notices[i].event = job.event

\* The rows that the run has left are not alerted yet, nor are their attendees.
ToldOnce ==
  ~failed /\ job.at = "alert" =>
    \A i \in Alerts, j \in job.rows :
      notices[i].event = job.event =>
        /\ notices[i].join # j
        /\ ~raced => notices[i].user # j.user

JInv == RowsOfRun /\ AlertsOfJoins /\ Told /\ ToldOnce /\ OneAlertPerGoLive
OInv == TInv /\ Alone /\ JoinedOnce /\ JInv

\* What an attendee asks for is no alert.
LEMMA WorkersAlertNobody ==
  ASSUME TInv, AlertsAssumption, NEW w \in Workers, WorkerStep(w)
  PROVE  Alerts' = Alerts /\ \A i \in Alerts : notices'[i] = notices[i]
<1>1. MaxNotices \in Nat /\ WorkerWrites(w)
  BY WorkersWrite DEF AlertsAssumption
<1>2. CASE notices' = notices
  BY <1>2 DEF Alerts
<1>3. CASE DispatchMine(w)
  <2>1. PICK u \in Users : Notify([user |-> u, event |-> Nil, type |-> "missed_check_in", join |-> Nil])
    BY <1>3 DEF DispatchMine, TInv, TypeOK
  <2>2. PICK n : n = [user |-> u, event |-> Nil, type |-> "missed_check_in", join |-> Nil]
    OBVIOUS
  <2>3. n \in Notice /\ n.event = Nil
    BY <2>2 DEF Notice
  <2>4. /\ Grow /\ DOMAIN notices' = DOMAIN notices \cup {Len(notices')}
        /\ notices'[Len(notices')] = n
    BY <1>1, <2>1, <2>2, <2>3, Notified
  <2> QED BY <2>3, <2>4 DEF Grow, Alerts
<1> QED BY <1>1, <1>2, <1>3 DEF WorkerWrites

LEMMA NextKeepsJoined ==
  ASSUME OInv, AlertsAssumption, [Next]_vars
  PROVE  JoinedOnce'
<1>1. raced => raced'
  BY NextKeepsAlone DEF OInv
<1>2. ASSUME ~raced', NEW w \in Workers, WorkerStep(w) PROVE JoinedOnce'
  <2>1. PICK l, r : Goes(w, l, r)
    BY <1>2, StepGoes DEF AlertsAssumption, OInv
  <2>2. \A v \in Workers : /\ pc'[v] = IF v = w THEN l ELSE pc[v]
                           /\ req'[v] = IF v = w THEN r ELSE req[v]
    BY <2>1, Moves DEF Goes, OInv
  <2>3. \A v \in Workers : v # w => Idle(v)
    BY <1>2, NextKeepsAlone DEF OInv
  <2>4. WorkerWrites(w)
    BY <1>2, WorkersWrite
  <2>5. \A v \in Workers : pc'[v] = "join_insert" => v = w
    BY <2>2, <2>3 DEF Idle
  <2>6. CASE JoinInsert(w)
    <3>1. ~HasJoined(req[w].user, req[w].event) /\ pc'[w] = "idle"
      BY <1>1, <1>2, <2>2, <2>6 DEF JoinInsert, At, Reply, Step, OInv, JoinedOnce, TInv, TypeOK
    <3>2. PICK n : n = [id |-> lastJoin', user |-> req[w].user, event |-> req[w].event]
      OBVIOUS
    <3>3. n.user = req[w].user /\ n.event = req[w].event /\ joins' = joins \cup {n} /\ job' = job
      BY <2>4, <2>6, <3>2 DEF JoinInsert, WorkerWrites
    <3>4. \A j \in joins : ~(j.user = n.user /\ j.event = n.event)
      BY <3>1, <3>3 DEF HasJoined
    <3> QED BY <1>1, <1>2, <2>5, <3>1, <3>3, <3>4 DEF OInv, JoinedOnce
  <2>7. CASE ~JoinInsert(w)
    <3>1. joins' \subseteq joins /\ job' = job
      BY <2>4, <2>7 DEF WorkerWrites, DeleteEventRows
    <3>2. l = "join_insert" => ~HasJoined(r.user, r.event)
      BY <2>1 DEF Goes
    <3>3. pc'[w] = "join_insert" => ~(\E j \in joins' : j.user = req'[w].user /\ j.event = req'[w].event)
      BY <2>2, <3>1, <3>2 DEF HasJoined
    <3> QED BY <1>1, <1>2, <2>5, <3>1, <3>3 DEF OInv, JoinedOnce, HasJoined
  <2> QED BY <2>6, <2>7
<1>3. ASSUME ~raced', OtherStep \/ UNCHANGED vars PROVE JoinedOnce'
  <2>1. joins' \subseteq joins /\ UNCHANGED <<pc, req>> /\ (JobStep \/ job' = job)
    BY <1>3, OthersWrite
  <2>2. job'.at = "alert" => \A j, k \in job'.rows : j.user = k.user => j = k
    <3>1. CASE job' = job
      BY <1>1, <1>3, <3>1 DEF OInv, JoinedOnce
    <3>2. CASE JobList
      <4>1. PICK e \in job.events :
              job' = [at |-> "alert", events |-> job.events \ {e}, event |-> e,
                      rows |-> {j \in joins : j.event = e}]
        BY <3>2 DEF JobList
      <4>2. job'.rows = {j \in joins : j.event = e}
        BY <4>1
      <4> QED BY <1>1, <1>3, <4>2 DEF OInv, JoinedOnce
    <3>3. CASE JobAlert
      <4>1. job.at = "alert" /\ job'.rows \subseteq job.rows
        BY <3>3 DEF JobAlert, OInv, TInv, TypeOK
      <4> QED BY <1>1, <1>3, <4>1 DEF OInv, JoinedOnce
    <3>4. CASE JobFind \/ JobMark \/ JobAbort
      <4>1. CASE JobFind
        BY <4>1 DEF JobFind, JobIdle
      <4>2. CASE JobMark
        BY <4>2 DEF JobMark, JobIdle
      <4>3. CASE JobAbort
        BY <4>3 DEF JobAbort, JobIdle
      <4> QED BY <3>4, <4>1, <4>2, <4>3
    <3> QED BY <2>1, <3>1, <3>2, <3>3, <3>4 DEF JobStep
  <2> QED BY <1>1, <1>3, <2>1, <2>2 DEF OInv, JoinedOnce, HasJoined
<1> QED BY <1>2, <1>3 DEF Next, WorkerStep, OtherStep, ShortStep, JoinedOnce

\* Steps that write no alert, and take the mark of an event only with the event.
LEMMA OthersKeepTold ==
  ASSUME JInv, Alerts' = Alerts, \A i \in Alerts : notices'[i] = notices[i],
         UNCHANGED <<job, failed>>, raced => raced',
         processed' \subseteq processed, events' \subseteq events,
         processed \cap events' \subseteq processed'
  PROVE  JInv'
<1>1. RowsOfRun' /\ AlertsOfJoins' /\ OneAlertPerGoLive'
  BY DEF JInv, RowsOfRun, AlertsOfJoins, OneAlertPerGoLive
<1>2. ASSUME ~failed, NEW i \in Alerts
      PROVE  \/ notices[i].event \in processed' \/ notices[i].event \notin events'
             \/ job.at = "alert" /\ notices[i].event = job.event
  BY <1>2 DEF JInv, Told
<1>3. Told'
  BY <1>2 DEF JInv, Told
<1>4. ToldOnce'
  BY DEF JInv, ToldOnce
<1> QED BY <1>1, <1>3, <1>4 DEF JInv

LEMMA JobAlertTellsOnce ==
  ASSUME OInv, AlertsAssumption, JobAlert, UNCHANGED <<events, raced>>
  PROVE  JInv'
<1>1. PICK j \in job.rows :
         /\ j \in JoinRow /\ job.event \in Events
         /\ AlertFor(j) \in Notice /\ Notify(AlertFor(j))
         /\ job' = [job EXCEPT !.rows = @ \ {j}]
  BY AlertWritten DEF OInv
<1>2. PICK n : n = AlertFor(j)
  OBVIOUS
<1>3. n \in Notice /\ n.user = j.user /\ n.event = job.event /\ n.join = j /\ n.event # Nil
  BY <1>1, <1>2 DEF AlertFor, AlertsAssumption
<1>4. PICK m : m = Len(notices')
  OBVIOUS
<1>5. Grow /\ DOMAIN notices' = DOMAIN notices \cup {m} /\ notices'[m] = n /\ m \notin DOMAIN notices
  BY <1>1, <1>2, <1>3, <1>4, Notified DEF OInv, AlertsAssumption
<1>6. Alerts' = Alerts \cup {m} /\ \A i \in Alerts : notices'[i] = notices[i] /\ i # m
  BY <1>3, <1>5 DEF Alerts, Grow
<1>7. /\ job.at = "alert" /\ job'.at = "alert" /\ job'.event = job.event /\ job'.events = job.events
      /\ job'.rows = job.rows \ {j} /\ UNCHANGED <<processed, failed>>
  BY <1>1 DEF JobAlert, OInv, TInv, TypeOK
<1>8. j.event = job.event
  BY <1>1, <1>7 DEF OInv, JInv, RowsOfRun
<1>9. RowsOfRun' /\ AlertsOfJoins'
  BY <1>3, <1>5, <1>6, <1>7, <1>8 DEF OInv, JInv, RowsOfRun, AlertsOfJoins
<1>10. Told'
  <2>1. ASSUME ~failed, NEW i \in Alerts'
        PROVE  /\ notices'[i].event \notin job.events
               /\ \/ notices'[i].event \in processed \/ notices'[i].event \notin events'
                  \/ notices'[i].event = job.event
    <3>1. CASE i \in Alerts
      BY <1>6, <2>1, <3>1 DEF OInv, JInv, Told
    <3>2. CASE i = m
      BY <1>3, <1>5, <1>7, <2>1, <3>2 DEF OInv, JInv, Told
    <3> QED BY <1>6, <2>1, <3>1, <3>2
  <2> QED BY <1>7, <2>1 DEF OInv, JInv, Told
<1>11. ToldOnce'
  <2>1. ASSUME ~failed, NEW i \in Alerts', NEW k \in job.rows \ {j}, notices'[i].event = job.event
        PROVE  notices'[i].join # k /\ (~raced => notices'[i].user # k.user)
    <3>1. CASE i \in Alerts
      BY <1>6, <1>7, <2>1, <3>1 DEF OInv, JInv, ToldOnce
    <3>2. CASE i = m
      BY <1>1, <1>3, <1>5, <1>7, <2>1, <3>2 DEF OInv, JoinedOnce
    <3> QED BY <1>6, <2>1, <3>1, <3>2
  <2> QED BY <1>7, <2>1 DEF ToldOnce
<1>12. OneAlertPerGoLive'
  <2>1. ASSUME ~failed, NEW i \in Alerts
        PROVE  /\ notices[i].join # j
               /\ ~raced => ~(notices[i].user = j.user /\ notices[i].event = job.event)
    BY <1>1, <1>7, <1>8, <2>1 DEF OInv, JInv, ToldOnce, AlertsOfJoins
  <2>2. ASSUME ~failed, NEW i \in Alerts', NEW k \in Alerts'
        PROVE  /\ notices'[i].join = notices'[k].join => i = k
               /\ ~raced /\ notices'[i].user = notices'[k].user /\ notices'[i].event = notices'[k].event => i = k
    <3>1. CASE i \in Alerts /\ k \in Alerts
      BY <1>6, <2>2, <3>1 DEF OInv, JInv, OneAlertPerGoLive
    <3>2. CASE i = m /\ k \in Alerts
      BY <1>3, <1>5, <1>6, <2>1, <2>2, <3>2
    <3>3. CASE i \in Alerts /\ k = m
      BY <1>3, <1>5, <1>6, <2>1, <2>2, <3>3
    <3> QED BY <1>6, <2>2, <3>1, <3>2, <3>3
  <2> QED BY <1>7, <2>2 DEF OneAlertPerGoLive
<1> QED BY <1>9, <1>10, <1>11, <1>12 DEF JInv

LEMMA JobKeepsTold ==
  ASSUME OInv, AlertsAssumption, JobStep
  PROVE  JInv'
<1>1. UNCHANGED <<events, live, joins, raced>>
  BY DEF JobStep, gatherings
<1>2. CASE JobAlert
  BY <1>1, <1>2, JobAlertTellsOnce
<1>4. ASSUME notices' = notices, failed => failed' PROVE AlertsOfJoins' /\ OneAlertPerGoLive'
  BY <1>1, <1>4 DEF OInv, JInv, AlertsOfJoins, OneAlertPerGoLive, Alerts
<1>5. CASE JobFind
  <2>1. /\ UNCHANGED <<notices, processed, failed>> /\ job.at = "idle"
        /\ job'.at = "next" /\ job'.events = live \ processed
    BY <1>5 DEF JobFind, JobIdle, inbox
  <2>2. live \subseteq events
    BY DEF OInv, TInv, TypeOK
  <2> QED BY <1>1, <1>4, <2>1, <2>2 DEF OInv, JInv, RowsOfRun, Told, ToldOnce, Alerts
<1>6. CASE JobList
  <2>1. UNCHANGED <<notices, processed, failed>> /\ job.at = "next"
    BY <1>6 DEF JobList, inbox
  <2>2. PICK e \in job.events :
          job' = [at |-> "alert", events |-> job.events \ {e}, event |-> e,
                  rows |-> {j \in joins : j.event = e}]
    BY <1>6 DEF JobList
  <2>3. /\ job'.at = "alert" /\ job'.events = job.events \ {e} /\ job'.event = e
        /\ job'.rows = {j \in joins : j.event = e}
    BY <2>2
  <2>4. RowsOfRun'
    BY <2>3 DEF RowsOfRun
  <2>5. ~failed => \A i \in Alerts : notices[i].event # e
    BY DEF OInv, JInv, Told
  <2>6. Told'
    BY <1>1, <2>1, <2>3 DEF OInv, JInv, Told, Alerts
  <2>7. ToldOnce'
    BY <2>1, <2>3, <2>5 DEF ToldOnce, Alerts
  <2> QED BY <1>4, <2>1, <2>4, <2>6, <2>7 DEF JInv
<1>7. CASE JobMark
  <2>1. /\ UNCHANGED <<notices, failed>> /\ job.at = "alert"
        /\ processed' = processed \cup ({job.event} \cap events)
        /\ job'.at # "alert" /\ job'.events = job.events
    BY <1>7 DEF JobMark, JobIdle
  <2>2. RowsOfRun' /\ ToldOnce'
    BY <2>1 DEF RowsOfRun, ToldOnce
  <2>3. Told'
    BY <1>1, <2>1 DEF OInv, JInv, Told, Alerts
  <2> QED BY <1>4, <2>1, <2>2, <2>3 DEF JInv
<1>8. CASE JobAbort
  <2>1. notices' = notices /\ failed' = TRUE /\ job'.at = "idle"
    BY <1>8 DEF JobAbort, JobIdle, inbox
  <2> QED BY <1>4, <2>1 DEF JInv, RowsOfRun, Told, ToldOnce
<1> QED BY <1>2, <1>5, <1>6, <1>7, <1>8 DEF JobStep

LEMMA NextKeepsTold ==
  ASSUME OInv, AlertsAssumption, [Next]_vars
  PROVE  JInv'
<1>1. raced => raced'
  BY NextKeepsAlone DEF OInv
<1>2. ASSUME NEW w \in Workers, WorkerStep(w) PROVE JInv'
  <2>1. Alerts' = Alerts /\ \A i \in Alerts : notices'[i] = notices[i]
    BY <1>2, WorkersAlertNobody DEF OInv
  <2>2. /\ UNCHANGED <<job, failed>> /\ processed' \subseteq processed /\ events' \subseteq events
        /\ processed \cap events' \subseteq processed'
    BY <1>2, WorkersWrite DEF WorkerWrites, DeleteEventRows
  <2> QED BY <1>1, <2>1, <2>2, OthersKeepTold DEF OInv
<1>3. CASE (OtherStep \/ UNCHANGED vars) /\ ~JobStep
  <2>1. UNCHANGED <<notices, events, job, processed, failed>>
    BY <1>3, OthersWrite
  <2>2. Alerts' = Alerts
    BY <2>1 DEF Alerts
  <2> QED BY <1>1, <2>1, <2>2, OthersKeepTold DEF OInv
<1>4. CASE JobStep
  BY <1>4, JobKeepsTold
<1> QED BY <1>2, <1>3, <1>4 DEF Next, WorkerStep, OtherStep, ShortStep

\* Unless a run of the job fails, a join is alerted once that its event is live, however
\* joins, departures, deletions and runs interleave; and an attendee is, whose joins may be
\* two, as long as requests run one at a time.
THEOREM AlertedOnce == ASSUME AlertsAssumption PROVE Spec => []OneAlertPerGoLive
<1>1. ASSUME Init PROVE OInv
  <2>1. DOMAIN notices = {} /\ job.at = "idle" /\ job.events = {} /\ \A w \in Workers : pc[w] = "idle"
    BY <1>1 DEF Init, JobIdle
  <2>2. Alerts = {}
    BY <2>1 DEF Alerts
  <2>3. joins = {[id |-> 0, user |-> m[1], event |-> m[2]] : m \in Members}
    BY <1>1 DEF Init
  <2>4. JoinedOnce /\ Alone
    BY <2>1, <2>3 DEF JoinedOnce, Alone, Idle
  <2>5. JInv
    BY <2>1, <2>2 DEF JInv, RowsOfRun, AlertsOfJoins, Told, ToldOnce, OneAlertPerGoLive
  <2> QED BY <1>1, <2>4, <2>5, InitTypes DEF OInv
<1>2. OInv /\ [Next]_vars => OInv'
  BY NextKeepsTypes, NextKeepsAlone, NextKeepsJoined, NextKeepsTold DEF OInv
<1>3. OInv => OneAlertPerGoLive
  BY DEF OInv, JInv
<1> QED BY <1>1, <1>2, <1>3, PTL DEF Spec

-----------------------------------------------------------------------------
(* Devices                                                                 *)

\* A device has one row, and rows are numbered.
DevicesApart ==
  /\ \A r \in devices : r.id <= lastRow
  /\ \A r, s \in devices : r.id = s.id \/ r.token = s.token => r = s

\* What a registration has found.
Registering ==
  ~raced => \A w \in Workers :
    /\ pc[w] = "device_move" => \E d \in devices : d.token = req[w].token /\ d.id = req[w].row
    /\ pc[w] = "device_insert" => \A d \in devices : d.token # req[w].token
    /\ pc[w] = "registered" => \E d \in devices : d.token = req[w].token /\ d.user = req[w].user

DInv == TInv /\ Alone /\ DevicesApart /\ Registering

LEMMA NextKeepsDevicesApart ==
  ASSUME DInv, AlertsAssumption, [Next]_vars
  PROVE  DevicesApart'
<1>1. devices \subseteq DeviceRow /\ lastRow \in Nat
  BY DEF DInv, TInv, TypeOK
<1>2. ASSUME devices' \subseteq devices, lastRow' = lastRow PROVE DevicesApart'
  BY <1>2 DEF DInv, DevicesApart
<1>3. ASSUME NEW w \in Workers, WorkerStep(w) PROVE DevicesApart'
  <2>1. CASE DeviceMove(w)
    <3>1. devices' = {IF r.id = req[w].row THEN [r EXCEPT !.user = req[w].user] ELSE r : r \in devices}
          /\ lastRow' = lastRow
      BY <2>1 DEF DeviceMove
    <3>2. \A s \in devices' : \E r \in devices : s.id = r.id /\ s.token = r.token
                                /\ s = (IF r.id = req[w].row THEN [r EXCEPT !.user = req[w].user] ELSE r)
      BY <1>1, <3>1 DEF DeviceRow
    <3> QED BY <3>1, <3>2 DEF DInv, DevicesApart
  <2>2. CASE DeviceInsert(w)
    <3>1. CASE devices' = devices /\ lastRow' = lastRow + 1
      BY <1>1, <3>1 DEF DInv, DevicesApart, DeviceRow
    <3>2. CASE /\ lastRow' = lastRow + 1 /\ \A r \in devices : r.token # req[w].token
               /\ devices' = devices \cup {[id |-> lastRow', token |-> req[w].token, user |-> req[w].user]}
      <4>1. PICK n : n = [id |-> lastRow', token |-> req[w].token, user |-> req[w].user]
        OBVIOUS
      <4>2. n.id = lastRow + 1 /\ n.token = req[w].token /\ devices' = devices \cup {n}
        BY <3>2, <4>1
      <4>3. \A r \in devices : r.id \in Nat /\ r.id <= lastRow /\ r.id # n.id /\ r.token # n.token
        BY <1>1, <3>2, <4>2 DEF DInv, DevicesApart, DeviceRow
      <4> QED BY <1>1, <3>2, <4>2, <4>3 DEF DInv, DevicesApart
    <3> QED BY <2>2, <3>1, <3>2 DEF DeviceInsert
  <2> QED BY <1>2, <1>3, <2>1, <2>2, WorkersWrite DEF WorkerWrites
<1>4. CASE OtherStep \/ UNCHANGED vars
  <2>1. devices' \subseteq devices /\ lastRow' = lastRow
    BY <1>4, OthersWrite
  <2> QED BY <1>2, <2>1
<1> QED BY <1>3, <1>4 DEF Next, WorkerStep, OtherStep, ShortStep

LEMMA NextKeepsRegistering ==
  ASSUME DInv, AlertsAssumption, [Next]_vars
  PROVE  Registering'
<1>1. ASSUME NEW w \in Workers, WorkerStep(w) PROVE Registering'
  <2>1. PICK l, r : Goes(w, l, r)
    BY <1>1, StepGoes DEF AlertsAssumption, DInv
  <2>2. \A v \in Workers : /\ pc'[v] = IF v = w THEN l ELSE pc[v]
                           /\ req'[v] = IF v = w THEN r ELSE req[v]
    BY <2>1, Moves DEF Goes, DInv
  <2>3. (raced => raced') /\ (~raced' => \A v \in Workers : v # w => Idle(v))
    BY <1>1, NextKeepsAlone DEF DInv
  <2>4. ASSUME l \in {"device_move", "device_insert"} PROVE devices' = devices
    <3>1. pc[w] = "device_read"
      BY <2>1, <2>4 DEF Goes, At
    <3> QED BY <1>1, <3>1, WorkersWrite DEF WorkerWrites, DeviceMove, DeviceInsert, At
  <2>5. ASSUME ~raced', l = "registered"
        PROVE  \E d \in devices' : d.token = r.token /\ d.user = r.user
    <3>1. CASE /\ At(w, "device_move") /\ r = req[w]
               /\ devices' = {IF d.id = r.row THEN [d EXCEPT !.user = r.user] ELSE d : d \in devices}
      <4>1. PICK d \in devices : d.token = r.token /\ d.id = r.row
        BY <2>3, <2>5, <3>1 DEF DInv, Registering, At
      <4>2. PICK e : e = [d EXCEPT !.user = r.user]
        OBVIOUS
      <4>3. e \in devices'
        BY <3>1, <4>1, <4>2
      <4>4. e.token = r.token /\ e.user = r.user
        BY <4>1, <4>2 DEF DInv, TInv, TypeOK, DeviceRow
      <4> QED BY <4>3, <4>4
    <3>2. CASE devices' = devices \cup {[id |-> lastRow', token |-> r.token, user |-> r.user]}
      <4>1. [id |-> lastRow', token |-> r.token, user |-> r.user] \in devices'
        BY <3>2
      <4> QED BY <4>1
    <3> QED BY <2>1, <2>5, <3>1, <3>2 DEF Goes
  <2>6. ASSUME ~raced'
        PROVE  /\ l = "device_move" => \E d \in devices' : d.token = r.token /\ d.id = r.row
               /\ l = "device_insert" => \A d \in devices' : d.token # r.token
    BY <2>1, <2>4 DEF Goes
  <2> QED BY <2>2, <2>3, <2>5, <2>6 DEF Registering, Idle
<1>2. CASE SignOut
  <2>1. raced' = (raced \/ \E w \in Workers : ~Idle(w)) /\ pc' = pc
    BY <1>2 DEF SignOut, Overlap, workers
  <2> QED BY <2>1 DEF Registering, Idle
<1>3. CASE (OtherStep \/ UNCHANGED vars) /\ ~SignOut
  <2>1. UNCHANGED <<devices, pc, req>> /\ (raced => raced')
    BY <1>3, OthersWrite
  <2> QED BY <2>1 DEF DInv, Registering
<1> QED BY <1>1, <1>2, <1>3 DEF Next, WorkerStep, OtherStep, ShortStep

LEMMA RegisteredAreMine == ASSUME DInv PROVE RegisteredIsMine
<1> SUFFICES ASSUME ~raced, NEW w \in Workers, pc[w] = "registered"
             PROVE  {r.user : r \in {r \in devices : r.token = req[w].token}} = {req[w].user}
  BY DEF RegisteredIsMine
<1>1. PICK d \in devices : d.token = req[w].token /\ d.user = req[w].user
  BY DEF DInv, Registering
<1>2. \A r \in devices : r.token = req[w].token => r = d
  BY <1>1 DEF DInv, DevicesApart
<1> QED BY <1>1, <1>2

\* As long as requests run one at a time, a device whose registration is confirmed is
\* the caller's.
THEOREM ConfirmedDevicesAreMine == ASSUME AlertsAssumption PROVE Spec => []RegisteredIsMine
<1>1. Init => DInv
  BY InitTypes DEF Init, DInv, Alone, Idle, DevicesApart, Registering
<1>2. DInv /\ [Next]_vars => DInv'
  BY NextKeepsTypes, NextKeepsAlone, NextKeepsDevicesApart, NextKeepsRegistering DEF DInv
<1>3. DInv => RegisteredIsMine
  BY RegisteredAreMine
<1> QED BY <1>1, <1>2, <1>3, PTL DEF Spec

-----------------------------------------------------------------------------
(* The dispatcher                                                          *)

\* Whose devices and wishes of now are among those since the notification.
Current ==
  \A i \in DOMAIN notices :
    /\ {r.token : r \in {r \in devices : r.user = notices[i].user}} \subseteq held[i]
    /\ /\ notices[i].user \in accounts
       /\ IF notices[i].event = Nil THEN prefs[notices[i].user].missed ELSE prefs[notices[i].user].geofence
       => {c \in Channels : prefs[notices[i].user][c]} \subseteq wanted[i]

\* What a goroutine has read was true at some time since.
DispatchesKnow ==
  \A d \in dispatches :
    /\ d.at # "prefs" => d.by \subseteq wanted[d.id]
    /\ d.at = "mail" => "mail" \in d.by
    /\ d.at = "push" => "push" \in d.by /\ d.tokens \subseteq held[d.id]

WInv == TInv /\ Current /\ DispatchesKnow /\ DeliveredAsWanted

LEMMA NumbersOfNotices ==
  ASSUME TInv, MaxNotices \in Nat
  PROVE  DOMAIN notices \subseteq 1..MaxNotices
<1>1. DOMAIN notices = 1..Len(notices) /\ Len(notices) \in Nat /\ Len(notices) <= MaxNotices
  BY DEF TInv, TypeOK
<1> QED BY <1>1

LEMMA NextKeepsCurrent ==
  ASSUME WInv, TInv', AlertsAssumption, [Next]_vars
  PROVE  /\ Current'
         /\ \A i \in DOMAIN notices : held[i] \subseteq held'[i] /\ wanted[i] \subseteq wanted'[i]
<1>1. DOMAIN notices \subseteq 1..MaxNotices
  BY NumbersOfNotices DEF WInv, AlertsAssumption
<1>2. DOMAIN notices' \subseteq 1..MaxNotices
  <2>1. DOMAIN notices' = 1..Len(notices') /\ Len(notices') \in Nat /\ Len(notices') <= MaxNotices
    BY DEF TInv, TypeOK
  <2> QED BY <2>1 DEF AlertsAssumption
<1>3. CASE Observe
  BY <1>1, <1>2, <1>3, Observed DEF Current
<1>4. CASE UNCHANGED vars
  BY <1>4 DEF vars, attendees, inbox, observed, WInv, Current
<1> QED BY <1>3, <1>4 DEF Next

LEMMA DeliverKeepsWanted ==
  ASSUME WInv, Deliver, AlertsAssumption,
         \A i \in DOMAIN notices : held[i] \subseteq held'[i] /\ wanted[i] \subseteq wanted'[i]
  PROVE  DispatchesKnow' /\ DeliveredAsWanted'
<1>1. PICK d \in dispatches : Dispatched(d)
  BY Delivers
<1>2. /\ d \in Dispatch /\ d.id \in DOMAIN notices
      /\ d.at # "prefs" => d.by \subseteq wanted[d.id]
      /\ d.at = "mail" => "mail" \in d.by
      /\ d.at = "push" => "push" \in d.by /\ d.tokens \subseteq held[d.id]
  BY DEF WInv, TInv, TypeOK, DispatchesKnow
<1>3. \A e \in dispatches : /\ e.at # "prefs" => e.by \subseteq wanted'[e.id]
                            /\ e.at = "mail" => "mail" \in e.by
                            /\ e.at = "push" => "push" \in e.by /\ e.tokens \subseteq held'[e.id]
  BY DEF WInv, TInv, TypeOK, DispatchesKnow
<1>4. \A x \in sent : IF x[2] = "mail" THEN "mail" \in wanted'[x[1]]
                      ELSE x[2] \in held'[x[1]] /\ "push" \in wanted'[x[1]]
  <2>1. \A x \in sent : x[1] \in DOMAIN notices
    BY DEF WInv, TInv, TypeOK
  <2> QED BY <2>1 DEF WInv, DeliveredAsWanted
<1>5. ASSUME NEW e, Becomes(d, e),
             e.at # "prefs" => e.by \subseteq wanted'[e.id],
             e.at = "mail" => "mail" \in e.by,
             e.at = "push" => "push" \in e.by /\ e.tokens \subseteq held'[e.id]
      PROVE  DispatchesKnow'
  BY <1>3, <1>5 DEF Becomes, DispatchesKnow
<1>6. ASSUME sent' = sent PROVE DeliveredAsWanted'
  BY <1>4, <1>6 DEF DeliveredAsWanted
<1>7. CASE dispatches' = dispatches \ {d} /\ sent' = sent
  BY <1>3, <1>6, <1>7 DEF DispatchesKnow
<1>8. CASE /\ d.at = "prefs" /\ sent' = sent
           /\ notices[d.id].user \in accounts
           /\ ShouldDeliver(notices[d.id].type, prefs[notices[d.id].user])
           /\ Becomes(d, [d EXCEPT !.at = "user", !.by = {c \in Channels : prefs[notices[d.id].user][c]}])
  <2>1. {c \in Channels : prefs[notices[d.id].user][c]} \subseteq wanted[d.id]
    BY <1>2, <1>8 DEF WInv, TInv, Current, KindsFit, ShouldDeliver
  <2>2. PICK e : e = [d EXCEPT !.at = "user", !.by = {c \in Channels : prefs[notices[d.id].user][c]}]
    OBVIOUS
  <2>3. e.at = "user" /\ e.id = d.id /\ e.by = {c \in Channels : prefs[notices[d.id].user][c]}
    BY <1>2, <2>2 DEF Dispatch
  <2> QED BY <1>2, <1>5, <1>6, <1>8, <2>1, <2>2, <2>3
<1>9. CASE /\ d.at = "user" /\ sent' = sent
           /\ Becomes(d, [d EXCEPT !.at = IF "mail" \in d.by THEN "mail" ELSE "list"])
  <2>1. PICK e : e = [d EXCEPT !.at = IF "mail" \in d.by THEN "mail" ELSE "list"]
    OBVIOUS
  <2>2. e.at = (IF "mail" \in d.by THEN "mail" ELSE "list") /\ e.id = d.id /\ e.by = d.by
    BY <1>2, <2>1 DEF Dispatch
  <2>3. e.by \subseteq wanted'[e.id]
    BY <1>2, <1>3, <1>9, <2>2
  <2>4. e.at # "push" /\ (e.at = "mail" => "mail" \in e.by)
    BY <2>2
  <2>5. DispatchesKnow'
    BY <1>5, <1>9, <2>1, <2>3, <2>4
  <2> QED BY <1>6, <1>9, <2>5
<1>10. CASE /\ d.at = "mail" /\ sent' \in {sent, sent \cup {<<d.id, "mail">>}}
            /\ Becomes(d, [d EXCEPT !.at = "list"])
  <2>1. PICK e : e = [d EXCEPT !.at = "list"]
    OBVIOUS
  <2>2. e.at = "list" /\ e.id = d.id /\ e.by = d.by
    BY <1>2, <2>1 DEF Dispatch
  <2>3. "mail" \in wanted'[d.id]
    BY <1>2, <1>10
  <2>4. DeliveredAsWanted'
    BY <1>4, <1>10, <2>3 DEF DeliveredAsWanted
  <2> QED BY <1>2, <1>5, <1>10, <2>1, <2>2, <2>4
<1>11. CASE /\ d.at = "list" /\ "push" \in d.by /\ sent' = sent
            /\ Becomes(d, [d EXCEPT !.at = "push",
                             !.tokens = {r.token : r \in {r \in devices : r.user = notices[d.id].user}}])
  <2>1. PICK e : e = [d EXCEPT !.at = "push",
                             !.tokens = {r.token : r \in {r \in devices : r.user = notices[d.id].user}}]
    OBVIOUS
  <2>2. /\ e.at = "push" /\ e.id = d.id /\ e.by = d.by
        /\ e.tokens = {r.token : r \in {r \in devices : r.user = notices[d.id].user}}
    BY <1>2, <2>1 DEF Dispatch
  <2>3. e.tokens \subseteq held[d.id]
    BY <1>2, <2>2 DEF WInv, Current
  <2> QED BY <1>2, <1>5, <1>6, <1>11, <2>1, <2>2, <2>3
<1>12. CASE /\ d.at = "push"
            /\ \E t \in d.tokens : /\ Becomes(d, [d EXCEPT !.tokens = @ \ {t}])
                                   /\ sent' \in {sent, sent \cup {<<d.id, t>>}}
  <2>1. PICK t \in d.tokens : /\ Becomes(d, [d EXCEPT !.tokens = @ \ {t}])
                              /\ sent' \in {sent, sent \cup {<<d.id, t>>}}
    BY <1>12
  <2>2. PICK e : e = [d EXCEPT !.tokens = @ \ {t}]
    OBVIOUS
  <2>3. e.at = "push" /\ e.id = d.id /\ e.by = d.by /\ e.tokens = d.tokens \ {t}
    BY <1>2, <1>12, <2>2 DEF Dispatch
  <2>4. t # "mail" /\ t \in held'[d.id] /\ "push" \in wanted'[d.id]
    BY <1>2, <1>12, <2>1 DEF Dispatch, AlertsAssumption, Channels
  <2>5. DeliveredAsWanted'
    BY <1>4, <2>1, <2>4 DEF DeliveredAsWanted
  <2> QED BY <1>2, <1>5, <1>12, <2>1, <2>2, <2>3, <2>5
<1> QED BY <1>1, <1>7, <1>8, <1>9, <1>10, <1>11, <1>12 DEF Dispatched

LEMMA NextKeepsWanted ==
  ASSUME WInv, TInv', AlertsAssumption, [Next]_vars
  PROVE  DispatchesKnow' /\ DeliveredAsWanted'
<1>1. \A i \in DOMAIN notices : held[i] \subseteq held'[i] /\ wanted[i] \subseteq wanted'[i]
  BY NextKeepsCurrent
<1>2. ASSUME sent' = sent, \A d \in dispatches' \ dispatches : d.at = "prefs"
      PROVE  DispatchesKnow' /\ DeliveredAsWanted'
  <2>1. \A x \in sent : x[1] \in DOMAIN notices
    BY DEF WInv, TInv, TypeOK
  <2>2. \A d \in dispatches : d.id \in DOMAIN notices
    BY DEF WInv, TInv, TypeOK
  <2>3. DeliveredAsWanted'
    BY <1>1, <1>2, <2>1 DEF WInv, DeliveredAsWanted
  <2>4. DispatchesKnow'
    BY <1>1, <1>2, <2>2 DEF WInv, DispatchesKnow
  <2> QED BY <2>3, <2>4
<1>3. CASE Deliver
  BY <1>1, <1>3, DeliverKeepsWanted
<1>4. ASSUME NEW n \in Notice, Notify(n), sent' = sent
      PROVE  \A d \in dispatches' \ dispatches : d.at = "prefs"
  BY <1>4, NotifiedDispatches DEF WInv, AlertsAssumption
<1>5. CASE JobStep
  <2>1. sent' = sent
    BY <1>5 DEF JobStep
  <2>2. CASE JobAlert
    BY <1>2, <1>4, <2>1, <2>2, AlertWritten DEF WInv
  <2>3. CASE JobFind \/ JobList \/ JobMark \/ JobAbort
    BY <1>2, <2>1, <2>3 DEF JobFind, JobList, JobMark, JobAbort
  <2> QED BY <1>5, <2>2, <2>3 DEF JobStep
<1>6. CASE (OtherStep \/ UNCHANGED vars) /\ ~Deliver /\ ~JobStep
  BY <1>2, <1>6, OthersWrite
<1>7. ASSUME NEW w \in Workers, WorkerStep(w) PROVE DispatchesKnow' /\ DeliveredAsWanted'
  <2>1. sent' = sent /\ (dispatches' = dispatches \/ DispatchMine(w))
    BY <1>7, WorkersWrite DEF WorkerWrites
  <2>2. CASE DispatchMine(w)
    <3>1. PICK u \in Users : Notify([user |-> u, event |-> Nil, type |-> "missed_check_in", join |-> Nil])
      BY <2>2 DEF DispatchMine, WInv, TInv, TypeOK
    <3>2. [user |-> u, event |-> Nil, type |-> "missed_check_in", join |-> Nil] \in Notice
      BY DEF Notice
    <3> QED BY <1>2, <1>4, <2>1, <3>1, <3>2
  <2>3. CASE dispatches' = dispatches
    BY <1>2, <2>1, <2>3
  <2> QED BY <2>1, <2>2, <2>3
<1> QED BY <1>3, <1>5, <1>6, <1>7 DEF Next, WorkerStep, OtherStep, ShortStep

\* However late the dispatcher acts on what it read, an attendee is sent only what he
\* wanted that way since the notification, and on devices that were his since.
THEOREM OnlyWantedIsDelivered == ASSUME AlertsAssumption PROVE Spec => []DeliveredAsWanted
<1>1. ASSUME Init PROVE WInv
  <2>1. DOMAIN notices = {} /\ dispatches = {} /\ sent = {}
    BY <1>1 DEF Init
  <2>2. Current
    BY <2>1 DEF Current
  <2>3. DispatchesKnow /\ DeliveredAsWanted
    BY <2>1 DEF DispatchesKnow, DeliveredAsWanted
  <2> QED BY <1>1, <2>2, <2>3, InitTypes DEF WInv
<1>2. WInv /\ [Next]_vars => WInv'
  BY NextKeepsTypes, NextKeepsCurrent, NextKeepsWanted DEF WInv
<1>3. WInv => DeliveredAsWanted
  BY DEF WInv
<1> QED BY <1>1, <1>2, <1>3, PTL DEF Spec
=============================================================================
