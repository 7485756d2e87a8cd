-------------------------------- MODULE Alerts --------------------------------
(***************************************************************************)
(* How attendees are told.  The go-live job writes an alert for each row   *)
(* of event_joins and starts a goroutine that mails it and pushes it to    *)
(* the devices of the attendee; the app also polls for the alerts that are *)
(* not delivered yet.  Attendees join and leave, set what they want to be  *)
(* told, register and sign out devices, and delete their account           *)
(* meanwhile; an event that is deleted takes its alerts along.  When       *)
(* events are live, and what else the job does, is in Attendance.          *)
(***************************************************************************)
EXTENDS Naturals, Sequences, FiniteSets, Requests

CONSTANTS
  Users,      \* attendees
  Events,     \* events
  Members,    \* who has joined what at first
  Tokens,     \* device tokens
  Prefs,      \* preferences that attendees choose from
  Handlers,   \* the handlers that clients call
  Notifier,   \* whether the server has a dispatcher
  MaxNotices, \* bound on notifications
  MaxRows,    \* bound on rows of device tokens
  MaxJoins,   \* bound on joins
  Nil         \* no event

\* What an attendee may be told of, and by which way; the sound is the app's affair.
PrefRow == [geofence : BOOLEAN, missed : BOOLEAN, mail : BOOLEAN, push : BOOLEAN]

Channels == {"mail", "push"}

\* What an instance has to satisfy.
AlertsAssumption ==
  /\ Nil \notin Events
  /\ Tokens \cap Channels = {} /\ Members \subseteq Users \X Events
  /\ Prefs \subseteq PrefRow /\ Notifier \in BOOLEAN
  /\ {MaxNotices, MaxRows, MaxJoins} \subseteq Nat

VARIABLES
  accounts,   \* users: those who have not deleted their account
  prefs,      \* users.notify_*
  devices,    \* user_device_tokens
  lastRow,    \* the last id of a row of devices
  events,     \* events
  live,       \* those whose window it is
  joins,      \* event_joins
  lastJoin,   \* the last id of a row of joins, but for the members
  notices,    \* every notification there was; those of events are rows of user_geofence_alerts
  delivered,  \* the alerts whose delivered_at is set
  removed,    \* the alerts whose row was deleted
  processed,  \* the events whose go_live_processed_at is set
  job,        \* the go-live job
  dispatches, \* goroutines that deliver a notification
  sent,       \* mails and pushes sent, as pairs of a notification and a channel or token
  answered,   \* no column: how many answers contained the alert, up to two
  lost,       \* no column: alerts of an answer that did not arrive
  held,       \* no column: the tokens that were the attendee's at some time since the notification
  wanted,     \* no column: the channels that he wanted it by at some time since
  failed,     \* no column: a run of the job has failed
  raced       \* no column: two requests have been in flight at the same time

attendees == <<accounts, prefs, devices, lastRow>>
gatherings == <<events, live, joins, lastJoin>>
inbox == <<notices, delivered, removed, processed>>
delivery == <<job, dispatches, sent>>
history == <<answered, lost, failed, raced>>
observed == <<held, wanted>>
vars == <<attendees, gatherings, inbox, delivery, history, observed, workers>>

DeviceRow == [id : Nat, token : Tokens, user : Users]
JoinRow == [id : Nat, user : Users, event : Events]

\* The join that an alert is written for is no column.
Notice == [user : Users, event : Events \cup {Nil}, type : {"event_live", "missed_check_in"},
           join : JoinRow \cup {Nil}]
Dispatch == [id : Nat, at : {"prefs", "user", "mail", "list", "push"}, by : SUBSET Channels,
             tokens : SUBSET Tokens]

JobIdle == [at |-> "idle", events |-> {}, event |-> Nil, rows |-> {}]

\* The alerts there ever were; user_geofence_alerts has those that are not removed.
Alerts == {i \in DOMAIN notices : notices[i].event # Nil}
AlertsOf(u) == {i \in Alerts : notices[i].user = u} \ removed

\* row is the device row that was found, id a notification, alerts those that were read.
NoRequest == [user |-> Nil, event |-> Nil, token |-> Nil, row |-> 0, id |-> 0, alerts |-> {}]

Overlap == raced' = (raced \/ \E w \in Workers : ~Idle(w))
Begin(w, first, r) == Start(w, first, r) /\ Overlap

Reply(w) == Step(w, "idle", NoRequest)

Init ==
  /\ accounts = Users
  /\ prefs = [u \in Users |-> [geofence |-> TRUE, missed |-> TRUE, mail |-> TRUE, push |-> FALSE]]
  /\ devices = {} /\ lastRow = 0
  /\ events = Events /\ live = Events
  /\ joins = {[id |-> 0, user |-> m[1], event |-> m[2]] : m \in Members} /\ lastJoin = 0
  /\ notices = <<>> /\ delivered = {} /\ removed = {} /\ processed = {}
  /\ job = JobIdle /\ dispatches = {} /\ sent = {}
  /\ answered = [i \in 1..MaxNotices |-> 0] /\ lost = {}
  /\ held = [i \in 1..MaxNotices |-> {}] /\ wanted = [i \in 1..MaxNotices |-> {}]
  /\ failed = FALSE /\ raced = FALSE
  /\ pc = [w \in Workers |-> "idle"] /\ req = [w \in Workers |-> NoRequest]

-----------------------------------------------------------------------------
(* The dispatcher.  A notification is handed to it as a goroutine.         *)

Notify(n) ==
  /\ Len(notices) < MaxNotices
  /\ notices' = Append(notices, n)
  /\ dispatches' =
       IF Notifier
       THEN dispatches \cup {[id |-> Len(notices'), at |-> "prefs", by |-> {}, tokens |-> {}]}
       ELSE dispatches

ShouldDeliver(type, p) == IF type = "missed_check_in" THEN p.missed ELSE p.geofence

Becomes(d, e) == dispatches' = (dispatches \ {d}) \cup {e}

\* The preferences are read, then the account.
DispatchPrefs(d) ==
  LET u == notices[d.id].user
  IN  /\ d.at = "prefs"
      /\ IF u \in accounts /\ ShouldDeliver(notices[d.id].type, prefs[u])
         THEN Becomes(d, [d EXCEPT !.at = "user", !.by = {c \in Channels : prefs[u][c]}])
         ELSE dispatches' = dispatches \ {d}
      /\ UNCHANGED sent

DispatchUser(d) ==
  /\ d.at = "user"
  /\ IF notices[d.id].user \in accounts
     THEN Becomes(d, [d EXCEPT !.at = IF "mail" \in d.by THEN "mail" ELSE "list"])
     ELSE dispatches' = dispatches \ {d}
  /\ UNCHANGED sent

\* A mail that fails is logged, and so is a push below.
DispatchMail(d) ==
  /\ d.at = "mail"
  /\ Becomes(d, [d EXCEPT !.at = "list"])
  /\ sent' \in {sent, sent \cup {<<d.id, "mail">>}}

\* Mutation: whose the tokens are is left out.
DispatchListAll(d) ==
  /\ d.at = "list"
  /\ IF "push" \in d.by
     THEN Becomes(d, [d EXCEPT !.at = "push", !.tokens = {r.token : r \in devices}])
     ELSE dispatches' = dispatches \ {d}
  /\ UNCHANGED sent

DispatchList(d) ==
  /\ d.at = "list"
  /\ IF "push" \in d.by
     THEN Becomes(d, [d EXCEPT !.at = "push",
                               !.tokens = {r.token : r \in {r \in devices : r.user = notices[d.id].user}}])
     ELSE dispatches' = dispatches \ {d}
  /\ UNCHANGED sent

DispatchPush(d) ==
  /\ d.at = "push"
  /\ IF d.tokens = {}
     THEN dispatches' = dispatches \ {d} /\ UNCHANGED sent
     ELSE \E t \in d.tokens :
            /\ Becomes(d, [d EXCEPT !.tokens = @ \ {t}])
            /\ sent' \in {sent, sent \cup {<<d.id, t>>}}

\* A read fails, or the process restarts.
DispatchDrop(d) == dispatches' = dispatches \ {d} /\ UNCHANGED sent

Deliver ==
  /\ \E d \in dispatches :
       \/ DispatchPrefs(d) \/ DispatchUser(d) \/ DispatchMail(d)
       \/ DispatchList(d) \/ DispatchPush(d) \/ DispatchDrop(d)
  /\ UNCHANGED <<attendees, gatherings, inbox, job, history, workers>>

-----------------------------------------------------------------------------
(* The go-live job finds the live events that are not marked.  For one     *)
(* after the other the joins are listed, an alert is inserted for each     *)
(* row, and the event is marked.                                           *)

\* Mutation: an event is alerted again as long as it is live.
JobFindAgain ==
  /\ job.at = "idle"
  /\ live # {}
  /\ job' = [JobIdle EXCEPT !.at = "next", !.events = live]
  /\ UNCHANGED <<inbox, dispatches, failed>>

JobFind ==
  /\ job.at = "idle"
  /\ live \ processed # {}
  /\ job' = [JobIdle EXCEPT !.at = "next", !.events = live \ processed]
  /\ UNCHANGED <<inbox, dispatches, failed>>

\* The event may have ended or be deleted by now.
JobList ==
  /\ job.at = "next"
  /\ \E e \in job.events :
        job' = [at |-> "alert", events |-> job.events \ {e}, event |-> e,
                rows |-> {j \in joins : j.event = e}]
  /\ UNCHANGED <<inbox, dispatches, failed>>

JobAlert ==
  /\ job.at = "alert"
  /\ \E j \in job.rows :
        /\ Notify([user |-> j.user, event |-> job.event, type |-> "event_live", join |-> j])
        /\ job' = [job EXCEPT !.rows = @ \ {j}]
  /\ UNCHANGED <<delivered, removed, processed, failed>>

\* The UPDATE finds no row when the event was deleted meanwhile.
JobMark ==
  /\ job.at = "alert" /\ job.rows = {}
  /\ processed' = processed \cup ({job.event} \cap events)
  /\ job' = IF job.events = {} THEN JobIdle ELSE [JobIdle EXCEPT !.at = "next", !.events = job.events]
  /\ UNCHANGED <<notices, delivered, removed, dispatches, failed>>

\* A statement fails or the process restarts: the next run begins anew.
JobAbort ==
  /\ job.at # "idle"
  /\ job' = JobIdle /\ failed' = TRUE
  /\ UNCHANGED <<inbox, dispatches>>

JobStep ==
  /\ JobFind \/ JobList \/ JobAlert \/ JobMark \/ JobAbort
  /\ UNCHANGED <<attendees, gatherings, sent, answered, lost, raced, workers>>

-----------------------------------------------------------------------------
(* GET /v1/me/subscribed-events: besides the events, the alerts that are   *)
(* not delivered yet.                                                      *)

PollOf(w, u) ==
  /\ "Poll" \in Handlers
  /\ u \in accounts
  /\ Begin(w, "poll_read", [NoRequest EXCEPT !.user = u])
  /\ UNCHANGED <<attendees, gatherings, inbox, delivery, answered, lost, failed>>

Poll(w) == \E u \in Users : PollOf(w, u)

\* Mutation: the alerts of an event are returned once it is processed.
PollReadProcessed(w) ==
  LET ids == {i \in AlertsOf(req[w].user) : notices[i].event \in processed} \ delivered
  IN  /\ At(w, "poll_read")
      /\ Step(w, IF ids = {} THEN "poll_answer" ELSE "poll_mark", [req[w] EXCEPT !.alerts = ids])
      /\ UNCHANGED <<attendees, gatherings, inbox, delivery, history>>

PollRead(w) ==
  LET ids == AlertsOf(req[w].user) \ delivered
  IN  /\ At(w, "poll_read")
      /\ Step(w, IF ids = {} THEN "poll_answer" ELSE "poll_mark", [req[w] EXCEPT !.alerts = ids])
      /\ UNCHANGED <<attendees, gatherings, inbox, delivery, history>>

\* Mutation: all that is not delivered is marked, read or not.
PollMarkUndelivered(w) ==
  /\ At(w, "poll_mark")
  /\ delivered' = delivered \cup AlertsOf(req[w].user)
  /\ Goto(w, "poll_answer")
  /\ UNCHANGED <<attendees, gatherings, notices, removed, processed, delivery, history>>

\* Mutation: the alerts are marked by the next request of the app.
PollMarkLater(w) ==
  /\ At(w, "poll_mark")
  /\ Goto(w, "poll_answer")
  /\ UNCHANGED <<attendees, gatherings, inbox, delivery, history>>

PollMark(w) ==
  /\ At(w, "poll_mark")
  /\ delivered' = delivered \cup (req[w].alerts \ removed)
  /\ Goto(w, "poll_answer")
  /\ UNCHANGED <<attendees, gatherings, notices, removed, processed, delivery, history>>

PollAnswer(w) ==
  /\ At(w, "poll_answer")
  /\ answered' = [i \in 1..MaxNotices |->
                    IF i \in req[w].alerts /\ answered[i] < 2 THEN answered[i] + 1 ELSE answered[i]]
  /\ Reply(w)
  /\ UNCHANGED <<attendees, gatherings, inbox, delivery, lost, failed, raced>>

-----------------------------------------------------------------------------
(* POST and DELETE /v1/me/device-tokens.  A token has one row.             *)

Register(w) ==
  /\ "Register" \in Handlers
  /\ \E u \in accounts, t \in Tokens :
        Begin(w, "device_read", [NoRequest EXCEPT !.user = u, !.token = t])
  /\ UNCHANGED <<attendees, gatherings, inbox, delivery, answered, lost, failed>>

DeviceRead(w) ==
  LET rows == {r \in devices : r.token = req[w].token}
  IN  /\ At(w, "device_read")
      /\ \/ rows = {} /\ Goto(w, "device_insert")
         \/ \E r \in rows : Step(w, "device_move", [req[w] EXCEPT !.row = r.id])
      /\ UNCHANGED <<attendees, gatherings, inbox, delivery, history>>

DeviceChange(w) == UNCHANGED <<accounts, prefs, gatherings, inbox, delivery, history>>

\* Mutation: the row is touched but keeps its owner.
DeviceMoveKeepsOwner(w) ==
  /\ At(w, "device_move")
  /\ Goto(w, "registered")
  /\ UNCHANGED <<devices, lastRow>> /\ DeviceChange(w)

\* One UPDATE by id, which may find no row any more.
DeviceMove(w) ==
  /\ At(w, "device_move")
  /\ devices' = {IF r.id = req[w].row THEN [r EXCEPT !.user = req[w].user] ELSE r : r \in devices}
  /\ Goto(w, "registered")
  /\ UNCHANGED lastRow /\ DeviceChange(w)

\* uniqueIndex of token.
DeviceInsert(w) ==
  /\ At(w, "device_insert")
  /\ lastRow < MaxRows
  /\ lastRow' = lastRow + 1
  /\ IF \E r \in devices : r.token = req[w].token
     THEN Reply(w) /\ UNCHANGED devices
     ELSE /\ devices' = devices \cup {[id |-> lastRow', token |-> req[w].token, user |-> req[w].user]}
          /\ Goto(w, "registered")
  /\ DeviceChange(w)

Registered(w) ==
  /\ At(w, "registered") /\ Reply(w)
  /\ UNCHANGED <<attendees, gatherings, inbox, delivery, history>>

\* An error of the DELETE is ignored: the answer is the same.
SignOut ==
  /\ "SignOut" \in Handlers /\ SomeWorkerFree
  /\ \E u \in accounts, t \in Tokens : devices' = {r \in devices : ~(r.user = u /\ r.token = t)}
  /\ Overlap
  /\ UNCHANGED <<accounts, prefs, lastRow, gatherings, inbox, delivery, answered, lost, failed, workers>>

-----------------------------------------------------------------------------
(* Preferences, deletion of an account, and notifications that the app     *)
(* asks for itself.                                                        *)

SetPrefs ==
  /\ "SetPrefs" \in Handlers /\ SomeWorkerFree
  /\ \E u \in accounts, p \in Prefs : prefs' = [prefs EXCEPT ![u] = p]
  /\ Overlap
  /\ UNCHANGED <<accounts, devices, lastRow, gatherings, inbox, delivery, answered, lost, failed, workers>>

\* Its joins go with it, its alerts and devices stay.
DeleteAccount ==
  /\ "DeleteAccount" \in Handlers /\ SomeWorkerFree
  /\ \E u \in accounts : accounts' = accounts \ {u} /\ joins' = {j \in joins : j.user # u}
  /\ Overlap
  /\ UNCHANGED <<events, live, lastJoin, prefs, devices, lastRow, inbox, delivery, answered, lost, failed, workers>>

\* POST /v1/me/notifications/dispatch answers when the dispatcher is done.
DispatchMine(w) ==
  /\ "DispatchMine" \in Handlers /\ Notifier
  /\ \E u \in accounts :
        /\ Notify([user |-> u, event |-> Nil, type |-> "missed_check_in", join |-> Nil])
        /\ Begin(w, "dispatching", [NoRequest EXCEPT !.user = u, !.id = Len(notices')])
  /\ UNCHANGED <<attendees, gatherings, delivered, removed, processed, job, sent, answered, lost, failed>>

DispatchedMine(w) ==
  /\ At(w, "dispatching")
  /\ \A d \in dispatches : d.id # req[w].id
  /\ Reply(w)
  /\ UNCHANGED <<attendees, gatherings, inbox, delivery, history>>

-----------------------------------------------------------------------------
(* Joins.  The code to join with is looked up before; it is in JoinTokens. *)

JoinByQR(w) ==
  /\ "Join" \in Handlers
  /\ \E u \in accounts, e \in events :
        Begin(w, "join_read", [NoRequest EXCEPT !.user = u, !.event = e])
  /\ UNCHANGED <<attendees, gatherings, inbox, delivery, answered, lost, failed>>

HasJoined(u, e) == \E j \in joins : j.user = u /\ j.event = e

\* Mutation: the existing join is not looked up.
JoinReadSkipped(w) ==
  /\ At(w, "join_read") /\ Goto(w, "join_insert")
  /\ UNCHANGED <<attendees, gatherings, inbox, delivery, history>>

\* An existing join is returned as it is.
JoinRead(w) ==
  /\ At(w, "join_read")
  /\ IF HasJoined(req[w].user, req[w].event) THEN Reply(w) ELSE Goto(w, "join_insert")
  /\ UNCHANGED <<attendees, gatherings, inbox, delivery, history>>

\* No unique index covers user and event, and no foreign key the event.
JoinInsert(w) ==
  /\ At(w, "join_insert")
  /\ lastJoin < MaxJoins
  /\ lastJoin' = lastJoin + 1
  /\ joins' = joins \cup {[id |-> lastJoin', user |-> req[w].user, event |-> req[w].event]}
  /\ Reply(w)
  /\ UNCHANGED <<attendees, events, live, inbox, delivery, history>>

\* One DELETE by id and user.
LeaveEvent ==
  /\ "Leave" \in Handlers /\ SomeWorkerFree
  /\ \E j \in joins : j.user \in accounts /\ joins' = joins \ {j}
  /\ Overlap
  /\ UNCHANGED <<attendees, events, live, lastJoin, inbox, delivery, answered, lost, failed, workers>>

-----------------------------------------------------------------------------
(* Events.  The clock passes a bound of the window of an event, or an      *)
(* organizer moves it.                                                     *)

Turn ==
  /\ "Clock" \in Handlers
  /\ \E e \in events : live' = IF e \in live THEN live \ {e} ELSE live \cup {e}
  /\ UNCHANGED <<attendees, events, joins, lastJoin, inbox, delivery, history, workers>>

DeleteEvent(w) ==
  /\ "DeleteEvent" \in Handlers
  /\ \E e \in events : Begin(w, "delete_read", [NoRequest EXCEPT !.event = e])
  /\ UNCHANGED <<attendees, gatherings, inbox, delivery, answered, lost, failed>>

DeleteEventRead(w) ==
  /\ At(w, "delete_read")
  /\ IF req[w].event \in events \ live THEN Goto(w, "delete_rows") ELSE Reply(w)
  /\ UNCHANGED <<attendees, gatherings, inbox, delivery, history>>

\* One transaction, which rolls back when the event is no longer there.  The alerts go too,
\* delivered or not; the job may still write some of what it listed before.
DeleteEventRows(w) ==
  LET e == req[w].event
  IN  /\ At(w, "delete_rows")
      /\ Reply(w)
      /\ IF e \in events
         THEN /\ events' = events \ {e} /\ live' = live \ {e} /\ processed' = processed \ {e}
              /\ joins' = {j \in joins : j.event # e}
              /\ removed' = removed \cup {i \in DOMAIN notices : notices[i].event = e}
         ELSE UNCHANGED <<events, live, joins, processed, removed>>
      /\ UNCHANGED <<attendees, lastJoin, notices, delivered, delivery, history>>

-----------------------------------------------------------------------------
\* A statement fails, the client goes away or the process restarts.
AbortRequest(w) ==
  /\ ~Idle(w)
  /\ Reply(w)
  /\ lost' = IF At(w, "poll_answer") THEN lost \cup req[w].alerts ELSE lost
  /\ UNCHANGED <<attendees, gatherings, inbox, delivery, answered, failed, raced>>

\* An answer without alerts changes nothing, whether it arrives or not.
PollFails(w) ==
  /\ AbortRequest(w)
  /\ ~(At(w, "poll_answer") /\ req[w].alerts = {})

\* What was true of the attendee since each notification.
Observe ==
  /\ held' = [i \in 1..MaxNotices |->
       held[i] \cup {r.token : r \in {r \in devices' : i \in DOMAIN notices' /\ r.user = notices'[i].user}}]
  /\ wanted' = [i \in 1..MaxNotices |->
       IF i \in DOMAIN notices' /\ notices'[i].user \in accounts'
       THEN LET p == prefs'[notices'[i].user]
            IN  IF IF notices'[i].event = Nil THEN p.missed ELSE p.geofence
                THEN wanted[i] \cup {c \in Channels : p[c]} ELSE wanted[i]
       ELSE wanted[i]]

Next ==
  /\ \/ Deliver \/ JobStep
     \/ \E w \in Workers :
          \/ Poll(w) \/ PollRead(w) \/ PollMark(w) \/ PollAnswer(w)
          \/ Register(w) \/ DeviceRead(w) \/ DeviceMove(w) \/ DeviceInsert(w) \/ Registered(w)
          \/ DispatchMine(w) \/ DispatchedMine(w)
          \/ JoinByQR(w) \/ JoinRead(w) \/ JoinInsert(w)
          \/ DeleteEvent(w) \/ DeleteEventRead(w) \/ DeleteEventRows(w)
          \/ AbortRequest(w)
     \/ SignOut \/ SetPrefs \/ DeleteAccount \/ LeaveEvent \/ Turn
  /\ Observe

Spec == Init /\ [][Next]_vars

\* The goroutine of a poll goes on.
Polling(w) == (PollRead(w) \/ PollMark(w) \/ PollAnswer(w)) /\ Observe

FairSpec == Spec /\ \A w \in Workers : WF_vars(Polling(w))

-----------------------------------------------------------------------------
Labels == {"idle", "poll_read", "poll_mark", "poll_answer", "device_read", "device_move",
           "device_insert", "registered", "dispatching", "join_read", "join_insert",
           "delete_read", "delete_rows"}

Request == [user : Users \cup {Nil}, event : Events \cup {Nil}, token : Tokens \cup {Nil}, row : Nat, id : Nat, alerts : SUBSET Nat]

\* The types of the rows and goroutines; notifications and devices are numbered
\* within the bounds.
TypeOK ==
  /\ accounts \subseteq Users /\ prefs \in [Users -> PrefRow]
  /\ devices \subseteq DeviceRow /\ lastRow \in 0..MaxRows
  /\ events \subseteq Events /\ live \subseteq events
  /\ joins \subseteq JoinRow /\ lastJoin \in 0..MaxJoins
  /\ notices \in Seq(Notice) /\ Len(notices) <= MaxNotices
  /\ delivered \subseteq Alerts /\ removed \subseteq Alerts /\ processed \subseteq events
  /\ job \in [at : {"idle", "next", "alert"}, events : SUBSET Events, event : Events \cup {Nil},
              rows : SUBSET JoinRow]
  /\ dispatches \subseteq Dispatch /\ \A d \in dispatches : d.id \in DOMAIN notices
  /\ sent \subseteq (DOMAIN notices) \X (Tokens \cup {"mail"})
  /\ answered \in [1..MaxNotices -> 0..2] /\ lost \subseteq Alerts
  /\ held \in [1..MaxNotices -> SUBSET Tokens] /\ wanted \in [1..MaxNotices -> SUBSET Channels]
  /\ failed \in BOOLEAN /\ raced \in BOOLEAN
  /\ pc \in [Workers -> Labels] /\ req \in [Workers -> Request]

\* However polls, the job and failures interleave, an alert that no later poll
\* will return was in an answer, in an answer that did not arrive, or in
\* one that is about to be sent: none is marked that nobody read.
MarkedIsAnswered ==
  \A i \in delivered :
    \/ answered[i] > 0
    \/ i \in lost
    \/ \E w \in Workers : pc[w] = "poll_answer" /\ i \in req[w].alerts

\* While requests run one at a time, an alert is in at most one answer, and in none after
\* the answer that contained it got lost.
AnsweredOnce ==
  ~raced => \A i \in Alerts : answered[i] <= 1 /\ (answered[i] = 1 => i \notin lost)

\* However late the dispatcher acts on what it read, an attendee is mailed and pushed
\* only what he wanted that way at some time since, on devices that were his at
\* some time since: nothing of an earlier account of the device.
DeliveredAsWanted ==
  \A x \in sent :
    IF x[2] = "mail" THEN "mail" \in wanted[x[1]]
    ELSE x[2] \in held[x[1]] /\ "push" \in wanted[x[1]]

\* While requests run one at a time, a device whose registration is about to be
\* confirmed is registered for the caller and nobody else.
RegisteredIsMine ==
  ~raced => \A w \in Workers : pc[w] = "registered" =>
              {r.user : r \in {r \in devices : r.token = req[w].token}} = {req[w].user}

\* Unless a run of the job fails, a join is alerted once that its event is live, whatever was
\* delivered, moved, deleted or restarted meanwhile; and an attendee is, who may have two
\* joins, as long as requests run one at a time.
OneAlertPerGoLive ==
  ~failed => \A i, j \in Alerts :
    /\ notices[i].join = notices[j].join => i = j
    /\ ~raced /\ notices[i].user = notices[j].user /\ notices[i].event = notices[j].event => i = j

\* If the attendee's app polls again and again, and polls stop failing, then every alert
\* gets into an answer, unless it was in one that got lost before, or its event is deleted.
AlertsAreAnswered ==
  \A u \in Users :
    ([]<><<\E w \in Workers : PollOf(w, u)>>_vars /\ <>[][~\E w \in Workers : PollFails(w)]_vars)
      => \A i \in 1..MaxNotices :
           i \in AlertsOf(u) ~> (answered[i] > 0 \/ i \in lost \/ i \in removed)
=============================================================================
