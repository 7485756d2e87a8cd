--------------------------- MODULE AttendanceTables ---------------------------
(***************************************************************************)
(* The MySQL tables that the attendance operations share, and the state of *)
(* the requests and of the go-live job that read and write them.  A table  *)
(* is a set of rows.  Each action of the modules that extend this one      *)
(* executes one statement, or one transaction.                             *)
(***************************************************************************)
EXTENDS EventSchedule, Requests, FiniteSets

CONSTANTS
  Users,      \* attendee accounts
  Events,     \* events created by organizers
  Fences,     \* fence ids
  Schedules,  \* the schedules that organizers choose from
  ScheduleOf, \* the schedule that each event is created with
  Handlers,   \* the handlers that clients call in this instance
  Sources,    \* the clock-in sources that clients send in this instance
  MaxTime,    \* the clock stops here
  MaxId,      \* bound on the rows inserted
  Retention,  \* age at which history is trimmed, in ticks
  Nil         \* no user, no event, no fence

ASSUME AttendanceAssumption ==
  /\ Schedules \subseteq Schedule /\ \A s \in Schedules : ValidateEventSchedule(s)
  /\ ScheduleOf \in [Events -> Schedules]
  /\ Sources \subseteq {"geofence", "qr_scan", "manual"} /\ "manual" \in Sources
  /\ Nil \notin Users \cup Events \cup Fences
  /\ MaxTime \in Nat \ {0} /\ MaxId \in Nat /\ Retention \in Nat

VARIABLES
  now,        \* the clock every handler reads with time.Now
  users,      \* users: the accounts that exist
  events,     \* events: the events that exist
  scan,       \* events.scan_to_clock_in_enabled
  schedule,   \* events.start_at, end_at
  goneLive,   \* events.go_live_processed_at, 0 for NULL
  fences,     \* fences: rows [event, fence]
  templates,  \* consent_templates: event -> does it have required fields
  joins,      \* event_joins
  consents,   \* user_consents
  sessions,   \* user_activity_sessions
  attendance, \* attendance_records with status "present"
  alerts,     \* geofence_alerts: how many rows <<event, user>> has
  lastId,     \* the last id given to a row (ids are UnixNano in the code)
  job         \* the go-live job

eventTables  == <<events, scan, schedule, goneLive, fences, templates>>
memberTables == <<users, joins, consents>>
rowTables    == <<sessions, attendance, lastId>>

-----------------------------------------------------------------------------
(* Rows *)

Open == 0                       \* clock_out_at IS NULL: no real time is 0

\* seen is no column: it is when the row was inserted, after joined_at was read.
JoinRow == [id : Nat, event : Events, user : Users, at : Nat, seen : Nat]
ConsentRow == [event : Events, user : Users, agreed : Nat]
SessionRow == [id : Nat, user : Users, event : Events \cup {Nil},
               fence : Fences \cup {Nil}, source : Sources, in : Nat, out : Nat]
AttendanceRow == [id : Nat, event : Events, user : Users,
                  via : {"clock_in", "mark_present"}, at : Nat]

\* What a request carries and remembers.  A field no statement of the handler
\* uses keeps its value of NoRequest.
NoSession == [id |-> 0, user |-> Nil, event |-> Nil, fence |-> Nil,
              source |-> "manual", in |-> 0, out |-> 0]
NoTimes == [start |-> ZeroTime, end |-> ZeroTime]
NoRequest == [user |-> Nil, event |-> Nil, fence |-> Nil, source |-> "manual",
              session |-> 0, at |-> 0, row |-> NoSession, times |-> NoTimes]
Request == [user : Users \cup {Nil}, event : Events \cup {Nil},
            fence : Fences \cup {Nil}, source : Sources, session : Nat,
            at : Nat, row : SessionRow \cup {NoSession}, times : Schedules \cup {NoTimes}]

\* Statements over the tables.
Joined(e, u)     == \E j \in joins : j.event = e /\ j.user = u
HasConsent(e, u) == \E c \in consents : c.event = e /\ c.user = u
HasPresent(e, u) == \E a \in attendance : a.event = e /\ a.user = u
IsLive(e, t)     == EventIsLive(schedule[e], t)
NeedsConsent(e)  == [event |-> e, required |-> TRUE] \in templates

\* gorm's Save of a row that was read before: it updates every column of the
\* row with that id, and inserts the row when the update finds none.
SaveSession(row) == {s \in sessions : s.id # row.id} \cup {row}

-----------------------------------------------------------------------------
(* Requests *)

vars == <<now, eventTables, memberTables, rowTables, alerts, workers, job>>

\* The guard of the route has authenticated r.user when the handler starts.
Begin(w, handler, first, r) ==
  /\ handler \in Handlers
  /\ r.user \in users \cup {Nil}
  /\ Start(w, first, r)

Reply(w) == Step(w, "idle", NoRequest)

\* A read: go on to the next statement or answer with an error.
Check(w, label, ok, next) ==
  /\ At(w, label)
  /\ IF ok THEN Goto(w, next) ELSE Reply(w)

\* Every new row takes a fresh id.
NewId ==
  /\ lastId < MaxId
  /\ lastId' = lastId + 1

\* A statement fails, the client goes away or the process dies: the handler
\* returns and executes nothing more.
AbortRequest(w) ==
  /\ ~Idle(w)
  /\ Reply(w)
  /\ UNCHANGED <<now, eventTables, memberTables, rowTables, alerts, job>>

\* Time passes between any two statements.
Tick ==
  /\ now < MaxTime
  /\ now' = now + 1
  /\ UNCHANGED <<eventTables, memberTables, rowTables, alerts, workers, job>>
=============================================================================
