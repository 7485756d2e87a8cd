------------------------------ MODULE Analytics ------------------------------
(***************************************************************************)
(* What an organizer is told about attendance: numbers of an event, and of *)
(* one of its fences.  A record that does not name its fence is attributed *)
(* to the newest one that its place is in and that was active then.  Both  *)
(* answers are computed from tables that are read one after the other; an  *)
(* organizer asks for one at a time.  How records come to be is in ClockIn *)
(* and Membership, when fences may be made in FenceSetup.                  *)
(***************************************************************************)
EXTENDS Integers, FiniteSets, SequencesExt, EventSchedule, Requests

CONSTANTS
  Fences,     \* fences of the event
  Circles,    \* those of them that are circles
  Area,       \* the places in a fence
  Window,     \* the schedule of a fence
  EventTimes, \* the schedule of the event
  Attendees,  \* who joins
  Marks,      \* user, source, place and fence of attendance records
  Hour, Day, TwoDays, Year, \* how long they are
  MaxRows,    \* bound on the records
  MaxTime,    \* bound of the clock
  Nil         \* no fence

\* What an instance has to satisfy.
AnalyticsAssumption ==
  /\ Circles \subseteq Fences /\ Nil \notin Fences
  /\ Window \in [Fences -> Schedule] /\ EventTimes \in Schedule
  /\ DOMAIN Area = Fences
  /\ \A m \in Marks : m.fence \in Fences \cup {Nil}
  /\ {Hour, Day, Year, MaxTime} \subseteq Nat \ {0} /\ {TwoDays, MaxRows} \subseteq Nat

VARIABLES
  event,      \* whether the event is there
  made,       \* fences there were ever
  fences,     \* those that are there, the newest first
  joins,      \* who has joined
  attendance, \* the attendance records, the oldest first
  now,        \* the clock
  report,     \* no column: the last answer about the event, until a table changes
  quiet,      \* no column: no table has changed since that was asked for
  raced       \* no column: one has changed since the last request began

tables == <<event, made, fences, joins, attendance>>
vars == <<tables, now, report, quiet, raced, workers>>

NoRequest == [fence |-> Nil, fences |-> <<>>, joins |-> {}, rows |-> <<>>]

Init ==
  /\ event = TRUE
  /\ made = {} /\ fences = <<>> /\ joins = {} /\ attendance = <<>>
  /\ now = 1
  /\ report = <<>> /\ quiet = FALSE /\ raced = FALSE
  /\ pc = [w \in Workers |-> "idle"] /\ req = [w \in Workers |-> NoRequest]

-----------------------------------------------------------------------------
(* What is computed                                                        *)

\* Mutation: the newest fence is the only one that is tried.
AttributeToNewest(row, fs) ==
  IF row.fence # Nil THEN row.fence
  ELSE IF fs # <<>> /\ FenceActiveAt(Window[fs[1]], row.at) /\ row.place \in Area[fs[1]]
       THEN fs[1] ELSE Nil

AttributeAttendanceFence(row, fs) ==
  LET around == {i \in DOMAIN fs : FenceActiveAt(Window[fs[i]], row.at) /\ row.place \in Area[fs[i]]}
  IN  IF row.fence # Nil THEN row.fence
      ELSE IF around = {} THEN Nil ELSE fs[CHOOSE i \in around : \A j \in around : i <= j]

\* Of the rows with the indexes in which.
UsersOf(rows, which) == {rows[i].user : i \in which}

SourceOf(row) == IF row.source = "" THEN "unknown" ELSE row.source

BySource(rows, which) ==
  [s \in {SourceOf(rows[i]) : i \in which} |-> Cardinality({i \in which : SourceOf(rows[i]) = s})]

\* The label of an hour has no year.
Label(t, window) ==
  IF EventHasSchedule(window) /\ window.end - window.start > TwoDays
  THEN t \div Day ELSE (t % Year) \div Hour

\* Mutation: every time is a bucket.
EveryTime(rows, which, window) ==
  [i \in which |-> [label |-> Label(rows[i].at, window),
     count |-> Cardinality({j \in which : Label(rows[j].at, window) = Label(rows[i].at, window)})]]

\* One bucket for every hour, or for every day of a longer window.  It stands at the index of
\* its first row.
BuildTimeline(rows, which, window) ==
  LET label(i) == Label(rows[i].at, window)
  IN  [i \in {k \in which : \A j \in which : label(j) = label(k) => k <= j} |->
         [label |-> label(i), count |-> Cardinality({j \in which : label(j) = label(i)})]]

RowsOf(f, fs, rows) == {i \in DOMAIN rows : AttributeAttendanceFence(rows[i], fs) = f}

ComputeEventAnalytics(fs, users, rows) ==
  [joins    |-> Cardinality(users),
   total    |-> Len(rows),
   unique   |-> Cardinality(UsersOf(rows, DOMAIN rows)),
   source   |-> BySource(rows, DOMAIN rows),
   timeline |-> BuildTimeline(rows, DOMAIN rows, EventTimes),
   fence    |-> [f \in Range(fs) |-> [total  |-> Cardinality(RowsOf(f, fs, rows)),
                                      unique |-> Cardinality(UsersOf(rows, RowsOf(f, fs, rows)))]]]

\* Mutation: records count only for the fence that they name.
ComputeFenceAnalyticsByName(f, fs, rows) ==
  LET mine == {i \in DOMAIN rows : rows[i].fence = f}
  IN  [total    |-> Cardinality(mine),
       unique   |-> Cardinality(UsersOf(rows, mine)),
       source   |-> BySource(rows, mine),
       timeline |-> BuildTimeline(rows, mine, Window[f]),
       nearby   |-> {}]

\* The records nearby are those of no fence whose place is in this one, a circle.
ComputeFenceAnalytics(f, fs, rows) ==
  LET mine == RowsOf(f, fs, rows)
  IN  [total    |-> Cardinality(mine),
       unique   |-> Cardinality(UsersOf(rows, mine)),
       source   |-> BySource(rows, mine),
       timeline |-> BuildTimeline(rows, mine, Window[f]),
       nearby   |-> {i \in DOMAIN rows : /\ AttributeAttendanceFence(rows[i], fs) = Nil
                                         /\ f \in Circles /\ rows[i].place \in Area[f]}]

-----------------------------------------------------------------------------
(* GET analytics, of the event and of a fence                              *)

Read(w, at, next, r) == At(w, at) /\ Step(w, next, r) /\ UNCHANGED <<tables, now, report>>

Check(w, at, ok, next) ==
  /\ At(w, at)
  /\ IF ok THEN Goto(w, next) ELSE Step(w, "idle", NoRequest)
  /\ UNCHANGED <<tables, now, report>>

GetEventAnalytics(w) ==
  Start(w, "event", NoRequest) /\ UNCHANGED <<tables, now, report>>

EventRead(w) == Check(w, "event", event, "event_fences")
EventFences(w) == Read(w, "event_fences", "event_joins", [req[w] EXCEPT !.fences = fences])
EventJoins(w) == Read(w, "event_joins", "event_rows", [req[w] EXCEPT !.joins = joins])

ListAttendanceByEvent == Reverse(attendance)

EventRows(w) ==
  Read(w, "event_rows", "event_answer", [req[w] EXCEPT !.rows = ListAttendanceByEvent])

EventAnswer(w) ==
  /\ At(w, "event_answer")
  /\ report' = <<ComputeEventAnalytics(req[w].fences, req[w].joins, req[w].rows)>>
  /\ Step(w, "idle", NoRequest)
  /\ UNCHANGED <<tables, now>>

GetFenceAnalytics(w) ==
  /\ \E f \in Fences : Start(w, "fence_event", [NoRequest EXCEPT !.fence = f])
  /\ UNCHANGED <<tables, now, report>>

FenceEvent(w) == Check(w, "fence_event", event, "fence_fence")
FenceFence(w) == Check(w, "fence_fence", req[w].fence \in Range(fences), "fence_fences")
FenceFences(w) == Read(w, "fence_fences", "fence_rows", [req[w] EXCEPT !.fences = fences])
FenceRows(w) ==
  Read(w, "fence_rows", "fence_answer", [req[w] EXCEPT !.rows = ListAttendanceByEvent])

FenceAnswer(w) == Read(w, "fence_answer", "idle", NoRequest)

-----------------------------------------------------------------------------
(* What others do meanwhile                                                *)

Mark ==
  /\ event /\ Len(attendance) < MaxRows
  /\ \E m \in Marks :
       attendance' = Append(attendance, [user |-> m.user, source |-> m.source, place |-> m.place,
                                         fence |-> m.fence, at |-> now])
  /\ report' = <<>>
  /\ UNCHANGED <<event, made, fences, joins, now, workers>>

ChangeJoin ==
  /\ event
  /\ \E u \in Attendees : joins' = IF u \in joins THEN joins \ {u} ELSE joins \cup {u}
  /\ report' = <<>>
  /\ UNCHANGED <<event, made, fences, attendance, now, workers>>

AddFence ==
  /\ event
  /\ \E f \in Fences \ made : made' = made \cup {f} /\ fences' = <<f>> \o fences
  /\ report' = <<>>
  /\ UNCHANGED <<event, joins, attendance, now, workers>>

\* The records keep the name of the fence.
DeleteFence ==
  /\ ~EventIsLive(EventTimes, now)
  /\ \E i \in DOMAIN fences : fences' = RemoveAt(fences, i)
  /\ report' = <<>>
  /\ UNCHANGED <<event, made, joins, attendance, now, workers>>

DeleteEvent ==
  /\ event /\ ~EventIsLive(EventTimes, now)
  /\ event' = FALSE /\ fences' = <<>> /\ joins' = {} /\ attendance' = <<>>
  /\ report' = <<>>
  /\ UNCHANGED <<made, now, workers>>

Tick ==
  /\ now < MaxTime /\ now' = now + 1
  /\ UNCHANGED <<tables, report, workers>>

-----------------------------------------------------------------------------
Observe ==
  /\ quiet' = IF \E w \in Workers : Idle(w) /\ pc'[w] = "event" THEN TRUE
              ELSE quiet /\ UNCHANGED tables
  /\ raced' = IF \A w \in Workers : Idle(w) THEN FALSE ELSE raced \/ tables' # tables

Next ==
  /\ \/ \E w \in Workers :
          \/ GetEventAnalytics(w) \/ EventRead(w) \/ EventFences(w) \/ EventJoins(w) \/ EventRows(w)
          \/ EventAnswer(w)
          \/ GetFenceAnalytics(w) \/ FenceEvent(w) \/ FenceFence(w) \/ FenceFences(w) \/ FenceRows(w)
          \/ FenceAnswer(w)
     \/ Mark \/ ChangeJoin \/ AddFence \/ DeleteFence \/ DeleteEvent \/ Tick
  /\ Observe

Spec == Init /\ [][Next]_vars

-----------------------------------------------------------------------------
\* Fences are there once; the records that a request has read come newest first.
TypeOK ==
  /\ event \in BOOLEAN /\ made \subseteq Fences /\ joins \subseteq Attendees
  /\ Range(fences) \subseteq made /\ IsInjective(fences)
  /\ Len(attendance) <= MaxRows /\ now \in 1..MaxTime
  /\ \A w \in Workers : \A i, j \in DOMAIN req[w].rows :
       i < j => req[w].rows[i].at >= req[w].rows[j].at

\* As many as there are pairs of an x and one of the first f[x] numbers.
Sum(f) == Cardinality(UNION {{x} \X (1..f[x]) : x \in DOMAIN f})

\* The numbers of an event agree with each other, whatever was read at different times: the
\* sources and the buckets of the timeline, each of which is there once, add up to the
\* total, and the fences take no record twice.
NumbersAddUp ==
  \A i \in DOMAIN report :
    LET a == report[i]
    IN  /\ Sum(a.source) = a.total
        /\ Sum([k \in DOMAIN a.timeline |-> a.timeline[k].count]) = a.total
        /\ IsInjective([k \in DOMAIN a.timeline |-> a.timeline[k].label])
        /\ Sum([f \in DOMAIN a.fence |-> a.fence[f].total]) <= a.total

\* The numbers of a fence are those that the event's answer has for it, if no table changed
\* since that was asked for.
FenceAgreesWithEvent ==
  \A w \in Workers :
    At(w, "fence_answer") /\ quiet /\ report # <<>> =>
      LET a == ComputeFenceAnalytics(req[w].fence, req[w].fences, req[w].rows)
      IN  [total |-> a.total, unique |-> a.unique] = report[1].fence[req[w].fence]

\* Records that are called nearby a fence are of a time at which it was not active, if it
\* was not removed or another table changed while they were read.
NearbyIsUntimely ==
  \A w \in Workers :
    At(w, "fence_answer") /\ ~raced =>
      \A i \in ComputeFenceAnalytics(req[w].fence, req[w].fences, req[w].rows).nearby :
        ~FenceActiveAt(Window[req[w].fence], req[w].rows[i].at)
=============================================================================
