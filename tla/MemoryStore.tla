------------------------------ MODULE MemoryStore ------------------------------
(***************************************************************************)
(* The store that keeps everything in maps, for development.  One mutex    *)
(* makes every operation a single step, and what remains is that the maps  *)
(* agree with each other: two of them are indexes of who joined and who    *)
(* was marked, beside the lists of joins and of attendance.  Operations    *)
(* come in any order, and for events deleted since their caller looked.    *)
(* Codes are in JoinTokens and ClockInQR, listings in Listings.            *)
(***************************************************************************)
EXTENDS FiniteSets, EventSchedule

CONSTANTS
  Users,      \* attendees
  Schedules,  \* schedules of events and fences
  MaxEvents,  \* bound on the events created
  MaxRows,    \* bound on the joins, and on the attendance records, ever made
  MaxFences,  \* bound on the fences ever made
  MaxTime     \* bound of the clock

\* What an instance has to satisfy.
MemoryStoreAssumption ==
  /\ Schedules \subseteq Schedule
  /\ {MaxEvents, MaxRows, MaxFences, MaxTime} \subseteq Nat

VARIABLES
  eventSeq, fenceSeq, joinSeq, attendanceSeq, \* the last id of each kind
  events,      \* identifier of an event to its schedule
  fences,
  joins,
  attendance,
  consent,     \* events with a template
  userConsents,
  joinByUser,  \* pairs of an event and who joined it
  presentUser, \* pairs of an event and who was marked present
  now          \* the clock

sequences == <<eventSeq, fenceSeq, joinSeq, attendanceSeq>>
joining == <<joinSeq, joins, joinByUser>>
marking == <<attendanceSeq, attendance, presentUser>>
fencing == <<fenceSeq, fences>>
consenting == <<consent, userConsents>>
vars == <<eventSeq, events, fencing, joining, marking, consenting, now>>

\* A function without an entry.
Without(f, x) == [y \in DOMAIN f \ {x} |-> f[y]]

Init ==
  /\ eventSeq = 0 /\ fenceSeq = 0 /\ joinSeq = 0 /\ attendanceSeq = 0
  /\ events = [e \in {} |-> 0]
  /\ fences = {} /\ joins = {} /\ attendance = {}
  /\ consent = {} /\ userConsents = {} /\ joinByUser = {} /\ presentUser = {}
  /\ now = 1

\* Events that callers may have seen, even if they are gone by now.
Seen == 1..eventSeq

Live(e) == EventIsLive(events[e], now)

-----------------------------------------------------------------------------
(* Events and fences                                                       *)

\* Mutation: events are numbered by how many there are.
NewEventIDCounted == Cardinality(DOMAIN events) + 1

NewEventID == eventSeq + 1

CreateEvent ==
  /\ eventSeq < MaxEvents
  /\ eventSeq' = IF NewEventID > eventSeq THEN NewEventID ELSE eventSeq
  /\ \E s \in Schedules :
       events' = [e \in DOMAIN events \cup {NewEventID} |-> IF e = NewEventID THEN s ELSE events[e]]
  /\ UNCHANGED <<fencing, joining, marking, consenting, now>>

\* Mutation: the fences of the event are not looked at.
UpdateEventOnly ==
  /\ \E e \in DOMAIN events, s \in Schedules :
       /\ ValidateEventSchedule(s)
       /\ Live(e) => s = events[e]
       /\ events' = [events EXCEPT ![e] = s]
  /\ UNCHANGED <<eventSeq, fencing, joining, marking, consenting, now>>

\* A live event keeps its schedule, and the fences must fit the new one.
UpdateEvent ==
  /\ \E e \in DOMAIN events, s \in Schedules :
       /\ ValidateEventSchedule(s)
       /\ Live(e) => s = events[e]
       /\ \A f \in fences : f.event = e => FenceScheduleFits(s, f.schedule)
       /\ events' = [events EXCEPT ![e] = s]
  /\ UNCHANGED <<eventSeq, fencing, joining, marking, consenting, now>>

\* Mutation: the indexes are forgotten.
DeleteEventRows ==
  /\ \E e \in DOMAIN events :
       /\ ~Live(e)
       /\ events' = Without(events, e)
       /\ fences' = {f \in fences : f.event # e}
       /\ joins' = {j \in joins : j.event # e}
       /\ attendance' = {a \in attendance : a.event # e}
       /\ consent' = consent \ {e}
       /\ userConsents' = {p \in userConsents : p[1] # e}
  /\ UNCHANGED <<sequences, joinByUser, presentUser, now>>

DeleteEvent ==
  /\ \E e \in DOMAIN events :
       /\ ~Live(e)
       /\ events' = Without(events, e)
       /\ fences' = {f \in fences : f.event # e}
       /\ joins' = {j \in joins : j.event # e}
       /\ attendance' = {a \in attendance : a.event # e}
       /\ consent' = consent \ {e}
       /\ userConsents' = {p \in userConsents : p[1] # e}
       /\ joinByUser' = {p \in joinByUser : p[1] # e}
       /\ presentUser' = {p \in presentUser : p[1] # e}
  /\ UNCHANGED <<sequences, now>>

\* The handler has resolved the schedule, and may have done so for an older one of the event.
AddFence ==
  /\ fenceSeq < MaxFences
  /\ fenceSeq' = fenceSeq + 1
  /\ \E e \in DOMAIN events, s \in {t \in Schedules : ValidateEventSchedule(t)} :
       fences' = fences \cup {[id |-> fenceSeq', event |-> e, schedule |-> s]}
  /\ UNCHANGED <<eventSeq, events, joining, marking, consenting, now>>

DeleteFence ==
  /\ \E f \in fences : ~Live(f.event) /\ fences' = fences \ {f}
  /\ UNCHANGED <<sequences, events, joins, attendance, consenting, joinByUser, presentUser, now>>

-----------------------------------------------------------------------------
(* Attendees                                                               *)

\* Mutation: the index is not written.
JoinByQRUnindexed ==
  /\ joinSeq < MaxRows
  /\ \E e \in DOMAIN events, u \in Users :
       /\ <<e, u>> \notin joinByUser
       /\ joinSeq' = joinSeq + 1
       /\ joins' = joins \cup {[id |-> joinSeq', event |-> e, user |-> u]}
  /\ UNCHANGED <<eventSeq, events, fencing, joinByUser, marking, consenting, now>>

\* Whoever is in the index joins no more, and is answered a join all the same.
JoinByQR ==
  /\ joinSeq < MaxRows
  /\ \E e \in DOMAIN events, u \in Users :
       /\ <<e, u>> \notin joinByUser
       /\ joinSeq' = joinSeq + 1
       /\ joins' = joins \cup {[id |-> joinSeq', event |-> e, user |-> u]}
       /\ joinByUser' = joinByUser \cup {<<e, u>>}
  /\ UNCHANGED <<eventSeq, events, fencing, marking, consenting, now>>

\* The index stays as it is.
DeleteUserEventJoin ==
  /\ \E j \in joins : joins' = joins \ {j}
  /\ UNCHANGED <<sequences, events, fences, attendance, consenting, joinByUser, presentUser, now>>

\* The record's fence and place are left out.
Attended(e, u, how) ==
  /\ attendanceSeq' = attendanceSeq + 1
  /\ attendance' = attendance \cup {[id |-> attendanceSeq', event |-> e, user |-> u, how |-> how]}

\* Mutation: the list is searched for joins, not for marks.
MarkPresentUnlessJoined ==
  /\ attendanceSeq < MaxRows
  /\ \E e \in DOMAIN events, u \in Users :
       /\ <<e, u>> \notin joinByUser
       /\ Attended(e, u, "marked")
       /\ presentUser' = presentUser \cup {<<e, u>>}
  /\ UNCHANGED <<eventSeq, events, fencing, joining, consenting, now>>

MarkPresent ==
  /\ attendanceSeq < MaxRows
  /\ \E e \in DOMAIN events, u \in Users :
       /\ <<e, u>> \notin presentUser
       /\ Attended(e, u, "marked")
       /\ presentUser' = presentUser \cup {<<e, u>>}
  /\ UNCHANGED <<eventSeq, events, fencing, joining, consenting, now>>

\* No event is looked for, and nobody is entered as marked.
RecordClockIn ==
  /\ attendanceSeq < MaxRows
  /\ \E e \in Seen, u \in Users : Attended(e, u, "clocked_in")
  /\ UNCHANGED <<eventSeq, events, fencing, joining, presentUser, consenting, now>>

SaveConsentTemplate ==
  /\ \E e \in DOMAIN events : consent' = consent \cup {e}
  /\ UNCHANGED <<eventSeq, events, fencing, joining, marking, userConsents, now>>

\* No event is looked for.
SaveUserEventConsent ==
  /\ \E e \in Seen, u \in Users : userConsents' = userConsents \cup {<<e, u>>}
  /\ UNCHANGED <<eventSeq, events, fencing, joining, marking, consent, now>>

Tick ==
  /\ now < MaxTime /\ now' = now + 1
  /\ UNCHANGED <<eventSeq, events, fencing, joining, marking, consenting>>

Next ==
  \/ CreateEvent \/ UpdateEvent \/ DeleteEvent \/ AddFence \/ DeleteFence
  \/ JoinByQR \/ DeleteUserEventJoin \/ MarkPresent \/ RecordClockIn
  \/ SaveConsentTemplate \/ SaveUserEventConsent \/ Tick

Spec == Init /\ [][Next]_vars

-----------------------------------------------------------------------------
\* Records have the numbers that were given out, each its own, and belong to events there were.
TypeOK ==
  /\ DOMAIN events \subseteq Seen /\ \A e \in DOMAIN events : events[e] \in Schedules
  /\ \A f \in fences : f.id \in 1..fenceSeq /\ f.event \in Seen
  /\ \A j \in joins : j.id \in 1..joinSeq /\ j.event \in Seen
  /\ \A a \in attendance : a.id \in 1..attendanceSeq /\ a.event \in Seen
  /\ \A a, b \in attendance : a.id = b.id => a = b
  /\ joinByUser \cup presentUser \cup userConsents \subseteq Seen \X Users

\* Nobody has two joins of an event, however often they join, leave and come back.
OneJoinRow == \A i, j \in joins : i.event = j.event /\ i.user = j.user => i = j

\* Nobody is marked present twice at an event, whatever clock-ins there are besides.
MarkedOnce ==
  \A a, b \in attendance :
    a.how = "marked" /\ b.how = "marked" /\ a.event = b.event /\ a.user = b.user => a = b

\* An event that is gone has no joins, fences or template, and the indexes forget it, too.
NothingButLateRows ==
  /\ {f.event : f \in fences} \cup {j.event : j \in joins} \cup consent \subseteq DOMAIN events
  /\ {p[1] : p \in joinByUser \cup presentUser} \subseteq DOMAIN events

\* A new event starts empty: the consents and clock-ins that came late for a deleted one do
\* not turn up in it.
NewEventIsEmpty ==
  [][\A e \in DOMAIN events' \ DOMAIN events :
       /\ \A r \in joins' \cup attendance' \cup fences' : r.event # e
       /\ \A p \in userConsents' \cup joinByUser' \cup presentUser' : p[1] # e
       /\ e \notin consent']_vars

\* A fence that fits its event does so as long as both are there.
FencesStayInside ==
  [][\A f \in fences \cap fences' :
       FenceScheduleFits(events[f.event], f.schedule)
         => FenceScheduleFits(events'[f.event], f.schedule)]_vars

\* Whatever the order of operations, the maps of the store agree: one join and one mark,
\* rows of events there are but for those that came late, none of them in a new event,
\* and no fence that a schedule leaves outside.
MemoryMapsAgree ==
  /\ [](TypeOK /\ OneJoinRow /\ MarkedOnce /\ NothingButLateRows)
  /\ NewEventIsEmpty /\ FencesStayInside
=============================================================================
