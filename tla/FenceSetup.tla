------------------------------ MODULE FenceSetup ------------------------------
(***************************************************************************)
(* An organizer creates events, draws fences with times of their own,      *)
(* reschedules and deletes them.  Each action is one SQL statement or one  *)
(* transaction.  The rows of fence_capture_sessions are declared here as   *)
(* well: deleting an event deletes them, and AddFence is shared with the   *)
(* handler that applies a capture.                                         *)
(***************************************************************************)
EXTENDS EventSchedule, Requests, Sequences, FiniteSets

CONSTANTS
  Events,     \* ids of events
  Schedules,  \* the schedules that organizers choose for events
  FenceTimes, \* the times that organizers choose for fences, bounds omitted or not
  Shapes,     \* the target shapes of captures in this instance
  Handlers,   \* the handlers that clients call in this instance
  Racing,     \* those of them that are called once requests have overlapped
  MaxTime,    \* the clock stops here
  MaxId,      \* bound on the fences and captures inserted
  Nil         \* no event

ASSUME FenceSetupAssumption ==
  /\ Schedules \subseteq Schedule /\ \A s \in Schedules : ValidateEventSchedule(s)
  /\ FenceTimes \subseteq Schedule
  /\ Shapes \subseteq {"circle", "polygon"}
  /\ Nil \notin Events
  /\ MaxTime \in Nat \ {0} /\ MaxId \in Nat

VARIABLES
  now,      \* the clock every handler reads with time.Now
  events,   \* events: the events that exist
  schedule, \* events.start_at, end_at; NoTimes before the event is created
  fences,   \* fences
  captures, \* fence_capture_sessions
  lastId,   \* the last id given to a fence or a capture
  raced     \* no column: two requests have been in flight at the same time

vars == <<now, events, schedule, fences, captures, lastId, raced, workers>>

NoTimes == [start |-> ZeroTime, end |-> ZeroTime]
NoCapture == 0

\* from is no column: it is the capture a fence was made from.
FenceRow == [id : Nat, event : Events, start : Nat \ {ZeroTime}, end : Nat \ {ZeroTime}, from : Nat]

\* times are the fence's or the event's, points what was read of the capture.
NoRequest == [event |-> Nil, times |-> NoTimes, fence |-> 0, capture |-> NoCapture,
              shape |-> "circle", role |-> "edge", points |-> <<>>, at |-> 0]

\* A request starts, alone or while others are in flight.
Overlap == raced' = (raced \/ \E w \in Workers : ~Idle(w))

Begin(w, handler, first, r) ==
  /\ Start(w, first, r)
  /\ Overlap
  /\ handler \in IF raced' THEN Racing ELSE Handlers

Reply(w) == Step(w, "idle", NoRequest)

\* A read: go on to the next statement or answer with an error.
Check(w, label, ok, next) ==
  /\ At(w, label)
  /\ IF ok THEN Goto(w, next) ELSE Reply(w)

NewId ==
  /\ lastId < MaxId
  /\ lastId' = lastId + 1

Unwritten == UNCHANGED <<now, events, schedule, fences, captures, lastId>>
OnlyRead == Unwritten /\ UNCHANGED raced

\* A statement fails or the process dies: the handler executes nothing more.
AbortRequest(w) == ~Idle(w) /\ Reply(w) /\ OnlyRead

Tick ==
  /\ now < MaxTime
  /\ now' = now + 1
  /\ UNCHANGED <<events, schedule, fences, captures, lastId, raced, workers>>

\* Clients know the ids of events that were created, deleted or not.
KnownEvents == {e \in Events : schedule[e] # NoTimes}
IsLive(e) == EventIsLive(schedule[e], now)

-----------------------------------------------------------------------------
\* POST /v1/events: one INSERT of a validated schedule.
CreateEvent ==
  /\ SomeWorkerFree /\ Overlap
  /\ "CreateEvent" \in IF raced' THEN Racing ELSE Handlers
  /\ \E e \in Events \ KnownEvents, s \in Schedules :
        /\ events' = events \cup {e}
        /\ schedule' = [schedule EXCEPT ![e] = s]
  /\ UNCHANGED <<now, fences, captures, lastId, workers>>

-----------------------------------------------------------------------------
(* POST /v1/events/{id}/fences                                             *)

CreateFence(w) ==
  /\ \E e \in KnownEvents, t \in FenceTimes :
        Begin(w, "CreateFence", "fence_event", [NoRequest EXCEPT !.event = e, !.times = t])
  /\ Unwritten

Resolved(r) == [r EXCEPT !.times = InheritSchedule(schedule[r.event], @)]

\* The times are resolved against the event as it was read here.
FenceEvent(w) ==
  /\ At(w, "fence_event")
  /\ IF req[w].event \in events /\ FenceScheduleFits(schedule[req[w].event], req[w].times)
     THEN Step(w, "add_fence_event", Resolved(req[w]))
     ELSE Reply(w)
  /\ OnlyRead

\* AddFence has returned, to CreateFence or to ApplyFenceCaptureSession.
FenceAdded(w) == IF req[w].capture = NoCapture THEN Reply(w) ELSE Goto(w, "apply_mark")

AddFenceEvent(w) ==
  /\ At(w, "add_fence_event")
  /\ IF req[w].event \in events THEN Goto(w, "add_fence_insert") ELSE FenceAdded(w)
  /\ OnlyRead

AddFenceInsert(w) ==
  /\ At(w, "add_fence_insert")
  /\ NewId
  /\ fences' = fences \cup {[id |-> lastId', event |-> req[w].event, from |-> req[w].capture,
                             start |-> req[w].times.start, end |-> req[w].times.end]}
  /\ FenceAdded(w)
  /\ UNCHANGED <<now, events, schedule, captures, raced>>

-----------------------------------------------------------------------------
(* PATCH /v1/events/{id}                                                   *)

UpdateEvent(w) ==
  /\ \E e \in KnownEvents, s \in Schedules :
        Begin(w, "UpdateEvent", "update_read", [NoRequest EXCEPT !.event = e, !.times = s])
  /\ Unwritten

UpdateEventRead(w) ==
  /\ Check(w, "update_read",
           /\ req[w].event \in events
           /\ IsLive(req[w].event) => req[w].times = schedule[req[w].event],
           "update_fences")
  /\ OnlyRead

\* Mutation: the fences are compared with the schedule that is replaced.
UpdateEventOldSchedule(w) ==
  /\ Check(w, "update_fences",
           \A f \in fences : f.event = req[w].event => FenceScheduleFits(schedule[req[w].event], f),
           "update_write")
  /\ OnlyRead

UpdateEventFences(w) ==
  /\ Check(w, "update_fences",
           \A f \in fences : f.event = req[w].event => FenceScheduleFits(req[w].times, f),
           "update_write")
  /\ OnlyRead

UpdateEventWrite(w) ==
  /\ At(w, "update_write")
  /\ schedule' = IF req[w].event \in events
                 THEN [schedule EXCEPT ![req[w].event] = req[w].times] ELSE schedule
  /\ Reply(w)
  /\ UNCHANGED <<now, events, fences, captures, lastId, raced>>

-----------------------------------------------------------------------------
(* DELETE of a fence or of an event: refused while the event is live.      *)

DeleteFence(w) ==
  /\ \E f \in fences :
        Begin(w, "DeleteFence", "delete_fence_event",
              [NoRequest EXCEPT !.event = f.event, !.fence = f.id])
  /\ Unwritten

DeleteFenceEvent(w) ==
  /\ Check(w, "delete_fence_event",
           req[w].event \in events /\ ~IsLive(req[w].event), "delete_fence_row")
  /\ OnlyRead

DeleteFenceRow(w) ==
  /\ At(w, "delete_fence_row")
  /\ fences' = {f \in fences : f.id # req[w].fence}
  /\ Reply(w)
  /\ UNCHANGED <<now, events, schedule, captures, lastId, raced>>

DeleteEvent(w) ==
  /\ \E e \in KnownEvents :
        Begin(w, "DeleteEvent", "delete_event_read", [NoRequest EXCEPT !.event = e])
  /\ Unwritten

DeleteEventRead(w) ==
  /\ Check(w, "delete_event_read",
           req[w].event \in events /\ ~IsLive(req[w].event), "delete_event_rows")
  /\ OnlyRead

\* One transaction, rolled back when the event is gone.
DeleteEventRows(w) ==
  /\ At(w, "delete_event_rows")
  /\ Reply(w)
  /\ IF req[w].event \in events
     THEN /\ events' = events \ {req[w].event}
          /\ fences' = {f \in fences : f.event # req[w].event}
          /\ captures' = {c \in captures : c.event # req[w].event}
          /\ UNCHANGED <<now, schedule, lastId, raced>>
     ELSE OnlyRead

SetupStep(w) ==
  \/ CreateFence(w) \/ FenceEvent(w) \/ AddFenceEvent(w) \/ AddFenceInsert(w)
  \/ UpdateEvent(w) \/ UpdateEventRead(w) \/ UpdateEventFences(w) \/ UpdateEventWrite(w)
  \/ DeleteFence(w) \/ DeleteFenceEvent(w) \/ DeleteFenceRow(w)
  \/ DeleteEvent(w) \/ DeleteEventRead(w) \/ DeleteEventRows(w)
=============================================================================
