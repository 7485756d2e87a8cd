---------------------------- MODULE EventSchedule ----------------------------
(***************************************************************************)
(* The pure schedule functions of internal/domain/schedule.go.  A time is  *)
(* a natural number; 0 is Go's zero time.Time, which the code tests with   *)
(* IsZero.  A schedule is a record with the start and end of an event or   *)
(* of a fence.                                                             *)
(***************************************************************************)
EXTENDS Naturals

ZeroTime == 0

Schedule == [start : Nat, end : Nat]

EventHasSchedule(s) == s.start # ZeroTime /\ s.end # ZeroTime

ValidateEventSchedule(s) == EventHasSchedule(s) /\ s.start < s.end

\* Both ends of the window count as live.
EventIsLive(s, at) ==
  /\ EventHasSchedule(s)
  /\ at # ZeroTime
  /\ s.start <= at
  /\ at <= s.end

\* The fence schedule after omitted bounds are inherited from the event.
InheritSchedule(ev, fence) ==
  [start |-> IF fence.start # ZeroTime THEN fence.start ELSE ev.start,
   end   |-> IF fence.end # ZeroTime THEN fence.end ELSE ev.end]

\* ResolveFenceSchedule returns InheritSchedule(ev, fence) when this holds
\* and an error otherwise.
FenceScheduleFits(ev, fence) ==
  LET s == InheritSchedule(ev, fence)
  IN  /\ ValidateEventSchedule(s)
      /\ EventHasSchedule(ev) => (ev.start <= s.start /\ s.end <= ev.end)

\* A bound that is the zero time does not limit the fence.
FenceActiveAt(s, at) ==
  \/ at = ZeroTime
  \/ /\ s.start = ZeroTime \/ s.start <= at
     /\ s.end = ZeroTime \/ at <= s.end
=============================================================================
