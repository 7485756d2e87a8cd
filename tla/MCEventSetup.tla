---------------------------- MODULE MCEventSetup ----------------------------
(***************************************************************************)
(* The constants of the runs of EventSetup.                                *)
(***************************************************************************)
EXTENDS EventSetup, TLC

MCSchedules == {[start |-> 2, end |-> 4], [start |-> 3, end |-> 4]}

OneSchedule == {[start |-> 2, end |-> 3]}

\* Inherited, the end inherited, and both bounds given.
MCFenceTimes ==
  {NoTimes, [start |-> 2, end |-> ZeroTime], [start |-> 3, end |-> 4]}
InheritedTimes == {NoTimes}

AllHandlers ==
  {"CreateEvent", "CreateFence", "UpdateEvent", "DeleteFence", "DeleteEvent",
   "CreateCapture", "GetActive", "AppendPoint", "Apply"}

\* What phones and open dashboards send while the organizer does something else.
Polling == {"GetActive", "AppendPoint"}

\* What it takes to apply a capture.
ApplyHandlers == {"CreateEvent", "CreateCapture", "AppendPoint", "Apply"}

\* As many points as it takes to apply a capture.
FewestPoints == [s \in Shapes |-> IF s = "circle" THEN 2 ELSE 3]

Symmetry == Permutations(Workers)
=============================================================================
