----------------------------- MODULE MCAttendance -----------------------------
(***************************************************************************)
(* The constants of the runs of Attendance.                                *)
(***************************************************************************)
EXTENDS Attendance, TLC

CONSTANTS e1, e2

From2 == [start |-> 2, end |-> 3]
From3 == [start |-> 3, end |-> 4]

MCSchedule == [e \in Events |-> IF e = e1 THEN From2 ELSE From3]
MCSchedules == {From2, From3}

AllHandlers ==
  {"UpdateEvent", "JoinByQR", "LeaveEvent", "SubmitConsent", "SaveTemplate", "ClockIn", "ClockOut",
   "MarkPresent", "SetScanRequired", "DeleteFence", "DeleteEvent", "DeleteAccount",
   "TrimHistory", "GoLive"}

\* Everything a client can ask for, but for the times of an event.
RequestHandlers == AllHandlers \ {"GoLive", "TrimHistory", "UpdateEvent"}

\* The writers of joins and attendance rows.
PresentHandlers ==
  {"JoinByQR", "LeaveEvent", "ClockIn", "ClockOut", "MarkPresent", "DeleteEvent", "DeleteAccount"}

\* The writers of the activity history.
SessionHandlers == {"JoinByQR", "ClockIn", "ClockOut", "DeleteAccount", "TrimHistory", "GoLive"}

\* What the go-live job races with.
GoLiveHandlers == {"JoinByQR", "DeleteEvent", "UpdateEvent", "GoLive"}

\* A clock-in that the go-live job overtakes.
OvertakenHandlers == {"JoinByQR", "ClockIn", "GoLive"}

\* An event that goes live again.
RescheduledHandlers == {"UpdateEvent", "GoLive"}

Symmetry == Permutations(Users) \cup Permutations(Workers)
=============================================================================
