-------------------------- MODULE MCAttendanceStores --------------------------
(***************************************************************************)
(* The two stores: Attendance is about the one of MySQL, MemoryStore about *)
(* the one in memory.  They share no state, so that a behaviour is about   *)
(* one of them, its part, and the other stays as it began.                 *)
(***************************************************************************)
EXTENDS MCAttendance

CONSTANTS
  MemoryUsers, MemorySchedules, \* attendees and schedules of the store in memory
  MaxEvents, MaxRows, MaxFences, MaxClock \* its bounds

VARIABLES
  part, \* what the behaviour is about
  mEventSeq, mFenceSeq, mJoinSeq, mAttendanceSeq, mEvents, mFences, mJoins, mAttendance,
  mConsent, mUserConsents, mJoinByUser, mPresentUser, mNow

mVars == <<mEventSeq, mFenceSeq, mJoinSeq, mAttendanceSeq, mEvents, mFences, mJoins, mAttendance,
           mConsent, mUserConsents, mJoinByUser, mPresentUser, mNow>>

\* A short schedule, and one around it.
MCMemorySchedules == {From2, [start |-> 2, end |-> 4]}

Memory ==
  INSTANCE MemoryStore WITH
    Users <- MemoryUsers, Schedules <- MemorySchedules, MaxTime <- MaxClock,
    eventSeq <- mEventSeq, fenceSeq <- mFenceSeq, joinSeq <- mJoinSeq,
    attendanceSeq <- mAttendanceSeq, events <- mEvents, fences <- mFences, joins <- mJoins,
    attendance <- mAttendance, consent <- mConsent, userConsents <- mUserConsents,
    joinByUser <- mJoinByUser, presentUser <- mPresentUser, now <- mNow

ASSUME PartsAssumption == Memory!MemoryStoreAssumption

PartsInit == part \in {"mysql", "memory"} /\ Init /\ Memory!Init

PartsNext ==
  \/ part = "mysql" /\ Next /\ UNCHANGED <<part, mVars>>
  \/ part = "memory" /\ Memory!Next /\ UNCHANGED <<part, vars>>

PartsSpec == PartsInit /\ [][PartsNext]_<<part, vars, mVars>>

\* Whatever the order of operations, the maps of the in-memory store agree.
MemoryMapsAgree == Memory!MemoryMapsAgree
=============================================================================
