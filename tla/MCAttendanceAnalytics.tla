------------------------ MODULE MCAttendanceAnalytics ------------------------
(***************************************************************************)
(* Attendance, and the numbers that dashboards compute from its rows.      *)
(* Analytics has what it needs of the tables itself and shares no state    *)
(* with Attendance, so that a behaviour is about one of them, its topic,   *)
(* and the other stays as it began.                                        *)
(***************************************************************************)
EXTENDS MCAttendance

\* Those of Analytics.
CONSTANTS
  NumFences, NumCircles, NumArea, NumWindow, NumTimes,   \* fences, places, schedules
  NumAttendees, NumMarks,                                \* who joins, what is recorded
  NumHour, NumDay, NumTwoDays, NumYear, NumRows, NumTime \* how long, how many

VARIABLES
  topic, \* what the behaviour is about
  nEvent, nMade, nFences, nJoins, nAttendance, nNow, nReport, nQuiet, nRaced, nPc, nReq

nVars == <<nEvent, nMade, nFences, nJoins, nAttendance, nNow, nReport, nQuiet, nRaced, nPc, nReq>>

\* Two fences that overlap, one of them for part of the event.
MCArea == [f \in {"hall", "yard"} |-> IF f = "hall" THEN {"door", "stage"} ELSE {"door", "lawn"}]
MCWindow == [f \in {"hall", "yard"} |-> IF f = "hall" THEN [start |-> 2, end |-> 3] ELSE [start |-> 2, end |-> 4]]

MCTimes == [start |-> 2, end |-> 4]

\* A mark, which has a place and no source, and a clock-in that names the fence.
MCMarks == {[user |-> "m1", source |-> "", place |-> "door", fence |-> Nil],
            [user |-> "m2", source |-> "geofence", place |-> "door", fence |-> "hall"]}

Numbers ==
  INSTANCE Analytics WITH
    Workers <- {"dashboard"}, Fences <- NumFences, Circles <- NumCircles, Area <- NumArea,
    Window <- NumWindow, EventTimes <- NumTimes, Attendees <- NumAttendees, Marks <- NumMarks,
    Hour <- NumHour, Day <- NumDay, TwoDays <- NumTwoDays, Year <- NumYear,
    MaxRows <- NumRows, MaxTime <- NumTime,
    event <- nEvent, made <- nMade, fences <- nFences, joins <- nJoins, attendance <- nAttendance,
    now <- nNow, report <- nReport, quiet <- nQuiet, raced <- nRaced, pc <- nPc, req <- nReq

ASSUME TopicsAssumption == Numbers!AnalyticsAssumption

TopicsInit == topic \in {"attendance", "analytics"} /\ Init /\ Numbers!Init

TopicsNext ==
  \/ topic = "attendance" /\ Next /\ UNCHANGED <<topic, nVars>>
  \/ topic = "analytics" /\ Numbers!Next /\ UNCHANGED <<topic, vars>>

TopicsSpec == TopicsInit /\ [][TopicsNext]_<<topic, vars, nVars>>

\* The numbers of an answer add up although its tables were read one after the other; a
\* fence has the number that the event's answer gave it as long as nothing changes,
\* and who is counted as nearby was there at another time.  Rows keep their types.
NumbersAgree ==
  /\ TypeOK /\ Numbers!TypeOK /\ Numbers!NumbersAddUp
  /\ Numbers!FenceAgreesWithEvent /\ Numbers!NearbyIsUntimely
=============================================================================
