SPECIFICATION TopicsSpec
CONSTANTS
  e1 = e1
  e2 = e2
  Nil = Nil
  Users = {u1}
  Events = {e1}
  Fences = {f1}
  Workers = {w1, w2}
  Schedules <- MCSchedules
  ScheduleOf <- MCSchedule
  Handlers <- SessionHandlers
  Sources = {"manual"}
  MaxTime = 2
  MaxId = 2
  Retention = 0
  MaxAlerts = 1
  NumFences = {"hall", "yard"}
  NumCircles = {"yard"}
  NumArea <- MCArea
  NumWindow <- MCWindow
  NumTimes <- MCTimes
  NumAttendees = {"m1"}
  NumMarks <- MCMarks
  NumHour = 1
  NumDay = 2
  NumTwoDays = 1
  NumYear = 3
  NumRows = 2
  NumTime = 4
CHECK_DEADLOCK FALSE
INVARIANT
  NumbersAgree
PROPERTY
  LateLedger
SYMMETRY Symmetry
