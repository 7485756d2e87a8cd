SPECIFICATION HalvesSpec
CONSTANTS
  e1 = e1
  e2 = e2
  Nil = Nil
  Listed = {l1, l2, l3}
  ListTime = 2
  ListChanges = 2
  ListDefault = 1
  ListCap = 2
  ListAsked = 4
  ListLimits = {0, 4}
  Users = {u1}
  Events = {e1}
  Fences = {f1}
  Workers = {w1}
  Schedules <- MCSchedules
  ScheduleOf <- MCSchedule
  Handlers <- PresentHandlers
  Sources = {"manual"}
  MaxTime = 2
  MaxId = 4
  Retention = 1
  MaxAlerts = 1
CHECK_DEADLOCK FALSE
INVARIANTS
  OneJoinRow
  ListsAreRight
  SessionHasAttendance
  MarkPresentOnce
SYMMETRY ListedSymmetry
