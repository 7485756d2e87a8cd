SPECIFICATION Spec
CONSTANTS
  e1 = e1
  e2 = e2
  Nil = Nil
  Users = {u1}
  Events = {e1}
  Fences = {}
  Workers = {w1}
  Schedules <- MCSchedules
  ScheduleOf <- MCSchedule
  Handlers <- RescheduledHandlers
  Sources = {"manual"}
  MaxTime = 4
  MaxId = 0
  Retention = 1
  MaxAlerts = 1
INVARIANT
  ProcessedInItsWindow
