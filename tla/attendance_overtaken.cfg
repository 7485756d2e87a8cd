SPECIFICATION Spec
CONSTANTS
  e1 = e1
  e2 = e2
  Nil = Nil
  Users = {u1}
  Events = {e1}
  Fences = {f1}
  Workers = {w1}
  Schedules <- MCSchedules
  ScheduleOf <- MCSchedule
  Handlers <- OvertakenHandlers
  Sources = {"manual"}
  MaxTime = 3
  MaxId = 2
  Retention = 1
  MaxAlerts = 1
INVARIANT
  OpenSessionsClosedAtGoLive
