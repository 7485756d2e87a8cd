SPECIFICATION PartsSpec
CONSTANTS
  e1 = e1
  e2 = e2
  Nil = Nil
  Users = {u1}
  Events = {e1}
  Fences = {f1}
  Workers = {w1}
  Schedules <- MCSchedules
  ScheduleOf <- MCSchedule
  Handlers <- RequestHandlers
  Sources = {"manual", "qr_scan"}
  MaxTime = 3
  MaxId = 2
  Retention = 1
  MaxAlerts = 1
  MemoryUsers = {m1}
  MemorySchedules <- MCMemorySchedules
  MaxEvents = 2
  MaxRows = 2
  MaxFences = 1
  MaxClock = 4
CHECK_DEADLOCK FALSE
INVARIANTS
  NoOrphanRows
PROPERTIES
  GateHonoured
  StrictLedger
  MemoryMapsAgree
