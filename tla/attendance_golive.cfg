SPECIFICATION SidesSpec
CONSTANTS
  e1 = e1
  e2 = e2
  Nil = Nil
  Users = {u1}
  Events = {e1, e2}
  Fences = {}
  Workers = {w1}
  Schedules <- MCSchedules
  ScheduleOf <- MCSchedule
  Handlers <- GoLiveHandlers
  Sources = {"manual"}
  MaxTime = 3
  MaxId = 2
  Retention = 1
  MaxAlerts = 1
  NoEvent = NoEvent
  PollUsers = {p1}
  LiveEvents = {live}
  PollMembers <- EveryMember
  PollTokens = {}
  PollPrefs = {}
  PollHandlers <- AnswerHandlers
  PollWorkers = {pw1, pw2}
  HasNotifier = FALSE
  MaxNotices = 2
  MaxDevices = 0
  MaxJoins = 0
CHECK_DEADLOCK FALSE
INVARIANTS
  EarlyJoinersAlerted
PROPERTIES
  GoLiveProcessed
  AlertsAreAnswered
