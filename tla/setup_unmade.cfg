SPECIFICATION Spec
CONSTANTS
  Nil = Nil
  Events = {e1}
  Workers = {w1}
  Schedules <- OneSchedule
  FenceTimes <- InheritedTimes
  Shapes = {"circle"}
  Handlers <- ApplyHandlers
  Racing = {}
  MaxTime = 1
  MaxId = 2
  MaxPoints <- FewestPoints
  fenceCaptureTTL = 1
CHECK_DEADLOCK FALSE
INVARIANT
  AppliedHasFence
