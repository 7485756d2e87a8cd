SPECIFICATION PartsSpec
CONSTANTS
  Nil = Nil
  Events = {e1}
  Workers = {w1, w2}
  Schedules <- MCSchedules
  FenceTimes <- MCFenceTimes
  Shapes = {"circle", "polygon"}
  Handlers <- AllHandlers
  Racing <- Polling
  MaxTime = 2
  MaxId = 2
  MaxPoints <- FewestPoints
  fenceCaptureTTL = 0
  Grid <- MCGrid
  GridLine <- MCGridLine
  MaxCaptured = 4
CHECK_DEADLOCK FALSE
INVARIANTS
  FencesInWindow
  AtMostOneCenter
  ShapesAreSound
  ReportsAreSound
PROPERTIES
  AcceptedPointsStay
  NeverReactivated
SYMMETRY Symmetry
