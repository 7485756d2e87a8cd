SPECIFICATION PartsSpec
CONSTANTS
  Nil = Nil
  Events = {e1}
  Workers = {w1, w2}
  Rotations = {0, 1}
  MaxTime = 3
  MaxTokens = 3
  JoinEvents = {old, new}
  OldEvents = {old}
  People = {m1}
  FormUsers = {u1}
  FormTemplates <- MCTemplates
  SentForms <- MCForms
  MaxSaves = 2
  KeyLetters = {"a", "b"}
  KeyCustom = "c"
  KeyPresets = {"e", "p"}
  KeyRequired = {"e"}
  KeyLabels <- MCLabels
  KeysSent <- MCKeysSent
  KeyCut = 2
  NoEvent = NoEvent
  PollUsers = {p1}
  LiveEvents = {live}
  PollMembers = {}
  PollTokens = {}
  PollPrefs = {}
  PollHandlers <- InboxHandlers
  PollWorkers = {w1, w2}
  HasNotifier = FALSE
  MaxNotices = 2
  MaxDevices = 0
  MaxJoins = 2
INVARIANTS
  DisabledHasNoCode
  CodeShownIsAccepted
  ConfirmedIsCounted
  KeysSettle
  AlertsAreHandedOver
PROPERTIES
  ReplacedForGood
  JoinCodesHold
  ConsentAnswersForm
SYMMETRY Symmetry
