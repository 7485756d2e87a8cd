SPECIFICATION PartsSpec
CONSTANTS
  Nil = Nil
  Users = {u1}
  Organizers = {}
  Owners = {d1, d2}
  LiveEvents = {live}
  DeviceMembers <- TheMembers
  DeviceTokens = {phone}
  DevicePrefs <- ThePrefs
  HasNotifier = TRUE
  DeviceHandlers <- TheHandlers
  MaxNotices = 1
  MaxRows = 1
  MaxJoins = 0
  Workers = {w1, w2}
  Purposes = {"registration", "reset"}
  maxOTPAttempts = 1
  TTL = 0
  MaxTime = 2
  MaxChallenges = 2
  MaxCodes = 3
CHECK_DEADLOCK FALSE
INVARIANTS
  AtMostOneOpen
  GrantTimely
  GrantedOnce
  AttemptsBounded
  DeliveredAsWanted
PROPERTIES
  ConsumedIsFinal
  OnlyLatestCode
SYMMETRY Symmetry
