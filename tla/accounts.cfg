SPECIFICATION PartsSpec
CONSTANTS
  m1 = m1
  m2 = m2
  g1 = g1
  g2 = g2
  Empty = Empty
  Nil = Nil
  Emails = {m1, m2}
  Passwords = {p1, p2}
  Profiles <- MCProfiles
  Workers = {w1, w2}
  MaxId = 3
  Attendees = {u1}
  Staff = {s1}
  Orgs = {o1, o2}
  Events = {e1}
  EventOrg <- TheEventOrg
  GuardWorkers = {gw1}
  TTL = 1
  MaxTime = 1
  MaxTokens = 1
  MaxChanges = 1
CHECK_DEADLOCK FALSE
INVARIANTS
  OneOwnerPerEmail
  GoogleAnswersItsAccount
  OrganizationsHaveOwner
  HandledIfEntitled
PROPERTIES
  PasswordNeedsCurrent
  DeletedForGood
SYMMETRY Symmetry
