SPECIFICATION Spec
CONSTANTS
  m1 = m1
  m2 = m2
  g1 = g1
  g2 = g2
  Empty = Empty
  Emails = {m1, m2}
  Passwords = {p1}
  Profiles <- MCProfiles
  Workers = {w1}
  MaxId = 2
CHECK_DEADLOCK FALSE
PROPERTY
  RefusedOnlyIfTaken
