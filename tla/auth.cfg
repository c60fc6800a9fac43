SPECIFICATION MCSpec
CONSTANTS
  given = given
  free = free
  Users <- MCUsers
  Passwords = {p1, p2}
  NoPassword = NoPassword
  FirstPassword <- MCFirstPassword
  NoToken = NoToken
  Calls = {c1, c2, c3}
  MaxTime = 3
  Lifetime = 2
  MaxOverlap = 3
  MayFail = TRUE
CHECK_DEADLOCK FALSE
INVARIANTS
  SerialRotation
PROPERTIES
  CurrentCredentials
