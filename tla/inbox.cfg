SPECIFICATION MCSpec
CONSTANTS
  u1 = u1
  u2 = u2
  h1 = h1
  h2 = h2
  h3 = h3
  h4 = h4
  Notes = {1, 2, 3, 4}
  Owner <- MCOwner
  Calls = {h1, h2, h3, h4}
  Caller <- MCCaller
  Ops <- AllOps
  MaxTime = 2
  MaxOverlap = 3
  MayFail = TRUE
  Never = Never
  Walker = u1
  Limits = {1, 2}
CHECK_DEADLOCK FALSE
INVARIANTS
  NothingIsSkipped
  SerialSync
PROPERTIES
  ReadIsOnce
  NoUndoToldTruly
