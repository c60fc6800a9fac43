SPECIFICATION MCSpec
CONSTANTS
  ann = ann
  bob = bob
  new = new
  n1 = n1
  n2 = n2
  n3 = n3
  b1 = b1
  b2 = b2
  r1 = r1
  r2 = r2
  r3 = r3
  h1 = h1
  h2 = h2
  Users = {ann, bob, new}
  Residents = {ann, bob}
  Units = {n1, n2, n3}
  UnitBuilding <- MCUnitBuilding
  Rows = {r1, r2, r3}
  Handlers = {h1, h2}
  Calls <- Ops
  NoUser = NoUser
  NoUnit = NoUnit
  NoHandler = NoHandler
CHECK_DEADLOCK FALSE
INVARIANTS
  OneActivePerUnit
