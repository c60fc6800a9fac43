SPECIFICATION LinksSpec
CONSTANTS
  u = u
  r1 = r1
  r2 = r2
  read = read
  write = write
  h1 = h1
  h2 = h2
  h3 = h3
  Users = {u}
  Roles = {r1, r2}
  Permissions = {read, write}
  FirstLinks <- FirstAccess
  Requests <- MCChanges
  Calls = {h1, h2, h3}
  Checks = {c1}
  MaxOverlap = 3
  MayFail = TRUE
  u1 = u1
  u2 = u2
  v1 = v1
  a1 = a1
  a2 = a2
  z1 = z1
  here = here
  there = there
  Units = {u1, u2, v1}
  Amenities = {a1, a2, z1}
  Buildings = {here, there}
  UnitBuilding <- MCUnitBuilding
  AmenityBuilding <- MCAmenityBuilding
  Labels = {"101", "102", "1"}
  NoLabel = NoLabel
  Fields = {"owner", "type"}
  Values = {"x", "y"}
  FirstLabel <- MCFirstLabel
  FirstAmenityLinks <- MCFirstLinks
  Bodies <- MCRequests
  Edits = {e1, e2, e3}
  Counts = {d1, d2}
  Switched = {a2}
  Rented = {u1, u2, v1}
  MaxEdits = 3
  Omitted = Omitted
INVARIANTS
  AgreedStays
  DeniedIsNeverFound
  CheckSeesWholeChanges
  LinkedWithinBuilding
  UpdatesMerge
PROPERTY
  ReplacedExactly
SYMMETRY MCSymmetry
CHECK_DEADLOCK FALSE
