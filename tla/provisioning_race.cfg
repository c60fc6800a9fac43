SPECIFICATION RaceSpec
CONSTANTS
  boss = boss
  rival = rival
  caps = caps
  low = low
  gone = gone
  o1 = o1
  o2 = o2
  b1 = b1
  b2 = b2
  b3 = b3
  h1 = h1
  h2 = h2
  h3 = h3
  Emails = {boss, rival, caps, low, gone}
  Lower <- MCLower
  Orgs = {o1, o2}
  Buildings = {b1, b2, b3}
  BuildingOrg <- MCBuildingOrg
  NoOrg = NoOrg
  NoAccount = NoAccount
  FirstTables <- MCFirstTables
  Registering = {low}
  Requests <- MCRequests
  Calls = {h1, h2, h3}
  MaxOverlap = 2
  MayFail = TRUE
CHECK_DEADLOCK FALSE
INVARIANT
  AssignedWithinOrg
