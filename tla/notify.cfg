SPECIFICATION NotifySpec
CONSTANTS
  res = res
  tech = tech
  boss = boss
  other = other
  o1 = o1
  o2 = o2
  b1 = b1
  Users = {res, tech, boss, other}
  UserOrg <- MCUserOrg
  Staff = {tech}
  Candidates = {boss, other}
  Buildings = {b1}
  BuildingOrg <- MCBuildingOrg
  Requests = {r1}
  Building <- MCBuilding
  Creator <- MCCreator
  Types <- EventTypes
  MaxEvents = 4
  MaxInFlight = 2
  MayFail = TRUE
  MayCrash = TRUE
  NoUser = NoUser
  manager = manager
  platform = platform
  home = home
  away = away
  n1 = n1
  n2 = n2
  s1 = s1
  s2 = s2
  s3 = s3
  GatewayUsers <- MCUsers
  Orgs = {home, away}
  Sockets = {s1, s2, s3}
  Notes = {n1, n2}
  NoteRoom <- MCNoteRoom
  FirstOrg <- MCFirstOrg
  NoOrg = NoOrg
  NoOne = NoOne
  NoRoom = NoRoom
  MaxRestarts = 1
CHECK_DEADLOCK FALSE
INVARIANTS
  ActorOnlyAlone
  ConcernedAreTold
  NothingFallsBetween
  PatientCountIsExact
PROPERTIES
  ImplementsAnnouncement
