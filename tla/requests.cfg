SPECIFICATION MCSpec
CONSTANTS
  res = res
  stf1 = stf1
  stf2 = stf2
  mgr = mgr
  alien = alien
  gone = gone
  b1 = b1
  b2 = b2
  org1 = org1
  org2 = org2
  Users <- MCUsers
  Buildings <- MCBuildings
  UserOrg <- MCUserOrg
  BuildingOrg <- MCBuildingOrg
  Assignments <- MCAssignments
  Occupied <- MCOccupied
  Permitted <- MCPermitted
  Requests = {q1}
  Handlers = {h1, h2}
  Texts = {t1, t2}
  StatusBodies <- AnyBody
  Inactive = {gone}
  NoUser = NoUser
  NoBuilding = NoBuilding
  NoText = NoText
  MayCrash = TRUE
SYMMETRY HandlerSymmetry
INVARIANTS
  AssigneeIsBuildingStaff
  ProgressOrder
  ClosedIsStamped
  AnnouncedHappened
  DocumentedWorkHasAssignee
  AnnouncedIsCurrent
PROPERTIES
  SerialWorkflow
