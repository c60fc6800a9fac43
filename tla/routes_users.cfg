SPECIFICATION RoutesSpec
CONSTANTS
  ann = ann
  pat = pat
  orgA = orgA
  orgB = orgB
  b1 = b1
  b2 = b2
  NoOrg = NoOrg
  NoBuilding = NoBuilding
  Users = {ann, pat}
  Orgs = {orgA, orgB}
  Buildings = {b1, b2}
  BuildingOrg <- MCBuildingOrg
  Routes <- MCRoutes
  Permissions <- MCPermissions
  Documented <- MCDocumented
  Unlike <- MCUnlike
  Profiles <- MCProfiles
  FirstAccount <- MCFirstAccount
  Types = {"BUILDING_ADMIN", "MANAGER", "STAFF"}
  Calls = {c1}
  MaxChanges = 2
  NoOrgId = NoOrgId
  PermissionKeys = {"users.read", "users.write"}
  RolePermissions <- MCRolePermissions
  UnitTypes = {"Shop"}
  Runs = {s1, s2, s3}
  OrgIds = {o1, o2}
  MaxOverlap = 2
  MaxRenames = 1
INVARIANT
  UsersAsDocumented
