--------------------------- MODULE BuildingAccess ---------------------------
(***************************************************************************)
(* Who may act on a building: the decisions of BuildingAccessService and   *)
(* BuildingAccessGuard (src/common/building-access, src/common/guards).    *)
(*                                                                         *)
(* The module has no variables.  The rows the decisions read are           *)
(* constants: no operation of the program deletes a building assignment,   *)
(* and the permissions and organisations of the users involved do not      *)
(* change while a request handler runs in the models that extend it.       *)
(***************************************************************************)

CONSTANTS
  Users,        \* users, tenants and staff alike
  Buildings,
  UserOrg,      \* the organisation a user acts in (assertOrgScope)
  BuildingOrg,  \* the organisation that owns a building
  Assignments,  \* BuildingAssignment rows <<user, building, type>>
  Occupied,     \* buildings in which a user has an ACTIVE occupancy
  Permitted     \* effective permissions, as pairs <<user, permission>>

AssignmentTypes == {"BUILDING_ADMIN", "MANAGER", "STAFF"}

ASSUME AccessAssumption ==
  /\ Assignments \subseteq Users \X Buildings \X AssignmentTypes
  /\ Occupied \in [Users -> SUBSET Buildings]

AssertBuildingInOrg(b, u) == BuildingOrg[b] = UserOrg[u]

Assigned(u, b, type) == <<u, b, type>> \in Assignments

(* A user may hold several assignments in a building; the strongest counts. *)
GetBuildingAssignmentType(b, u) ==
  CASE Assigned(u, b, "BUILDING_ADMIN") -> "BUILDING_ADMIN"
    [] Assigned(u, b, "MANAGER") /\ ~Assigned(u, b, "BUILDING_ADMIN") -> "MANAGER"
    [] Assigned(u, b, "STAFF") /\ ~Assigned(u, b, "MANAGER")
         /\ ~Assigned(u, b, "BUILDING_ADMIN") -> "STAFF"
    [] OTHER -> "NONE"

HasActiveOccupancy(b, u) == b \in Occupied[u]

HasGlobalPermission(u, permission) == <<u, permission>> \in Permitted

CanReadBuildingResource(u, b, permission, allowResident) ==
  /\ AssertBuildingInOrg(b, u)
  /\ \/ HasGlobalPermission(u, permission)
     \/ GetBuildingAssignmentType(b, u) # "NONE"
     \/ allowResident /\ HasActiveOccupancy(b, u)

CanWriteBuildingResource(u, b, permission, allowManagerWrite) ==
  /\ AssertBuildingInOrg(b, u)
  /\ \/ HasGlobalPermission(u, permission)
     \/ GetBuildingAssignmentType(b, u) = "BUILDING_ADMIN"
     \/ allowManagerWrite /\ GetBuildingAssignmentType(b, u) = "MANAGER"
=============================================================================
