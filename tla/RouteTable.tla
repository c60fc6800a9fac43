------------------------------ MODULE RouteTable ------------------------------
(***************************************************************************)
(* What the controllers declare of their routes: the guards in the order   *)
(* Nest runs them (those of the class, then those of the method), the      *)
(* permissions of @RequirePermissions, and the building access of          *)
(* @BuildingReadAccess and @BuildingWriteAccess.                           *)
(*                                                                         *)
(* The module has no variables. Handlers are modelled elsewhere; a route   *)
(* is known by its method and path. "refresh" stands for the                *)
(* RefreshTokenGuard, which is modelled in AuthSessions.                    *)
(***************************************************************************)
EXTENDS Sequences

Route(method, path, needs) ==
  [method |-> method, path |-> path, guards |-> <<>>, needs |-> needs,
   level |-> "none", residents |-> FALSE, managers |-> FALSE]

Get(path, needs) == Route("GET", path, needs)

Post(path, needs) == Route("POST", path, needs)

Patch(path, needs) == Route("PATCH", path, needs)

BuildingReadAccess(route, allowResident) ==
  [route EXCEPT !.level = "read", !.residents = allowResident]

BuildingWriteAccess(route, allowManager) ==
  [route EXCEPT !.level = "write", !.managers = allowManager]

Reading(path, needs) == BuildingReadAccess(Get(path, needs), FALSE)

UseGuards(guards, routes) == {[r EXCEPT !.guards = guards \o @] : r \in routes}

Permitted(route) == [route EXCEPT !.guards = <<"permissions">>]

Scoped(route) == [route EXCEPT !.guards = <<"org">>]

-----------------------------------------------------------------------------
(* Accounts and the platform *)

HealthRoutes == {Get("health", {})}

AuthRoutes ==
  {Post("auth/register", {}), Post("auth/login", {}),
   [Post("auth/refresh", {}) EXCEPT !.guards = <<"refresh">>],
   [Post("auth/change-password", {}) EXCEPT !.guards = <<"jwt">>]}

UsersRoutes ==
  UseGuards(<<"jwt", "permissions">>,
    {Get("users/me", {}), Scoped(Get("users/me/assignments", {})),
     Patch("users/me/profile", {}), Get("users/:id", {}),
     Scoped(Post("users", {"users.write"}))})

(* Mutant of OrgUsersRoutes: the permission is not declared *)
OrgUsersUndeclared ==
  UseGuards(<<"jwt", "org", "permissions">>, {Get("org/users", {})})

OrgUsersRoutes ==
  UseGuards(<<"jwt", "org", "permissions">>, {Get("org/users", {"users.read"})})

ProvisionRoutes == UseGuards(<<"jwt", "org">>, {Post("org/users/provision", {})})

UserAccessRoutes ==
  UseGuards(<<"jwt", "permissions">>,
    {Post("users/:userId/roles", {"users.write"}),
     Post("users/:userId/permissions", {"users.write"})})

RolesRoutes ==
  UseGuards(<<"jwt", "permissions">>,
    {Get("roles", {"roles.read"}), Post("roles", {"roles.write"}),
     Post("roles/:roleId/permissions", {"roles.write"})})

PermissionsRoutes ==
  UseGuards(<<"jwt", "permissions">>, {Get("permissions", {"roles.read"})})

PlatformOrgsRoutes ==
  UseGuards(<<"platform">>,
    {Post("platform/orgs", {"platform.org.create"}),
     Get("platform/orgs", {"platform.org.read"}),
     Post("platform/orgs/:orgId/admins", {"platform.org.admin.create"}),
     Get("platform/orgs/:orgId/admins", {"platform.org.admin.read"})})

PlatformOrgAdminsRoutes ==
  UseGuards(<<"platform">>, {Get("platform/org-admins", {"platform.org.admin.read"})})

-----------------------------------------------------------------------------
(* An organisation and its buildings *)

OrgProfileRoutes ==
  UseGuards(<<"jwt", "org">>,
    {Get("org/profile", {}), Permitted(Patch("org/profile", {"org.profile.write"}))})

UnitTypesRoutes ==
  UseGuards(<<"jwt", "org", "permissions">>,
    {Get("org/unit-types", {"unitTypes.read"}), Post("org/unit-types", {"unitTypes.write"})})

OwnersRoutes ==
  UseGuards(<<"jwt", "org", "permissions">>,
    {Get("org/owners", {"owners.read"}), Post("org/owners", {"owners.write"})})

BuildingsRoutes ==
  UseGuards(<<"jwt", "org">>,
    {Permitted(Post("org/buildings", {"buildings.write"})),
     Permitted(Get("org/buildings", {"buildings.read"})),
     Get("org/buildings/assigned", {}),
     [Reading("org/buildings/:buildingId", {"buildings.read"}) EXCEPT !.guards = <<"building">>]})

InBuilding(routes) == UseGuards(<<"jwt", "org", "building">>, routes)

BuildingAmenitiesRoutes ==
  InBuilding(
    {Reading("amenities", {"buildings.read"}),
     BuildingWriteAccess(Post("amenities", {"buildings.write"}), TRUE),
     BuildingWriteAccess(Patch("amenities/:amenityId", {"buildings.write"}), TRUE)})

UnitsRoutes ==
  InBuilding(
    {BuildingWriteAccess(Post("units", {"units.write"}), TRUE),
     BuildingReadAccess(Get("units/basic", {"units.read"}), TRUE),
     BuildingWriteAccess(Patch("units/:unitId", {"units.write"}), TRUE)}
    \cup {Reading(path, {"units.read"}) : path \in {"units", "units/count", "units/:unitId"}})

BuildingAssignmentsRoutes ==
  InBuilding(
    {BuildingWriteAccess(Post("assignments", {"building.assignments.write"}), TRUE),
     Reading("assignments", {"building.assignments.read"})})

OccupanciesRoutes ==
  InBuilding(
    {BuildingWriteAccess(Post("occupancies", {"occupancy.write"}), FALSE)}
    \cup {Reading(path, {"occupancy.read"}) : path \in {"occupancies", "occupancies/count"}})

ResidentsRoutes ==
  InBuilding(
    {BuildingWriteAccess(Post("residents", {"residents.write"}), TRUE),
     Reading("residents", {"residents.read"})})

(* Whoever may read in the building may move a request and comment on it.    *)
BuildingRequestsRoutes ==
  LET Acting(path, needs) == BuildingReadAccess(Post(path, needs), FALSE) IN
  InBuilding(
    {Reading("requests", {"requests.read"}), Reading("requests/:requestId", {"requests.read"}),
     BuildingWriteAccess(Post("requests/:requestId/assign", {"requests.assign"}), TRUE),
     Acting("requests/:requestId/status", {"requests.update_status"}),
     Acting("requests/:requestId/cancel", {"requests.update_status"}),
     Acting("requests/:requestId/comments", {"requests.comment"}),
     Reading("requests/:requestId/comments", {"requests.comment"}),
     Acting("requests/:requestId/attachments", {"requests.comment"})})

-----------------------------------------------------------------------------
(* A user's own *)

Own(method, paths) ==
  UseGuards(<<"jwt", "org">>, {Route(method, path, {}) : path \in paths})

ResidentRequestsRoutes ==
  Own("GET", {"resident/requests", "resident/requests/:requestId",
              "resident/requests/:requestId/comments"})
  \cup Own("POST", {"resident/requests", "resident/requests/:requestId/cancel",
                    "resident/requests/:requestId/comments"})
  \cup Own("PATCH", {"resident/requests/:requestId"})

ResidentProfileRoutes == Own("GET", {"resident/me"})

NotificationsRoutes ==
  Own("GET", {"notifications"})
  \cup Own("POST", {"notifications/:id/read", "notifications/read-all",
                    "notifications/:id/dismiss", "notifications/:id/undismiss"})

DevNotificationsRoutes == Own("POST", {"dev/notifications/create"})

AllRoutes ==
  UNION {HealthRoutes, AuthRoutes, UsersRoutes, OrgUsersRoutes, ProvisionRoutes,
         UserAccessRoutes, RolesRoutes, PermissionsRoutes, PlatformOrgsRoutes,
         PlatformOrgAdminsRoutes, OrgProfileRoutes, UnitTypesRoutes, OwnersRoutes,
         BuildingsRoutes, BuildingAmenitiesRoutes, UnitsRoutes, BuildingAssignmentsRoutes,
         OccupanciesRoutes, ResidentsRoutes, BuildingRequestsRoutes, ResidentRequestsRoutes,
         ResidentProfileRoutes, NotificationsRoutes, DevNotificationsRoutes}
===============================================================================
