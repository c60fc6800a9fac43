----------------------------- MODULE MCRouteAccess -----------------------------
(***************************************************************************)
(* Small instances of RouteAccess for TLC, with a member of an             *)
(* organisation and an account without one; of RequestMetrics, which       *)
(* measures the same requests; and of Seed, which makes the roles that the *)
(* guards read. The three share no state. What happens is chosen at the    *)
(* start and kept:                                                         *)
(*   all      every route of the controllers, and one change of the world; *)
(*   kinds    one route of each kind, and two changes;                     *)
(*   metrics  requests are measured and reported;                          *)
(*   seed     the seed is run, in the scenarios of MCSeed.                 *)
(***************************************************************************)
EXTENDS RouteAccess, RouteTable, MCSeed

CONSTANTS ann, pat, orgA, orgB, b1, b2

VARIABLES traffic, now, running, samples, finished, log

metrics == <<now, running, samples, finished, log>>

routesVars == <<vars, metrics, mcvars, traffic>>

SD == INSTANCE SeedData

M == INSTANCE RequestMetrics WITH
       Routes <- {"route"}, Requests <- {"q1", "q2"},
       MaxSamples <- 4, MaxTime <- 3, MaxFinished <- 5

ASSUME MetricsConstants == M!MetricsAssumption

(* The controllers declare a table in which no guard is missing.             *)
ASSUME ControllersTable == TableIsGuarded /\ TableIsMatched

MCPermissions == SD!SeededPermissions

Profile(role) ==
  [held |-> SD!SeededRolePermissions[role], platform |-> role = "platform_superadmin"]

AllProfiles ==
  {Profile(role) : role \in {"super_admin", "viewer", "resident", "platform_superadmin"}}

FewProfiles == {Profile(role) : role \in {"org_admin", "resident", "platform_superadmin"}}

MCProfiles == AllProfiles \cup FewProfiles

MCBuildingOrg == [b \in {b1, b2} |-> IF b = b1 THEN orgA ELSE orgB]

MCFirstAccount ==
  [u \in {ann, pat} |-> [org |-> IF u = ann THEN orgA ELSE NoOrg, active |-> TRUE,
                         profile |-> Profile("resident")]]

(* RefreshTokenGuard is modelled in AuthSessions.                            *)
MCRoutes == {r \in AllRoutes : ~Has(r, "refresh")}

(* "Requires `...`" in docs/API.md, by permission.  What it says of the        *)
(* provisioning route, a permission or a manager of the building, is for its *)
(* handler to check (Provisioning).                                          *)
Requires ==
  {<<"users.read", "GET", {"users/me", "users/:id", "org/users"}>>,
   <<"users.write", "POST", {"users", "users/:userId/roles", "users/:userId/permissions"}>>,
   <<"roles.read", "GET", {"permissions", "roles"}>>,
   <<"roles.write", "POST", {"roles", "roles/:roleId/permissions"}>>,
   <<"platform.org.read", "GET", {"platform/orgs"}>>,
   <<"platform.org.create", "POST", {"platform/orgs"}>>,
   <<"platform.org.admin.read", "GET", {"platform/orgs/:orgId/admins", "platform/org-admins"}>>,
   <<"platform.org.admin.create", "POST", {"platform/orgs/:orgId/admins"}>>,
   <<"buildings.read", "GET", {"org/buildings", "org/buildings/:buildingId", "amenities"}>>,
   <<"buildings.write", "POST", {"org/buildings", "amenities"}>>,
   <<"buildings.write", "PATCH", {"amenities/:amenityId"}>>,
   <<"units.read", "GET", {"units", "units/:unitId", "units/basic", "units/count"}>>,
   <<"units.write", "POST", {"units"}>>, <<"units.write", "PATCH", {"units/:unitId"}>>,
   <<"unitTypes.read", "GET", {"org/unit-types"}>>, <<"unitTypes.write", "POST", {"org/unit-types"}>>,
   <<"owners.read", "GET", {"org/owners"}>>, <<"owners.write", "POST", {"org/owners"}>>,
   <<"building.assignments.write", "POST", {"assignments"}>>,
   <<"building.assignments.read", "GET", {"assignments"}>>,
   <<"occupancy.write", "POST", {"occupancies"}>>,
   <<"occupancy.read", "GET", {"occupancies", "occupancies/count"}>>,
   <<"residents.write", "POST", {"residents"}>>, <<"residents.read", "GET", {"residents"}>>,
   <<"requests.read", "GET", {"requests", "requests/:requestId"}>>,
   <<"requests.assign", "POST", {"requests/:requestId/assign"}>>,
   <<"org.profile.write", "PATCH", {"org/profile"}>>}

(* Where it says nothing, what the controllers declare is right.             *)
MCDocumented ==
  [r \in MCRoutes |->
     LET said == {d[1] : d \in {e \in Requires : e[2] = r.method /\ r.path \in e[3]}}
     IN  IF said = {} THEN r.needs ELSE said]

MCUnlike == {r \in MCRoutes : r.method = "GET" /\ r.path \in {"users/me", "users/:id"}}

(* The table of the documentation names routes that there are.               *)
ASSUME DocumentedRoutes ==
  \A d \in Requires : \A path \in d[3] : \E r \in MCRoutes : r.method = d[2] /\ r.path = path

(* One route of each kind                                                    *)
Kinds ==
  {r \in AllRoutes : r.path \in {"users", "org/profile", "units/basic", "residents", "occupancies",
                                 "platform/orgs", "org/users/provision"}}

RoutesInit ==
  /\ Init /\ M!Init /\ MCInit
  /\ traffic \in {"all", "kinds", "metrics", "seed"}
  /\ traffic # "seed" => scenario = "serial"

Guarded ==
  /\ Next
  /\ traffic = "all" =>
       /\ changes' <= 1
       /\ \A u \in Users : account'[u].profile \in AllProfiles
  /\ traffic = "kinds" =>
       /\ \A c \in Calls : query'[c].pc # "idle" => query'[c].route \in Kinds
       /\ \A u \in Users : account'[u].profile \in FewProfiles

RoutesNext ==
  /\ UNCHANGED traffic
  /\ \/ traffic \in {"all", "kinds"} /\ Guarded /\ UNCHANGED <<metrics, mcvars>>
     \/ traffic = "metrics" /\ M!Next /\ UNCHANGED <<vars, mcvars>>
     \/ traffic = "seed" /\ MCNext /\ UNCHANGED <<vars, metrics>>
     \/ traffic = "seed" /\ UNCHANGED <<vars, metrics, mcvars>>   \* the script ends

RoutesSpec == RoutesInit /\ [][RoutesNext]_routesVars

-----------------------------------------------------------------------------
(* A property that TLC shows not to hold, and one of the metrics *)

(* docs/API.md:93 and :102, GET /users/me and GET /users/:id: "Requires      *)
(* `users.read`".                                                            *)
UsersAsDocumented == \A q \in Of("admitted") : HadRight(q)

(* p50, p95 and p99 of a report are percentiles of the newest durations.     *)
ReportedPercentiles == M!ReportedPercentiles
===============================================================================
