------------------------------- MODULE SeedData -------------------------------
(***************************************************************************)
(* What the seed writes (prisma/seed.ts): the permissions, the roles and   *)
(* the permissions of each role. The module has no variables.              *)
(***************************************************************************)

PlatformPermissions ==
  {"platform.org.create", "platform.org.read",
   "platform.org.admin.create", "platform.org.admin.read"}

OrgPermissions ==
  {"users.read", "users.write", "roles.read", "buildings.read", "buildings.write",
   "units.read", "units.write", "unitTypes.read", "unitTypes.write",
   "building.assignments.read", "building.assignments.write", "occupancy.read", "occupancy.write",
   "residents.read", "residents.write", "owners.read", "owners.write",
   "requests.read", "requests.write", "requests.assign", "requests.update_status",
   "requests.comment", "org.profile.write"}

SeededPermissions == OrgPermissions \cup {"roles.write"} \cup PlatformPermissions

SeededRolePermissions ==
  [super_admin |-> SeededPermissions,
   org_admin |-> OrgPermissions,
   admin |-> {"users.read", "users.write", "roles.read", "unitTypes.read", "owners.read"},
   viewer |-> {"users.read", "roles.read"},
   resident |-> {},
   platform_superadmin |-> PlatformPermissions]
===============================================================================
