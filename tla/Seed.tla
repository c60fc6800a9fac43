--------------------------------- MODULE Seed ---------------------------------
(***************************************************************************)
(* Runs of the seed (prisma/seed.ts, main) statement by statement: none of *)
(* it is in a transaction, a run may end anywhere and is then started      *)
(* again, and between runs the organisation is used. Rows with a unique    *)
(* key are upserted or inserted with skipDuplicates; the organisation and  *)
(* its building have no such key and are looked for by name.               *)
(***************************************************************************)
EXTENDS Naturals, FiniteSets

CONSTANTS
  PermissionKeys, RolePermissions, \* what the seed lists
  UnitTypes,
  Runs,                            \* runs of the script
  OrgIds, NoOrgId,                 \* ids the database will give
  MaxOverlap, MaxRenames

Roles == DOMAIN RolePermissions

Accounts == {"admin", "superadmin"}

ASSUME SeedAssumption ==
  /\ RolePermissions \in [Roles -> SUBSET PermissionKeys]
  /\ {"org_admin", "platform_superadmin"} \subseteq Roles
  /\ NoOrgId \notin OrgIds

VARIABLES
  rows,       \* permissions, roles, their links, unit types and roles of users, by key
  orgs,       \* organisations: id to whether it is called as in the seed
  halls,      \* buildings called as in the seed: organisation and run that made it
  users,      \* accounts there are, with organisation and who chose the password
  run,        \* the runs
  renames     \* number of renamed organisations so far

seedVars == <<rows, orgs, halls, users, run, renames>>

NotRun == [pc |-> "idle", org |-> NoOrgId, kept |-> TRUE]

SeedInit ==
  /\ rows = {} /\ halls = {} /\ renames = 0
  /\ orgs = [o \in {} |-> TRUE] /\ users = [a \in {} |-> NoOrgId]
  /\ run = [s \in Runs |-> NotRun]

Keys(table) == {r[2] : r \in {q \in rows : q[1] = table}}

Named == {o \in DOMAIN orgs : orgs[o]}

AtWork(s) == run[s].pc \notin {"idle", "done", "failed"}

Go(s, pc) == run' = [run EXCEPT ![s].pc = pc]

Put(table, keys) == rows' = rows \cup {<<table, k>> : k \in keys}

-----------------------------------------------------------------------------
(* The statements of main *)

Start(s) ==
  /\ run[s].pc = "idle" /\ Cardinality({r \in Runs : AtWork(r)}) < MaxOverlap
  /\ Go(s, "permissions") /\ UNCHANGED <<rows, orgs, halls, users, renames>>

(* One row by one, each committed on its own, in any order; a row that is    *)
(* there is left as it is but for its name.                                  *)
UpsertEach(s, pc, table, keys, next) ==
  /\ run[s].pc = pc
  /\ IF keys \subseteq Keys(table)
     THEN Go(s, next) /\ UNCHANGED rows
     ELSE (\E k \in keys \ Keys(table) : Put(table, {k})) /\ UNCHANGED run
  /\ UNCHANGED <<orgs, halls, users, renames>>

SeedPermissions(s) == UpsertEach(s, "permissions", "permission", PermissionKeys, "roles")

SeedRoles(s) == UpsertEach(s, "roles", "role", Roles, "links")

Links == {l \in Roles \X PermissionKeys : l[2] \in RolePermissions[l[1]]}

(* Mutant of SeedRolePermissions: only for a role that has none *)
SeedNewRoles(s) ==
  /\ run[s].pc = "links" /\ Go(s, "org")
  /\ Put("link", {l \in Links : \A k \in Keys("link") : k[1] # l[1]})
  /\ UNCHANGED <<orgs, halls, users, renames>>

SeedRolePermissions(s) ==
  /\ run[s].pc = "links" /\ Go(s, "org")
  /\ Put("link", {l \in Links : l[1] \in Keys("role") /\ l[2] \in Keys("permission")})
  /\ UNCHANGED <<orgs, halls, users, renames>>

(* findFirst: any of those with the name *)
FindOrg(s) ==
  /\ run[s].pc = "org"
  /\ IF Named = {} THEN Go(s, "neworg")
     ELSE \E o \in Named : run' = [run EXCEPT ![s].pc = "unittypes", ![s].org = o]
  /\ UNCHANGED <<rows, orgs, halls, users, renames>>

CreateOrg(s) ==
  /\ run[s].pc = "neworg"
  /\ \E o \in OrgIds \ DOMAIN orgs :
       /\ orgs' = [i \in DOMAIN orgs \cup {o} |-> IF i = o THEN TRUE ELSE orgs[i]]
       /\ run' = [run EXCEPT ![s].pc = "unittypes", ![s].org = o]
  /\ UNCHANGED <<rows, halls, users, renames>>

SeedUnitTypes(s) ==
  UpsertEach(s, "unittypes", "unittype", {<<run[s].org, t>> : t \in UnitTypes}, "admin")

UpsertUser(s, pc, a, o, next) ==
  /\ run[s].pc = pc /\ Go(s, next)
  /\ users' = [b \in DOMAIN users \cup {a} |->
                 IF b # a THEN users[b]
                 ELSE [org |-> o, password |-> IF a \in DOMAIN users THEN users[a].password ELSE "seed"]]
  /\ UNCHANGED <<rows, orgs, halls, renames>>

GiveRole(s, pc, a, role, next) ==
  /\ run[s].pc = pc /\ Go(s, next)
  /\ Put("member", {<<a, r>> : r \in {role} \cap Keys("role")})
  /\ UNCHANGED <<orgs, halls, users, renames>>

SeedOrgAdmin(s) ==
  \/ UpsertUser(s, "admin", "admin", run[s].org, "adminrole")
  \/ GiveRole(s, "adminrole", "admin", "org_admin", "superadmin")

SeedPlatformSuperadmin(s) ==
  \/ UpsertUser(s, "superadmin", "superadmin", NoOrgId, "superadminrole")
  \/ GiveRole(s, "superadminrole", "superadmin", "platform_superadmin", "building")

InOrg(o) == {h \in halls : h[1] = o}

(* Mutant of FindBuilding: it is not looked for *)
FindNoBuilding(s) ==
  /\ run[s].pc = "building" /\ Go(s, "newbuilding")
  /\ UNCHANGED <<rows, orgs, halls, users, renames>>

FindBuilding(s) ==
  /\ run[s].pc = "building"
  /\ Go(s, IF InOrg(run[s].org) = {} THEN "newbuilding" ELSE "done")
  /\ UNCHANGED <<rows, orgs, halls, users, renames>>

CreateBuilding(s) ==
  /\ run[s].pc = "newbuilding" /\ Go(s, "done")
  /\ halls' = halls \cup {<<run[s].org, s>>}
  /\ UNCHANGED <<rows, orgs, users, renames>>

Fail(s) ==
  AtWork(s) /\ Go(s, "failed") /\ UNCHANGED <<rows, orgs, halls, users, renames>>

Statement(s) ==
  \/ SeedPermissions(s) \/ SeedRoles(s) \/ SeedRolePermissions(s)
  \/ FindOrg(s) \/ CreateOrg(s) \/ SeedUnitTypes(s)
  \/ SeedOrgAdmin(s) \/ SeedPlatformSuperadmin(s) \/ FindBuilding(s) \/ CreateBuilding(s)

-----------------------------------------------------------------------------
(* The program in use *)

(* What a run found there before it may be gone when it ends. *)
Disturb == run' = [s \in Runs |-> IF AtWork(s) THEN [run[s] EXCEPT !.kept = FALSE] ELSE run[s]]

(* The permissions of a role are replaced. *)
Revoke(l) ==
  /\ <<"link", l>> \in rows /\ rows' = rows \ {<<"link", l>>} /\ Disturb
  /\ UNCHANGED <<orgs, halls, users, renames>>

Rename(o) ==
  /\ renames < MaxRenames /\ renames' = renames + 1
  /\ orgs[o] /\ orgs' = [orgs EXCEPT ![o] = FALSE] /\ Disturb
  /\ UNCHANGED <<rows, halls, users>>

ChangePassword(a) ==
  /\ users[a].password = "seed" /\ users' = [users EXCEPT ![a].password = "own"]
  /\ UNCHANGED <<rows, orgs, halls, run, renames>>

SeedNext ==
  \/ \E s \in Runs : Start(s) \/ Statement(s) \/ Fail(s)
  \/ \E l \in Links : Revoke(l)
  \/ \E o \in DOMAIN orgs : Rename(o)
  \/ \E a \in DOMAIN users : ChangePassword(a)

SeedSpec == SeedInit /\ [][SeedNext]_seedVars

-----------------------------------------------------------------------------
(* Properties *)

(* Roles, links and unit types are of rows that are there, and so are the    *)
(* organisations and roles of accounts: runs that end anywhere leave no      *)
(* dangling reference, and only the platform's account has no organisation.  *)
SeedTypeOK ==
  /\ Keys("permission") \subseteq PermissionKeys /\ Keys("role") \subseteq Roles
  /\ Keys("link") \subseteq Keys("role") \X Keys("permission")
  /\ Keys("unittype") \subseteq (DOMAIN orgs) \X UnitTypes
  /\ Keys("member") \subseteq (DOMAIN users) \X Keys("role")
  /\ DOMAIN users \subseteq Accounts
  /\ \A a \in DOMAIN users :
       IF a = "superadmin" THEN users[a].org = NoOrgId ELSE users[a].org \in DOMAIN orgs

Whole(o) ==
  /\ PermissionKeys \subseteq Keys("permission") /\ Links \subseteq Keys("link")
  /\ \A t \in UnitTypes : <<o, t>> \in Keys("unittype")
  /\ users["admin"].org = o
  /\ {<<"admin", "org_admin">>, <<"superadmin", "platform_superadmin">>} \subseteq Keys("member")
  /\ InOrg(o) # {}

===============================================================================
