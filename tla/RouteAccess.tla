------------------------------ MODULE RouteAccess ------------------------------
(***************************************************************************)
(* The guards of a route, one after the other, each reading the database   *)
(* when its turn comes, while administrators change what its caller is     *)
(* and may do. The routes are those of RouteTable; what follows when all   *)
(* guards let a request in is modelled in the modules of the handlers.     *)
(*                                                                         *)
(* No route has two guards that read permissions, so the permissions a     *)
(* request carries (effectivePermissions) are those its guard has read.    *)
(* A missing or forged token is refused by passport and left out, and so   *)
(* is the throttle, which may refuse any request before its guards.        *)
(***************************************************************************)
EXTENDS Naturals, Sequences

CONSTANTS
  Users, Orgs, NoOrg, Buildings, NoBuilding,
  BuildingOrg,
  Routes,            \* what the controllers declare
  Permissions,       \* the permissions of the seed
  Documented,        \* the permissions that docs/API.md says a route requires
  Unlike,            \* routes that are known to be declared unlike that
  Profiles,          \* what the roles of a user may amount to
  FirstAccount,
  Types,             \* types of building assignment
  Calls,
  MaxChanges

GuardNames == {"jwt", "org", "permissions", "building", "platform"}

ASSUME RouteAssumption ==
  /\ NoOrg \notin Orgs /\ NoBuilding \notin Buildings
  /\ BuildingOrg \in [Buildings -> Orgs]
  /\ Documented \in [Routes -> SUBSET Permissions] /\ Unlike \subseteq Routes
  /\ Profiles \subseteq [held : SUBSET Permissions, platform : BOOLEAN]
  /\ FirstAccount \in [Users -> [org : Orgs \cup {NoOrg}, active : BOOLEAN, profile : Profiles]]
  /\ \A r \in Routes :
       /\ r.guards \in Seq(GuardNames)
       /\ \A i, j \in DOMAIN r.guards :
            {r.guards[i], r.guards[j]} \subseteq {"permissions", "building", "platform"} => i = j
       /\ \A i \in DOMAIN r.guards :    \* a token is read first, and once
            /\ r.guards[i] = "jwt" => i = 1
            /\ r.guards[i] \in {"org", "building"} => r.guards[1] = "jwt"

VARIABLES
  account,    \* organisation, activity and roles of each user
  signed,     \* organisations that tokens of a user name
  staff,      \* building assignments
  homes,      \* ACTIVE occupancies
  query,      \* one request at a time by each call
  changes     \* number of changes so far

world == <<account, signed, staff, homes, changes>>

vars == <<world, query>>

InFlight == {"guarding", "roles", "assignment", "occupancy", "platform"}

Decided == {"admitted", "refused"}

Idle == [pc |-> "idle"]

Init ==
  /\ account = FirstAccount
  /\ signed = {<<u, FirstAccount[u].org>> : u \in Users}
  /\ staff = {} /\ homes = {}
  /\ query = [c \in Calls |-> Idle]
  /\ changes = 0

Has(r, guard) == \E i \in DOMAIN r.guards : r.guards[i] = guard

(* No route lacks a guard: one that reads a token or takes the key, one that *)
(* looks at the permissions asked for, one for a building.                   *)
TableIsGuarded ==
  \A r \in Routes :
    /\ r.guards # <<>> => Has(r, "jwt") \/ Has(r, "platform")
    /\ r.needs # {} => Has(r, "permissions") \/ Has(r, "platform") \/ r.level # "none"
    /\ r.level # "none" => Has(r, "building")

(* Whatever is documented of a route is declared. *)
TableIsDocumented ==
  \A r \in Routes \ Unlike : Documented[r] \subseteq r.needs

(* No route asks for a right that its guard does not look at, or asks the    *)
(* guard of a building or of the platform for no permission.                 *)
TableIsMatched ==
  \A r \in Routes :
    /\ r.level # "none" => Has(r, "building")
    /\ r.level # "none" \/ Has(r, "platform") => r.needs # {}

-----------------------------------------------------------------------------
(* What a caller has at one time *)

HasPermissions(q, a) == q.route.needs \subseteq a.profile.held

(* getBuildingAssignmentType, and what it is enough for *)
HasAssignment(q, st) ==
  LET Assigned(type) == <<q.user, q.building, type>> \in st IN
  \/ q.route.level = "read" /\ \E type \in Types : Assigned(type)
  \/ q.route.level = "write"
     /\ (Assigned("BUILDING_ADMIN") \/ (q.route.managers /\ Assigned("MANAGER")))

HasOccupancy(q, hm) ==
  q.route.level = "read" /\ q.route.residents /\ <<q.user, q.building>> \in hm

IsCurrent(q, a) == a.active /\ q.claim = a.org

(* The rights of a caller, for the properties only *)
Standing(q, a, st, hm) ==
  (IF IsCurrent(q, a) THEN {"account"} ELSE {})
  \cup (IF a.profile.platform THEN {"superadmin"} ELSE {})
  \cup (IF HasPermissions(q, a) THEN {"permission"} ELSE {})
  \cup (IF Documented[q.route] \subseteq a.profile.held THEN {"documented"} ELSE {})
  \cup (IF HasAssignment(q, st) THEN {"assignment"} ELSE {})
  \cup (IF HasOccupancy(q, hm) THEN {"occupancy"} ELSE {})

-----------------------------------------------------------------------------
(* The guards *)

Reply(c, q) == query' = [query EXCEPT ![c] = q] /\ UNCHANGED world

Passed(q) ==
  [q EXCEPT !.at = @ + 1, !.pc = IF q.at < Len(q.route.guards) THEN "guarding" ELSE "admitted"]

PassOrRefuse(q, ok) == IF ok THEN Passed(q) ELSE [q EXCEPT !.pc = "refused"]

AtGuard(c, guard) ==
  query[c].pc = "guarding" /\ query[c].route.guards[query[c].at] = guard

Account(c) == account[query[c].user]

Begin(c, r, t, override, b, key) ==
  /\ query[c] = Idle
  /\ LET q == [pc |-> IF r.guards = <<>> THEN "admitted" ELSE "guarding", at |-> 1, route |-> r,
               user |-> t[1], claim |-> t[2], override |-> override, building |-> b, key |-> key,
               org |-> NoOrg, seen |-> {}, kept |-> {}]
         s == Standing(q, account[t[1]], staff, homes)
     IN Reply(c, [q EXCEPT !.seen = s, !.kept = s])

(* JwtAuthGuard: the account is looked up; x-org-id only counts without one. *)
Validate(c) ==
  LET q == query[c] IN
  /\ AtGuard(c, "jwt")
  /\ Reply(c, IF IsCurrent(q, Account(c)) /\ Account(c).org = NoOrg /\ q.override # NoOrg
              THEN [q EXCEPT !.pc = "roles"]
              ELSE [PassOrRefuse(q, IsCurrent(q, Account(c))) EXCEPT !.org = Account(c).org])

CheckRoleKeys(c) ==
  LET q == query[c] IN
  /\ q.pc = "roles"
  /\ Reply(c, [PassOrRefuse(q, Account(c).profile.platform) EXCEPT !.org = q.override])

OrgScope(c) ==
  /\ AtGuard(c, "org")
  /\ Reply(c, PassOrRefuse(query[c], query[c].org # NoOrg))

CheckPermissions(c) ==
  /\ AtGuard(c, "permissions")
  /\ Reply(c, PassOrRefuse(query[c], HasPermissions(query[c], Account(c))))

(* BuildingAccessGuard: first the building, then permissions, then more      *)
EnterBuilding(c) ==
  LET q == query[c] IN
  /\ AtGuard(c, "building")
  /\ Reply(c, IF q.route.level = "none" THEN Passed(q)
              ELSE IF q.org = NoOrg \/ BuildingOrg[q.building] # q.org
              THEN [q EXCEPT !.pc = "refused"]
              ELSE IF q.route.needs # {} /\ HasPermissions(q, Account(c)) THEN Passed(q)
              ELSE [q EXCEPT !.pc = "assignment"])

(* Mutant of CheckAssignment: an assignment is required *)
CheckOnlyAssignment(c) ==
  /\ query[c].pc = "assignment"
  /\ Reply(c, PassOrRefuse(query[c], HasAssignment(query[c], staff)))

CheckAssignment(c) ==
  LET q == query[c] IN
  /\ q.pc = "assignment"
  /\ Reply(c, IF q.route.level = "read" /\ q.route.residents /\ ~HasAssignment(q, staff)
              THEN [q EXCEPT !.pc = "occupancy"]
              ELSE PassOrRefuse(q, HasAssignment(q, staff)))

CheckOccupancy(c) ==
  /\ query[c].pc = "occupancy"
  /\ Reply(c, PassOrRefuse(query[c], HasOccupancy(query[c], homes)))

(* PlatformAuthGuard: the key, or the token of a platform user               *)
EnterPlatform(c) ==
  LET q == query[c] IN
  /\ AtGuard(c, "platform")
  /\ Reply(c, IF q.key THEN Passed(q)
              ELSE IF IsCurrent(q, Account(c)) /\ Account(c).org = NoOrg /\ q.route.needs # {}
              THEN [q EXCEPT !.pc = "platform"]
              ELSE [q EXCEPT !.pc = "refused"])

CheckPlatformPermissions(c) ==
  /\ query[c].pc = "platform"
  /\ Reply(c, PassOrRefuse(query[c], HasPermissions(query[c], Account(c))))

Answer(c) == query[c].pc \in Decided /\ Reply(c, Idle)

GuardStep(c) ==
  \/ Validate(c) \/ CheckRoleKeys(c) \/ OrgScope(c) \/ CheckPermissions(c)
  \/ EnterBuilding(c) \/ CheckAssignment(c) \/ CheckOccupancy(c)
  \/ EnterPlatform(c) \/ CheckPlatformPermissions(c)

-----------------------------------------------------------------------------
(* What changes meanwhile; requests under way are witnesses *)

Changed(a, st, hm) ==
  /\ changes < MaxChanges /\ changes' = changes + 1
  /\ account' = a /\ staff' = st /\ homes' = hm
  /\ query' = [c \in Calls |->
       IF query[c].pc \notin InFlight THEN query[c]
       ELSE LET s == Standing(query[c], a[query[c].user], st, hm) IN
            [query[c] EXCEPT !.seen = @ \cup s, !.kept = @ \cap s]]

(* Roles and overrides are replaced. *)
SetProfile(u, p) ==
  Changed([account EXCEPT ![u].profile = p], staff, homes) /\ UNCHANGED signed

Assign(u, b, type) ==
  /\ account[u].org = BuildingOrg[b]
  /\ Changed(account, staff \cup {<<u, b, type>>}, homes) /\ UNCHANGED signed

Move(u, hm) ==
  /\ Changed(account, staff, {h \in homes : h[1] # u} \cup hm) /\ UNCHANGED signed

(* An account without an organisation is linked to one by provisioning.      *)
Link(u, o) ==
  /\ account[u].org = NoOrg
  /\ Changed([account EXCEPT ![u].org = o], staff, homes)
  /\ signed' = signed \cup {<<u, o>>}

Deactivate(u) ==
  Changed([account EXCEPT ![u].active = FALSE], staff, homes) /\ UNCHANGED signed

BuildingsOf(r) == IF r.level = "none" THEN {NoBuilding} ELSE Buildings

(* x-org-id and x-platform-key, where a guard reads them                     *)
OverridesFor(r) == {NoOrg} \cup {o \in Orgs : Has(r, "jwt")}

KeysFor(r) == {key \in BOOLEAN : key => Has(r, "platform")}

Next ==
  \/ \E c \in Calls :
       \/ \E r \in Routes, t \in signed : \E o \in OverridesFor(r), key \in KeysFor(r) :
            \E b \in BuildingsOf(r) : Begin(c, r, t, o, b, key)
       \/ GuardStep(c) \/ Answer(c)
  \/ \E u \in Users :
       \/ \E p \in Profiles : SetProfile(u, p)
       \/ \E b \in Buildings : (\E type \in Types : Assign(u, b, type)) \/ Move(u, {<<u, b>>})
       \/ \E o \in Orgs : Link(u, o)
       \/ Move(u, {}) \/ Deactivate(u)

Spec == Init /\ [][Next]_vars

-----------------------------------------------------------------------------
(* Properties *)

Marks ==
  {"account", "superadmin", "permission", "documented", "assignment", "occupancy"}

Query ==
  [pc : InFlight \cup Decided, at : Nat, route : Routes, user : Users,
   claim : Orgs \cup {NoOrg}, override : Orgs \cup {NoOrg}, org : Orgs \cup {NoOrg},
   building : Buildings \cup {NoBuilding}, key : BOOLEAN,
   seen : SUBSET Marks, kept : SUBSET Marks]

QueryOK(q) ==
  /\ q \in Query
  /\ q.at \in 1..(Len(q.route.guards) + 1)
  /\ q.pc \in InFlight => q.at <= Len(q.route.guards)
  /\ q.kept \subseteq q.seen

(* Every variable has its type, a token names an organisation of its user,   *)
(* and a request that is being decided has a guard to pass.                  *)
TypeOK ==
  /\ account \in [Users -> [org : Orgs \cup {NoOrg}, active : BOOLEAN, profile : Profiles]]
  /\ signed \subseteq Users \X (Orgs \cup {NoOrg})
  /\ \A u \in Users : <<u, account[u].org>> \in signed
  /\ staff \subseteq Users \X Buildings \X Types
  /\ homes \subseteq Users \X Buildings
  /\ DOMAIN query = Calls
  /\ \A c \in Calls : query[c] = Idle \/ QueryOK(query[c])

Of(pc) == {query[c] : c \in {d \in Calls : query[d].pc = pc}}

Rights == {"permission", "assignment", "occupancy"}

ByKey(q) == q.key /\ Has(q.route, "platform")

(* The caller's token was good at some moment since the request came in, and *)
(* at some moment the caller had what docs/API.md says the route requires:   *)
(* the permissions, or an assignment in the building, or a home, where it    *)
(* says that these are enough.                                               *)
HadRight(q) ==
  \/ ByKey(q)
  \/ /\ q.route.guards # <<>> => "account" \in q.seen
     /\ Documented[q.route] # {} => q.seen \cap {"documented", "assignment", "occupancy"} # {}

(* "Requires `users.read`", and so on for each route: a handler runs only    *)
(* for a caller who had a right to it, also while roles are replaced between *)
(* its guards.  The routes of users.controller.ts:23 and :45 are not in this *)
(* (UsersAsDocumented).                                                      *)
AdmittedByRight ==
  \A q \in Of("admitted") : q.route \notin Unlike => HadRight(q)

(* The organisation a caller acts in                                         *)
ActsIn(q) == IF q.claim = NoOrg THEN q.override ELSE q.claim

InScope(q) ==
  /\ Has(q.route, "jwt") /\ q.claim = NoOrg /\ q.override # NoOrg => "superadmin" \in q.kept
  /\ Has(q.route, "org") => ActsIn(q) # NoOrg
  /\ q.route.level # "none" => BuildingOrg[q.building] = ActsIn(q)
  /\ Has(q.route, "platform") => q.claim = NoOrg

(* Whoever keeps one right, and their account, all the while the guards      *)
(* look, is not refused; exchanging one right for another is no such case.   *)
KeptRightIsEnough ==
  \A q \in Of("refused") :
    ~("account" \in q.kept /\ q.kept \cap Rights # {} /\ InScope(q))

(* A handler acts in the organisation of its caller's token, or, for a       *)
(* platform superadmin, in the one asked for; and on its buildings only.     *)
ActsInOwnOrg ==
  \A q \in Of("admitted") : Has(q.route, "org") =>
    /\ q.org \in Orgs /\ q.org = ActsIn(q)
    /\ q.claim = NoOrg => "superadmin" \in q.seen
    /\ q.route.level # "none" => BuildingOrg[q.building] = q.org

===============================================================================
