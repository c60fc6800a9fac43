----------------------------- MODULE Provisioning -----------------------------
(***************************************************************************)
(* Who has an account, in which organisation, with which roles and         *)
(* building assignments: OrgUsersProvisionService.provision (whose         *)
(* resident grant is in Occupancy), UsersService.createInOrg,              *)
(* PlatformOrgsService.createOrgAdmin, BuildingAssignmentsService.create   *)
(* and AuthService.register.                                               *)
(*                                                                         *)
(* A transaction is one step per statement that meets another: what it     *)
(* wrote stays its own until it commits, and the entry of a unique index   *)
(* it wrote is locked: an email, a role of a user, an assignment.  A role  *)
(* that is there already is skipped, and locks nothing.  The roles of one  *)
(* createMany are locked together: two calls find them in the same order.  *)
(***************************************************************************)
EXTENDS Naturals, FiniteSets, Sequences

CONSTANTS
  Emails, Lower,                 \* addresses, and their form in lower case
  Orgs, Buildings, BuildingOrg,
  NoOrg,                         \* organisation of an unattached account
  NoAccount,                     \* there is no row with this email
  FirstTables,                   \* what the tables may hold at first
  Registering,                   \* addresses with which people register themselves
  Requests,                      \* what clients send
  Calls,
  MaxOverlap,
  MayFail

Types == {"MANAGER", "STAFF", "BUILDING_ADMIN"}

Grants == Buildings \X Types

(* The body of a request, and in whose name it is sent                       *)
Sendable ==
  [op : {"provision", "create", "org_admin", "assign"}, actor : Emails, org : Orgs,
   email : Emails, roles : SUBSET STRING, grants : Seq(Grants), resident : SUBSET Buildings,
   sameOrg : BOOLEAN, link : BOOLEAN]

ASSUME ProvisioningAssumption ==
  /\ Lower \in [Emails -> Emails] /\ \A e \in Emails : Lower[Lower[e]] = Lower[e]
  /\ NoOrg \notin Orgs /\ NoAccount \notin Orgs \cup {NoOrg}
  /\ BuildingOrg \in [Buildings -> Orgs]
  /\ \A t \in FirstTables : /\ t.org \in [Emails -> Orgs \cup {NoOrg, NoAccount}]
                            /\ \A e \in t.inactive : t.org[e] # NoAccount
                            /\ t.assigned \in [Emails -> SUBSET Grants]
                            /\ t.writers \subseteq Emails
  /\ Registering \subseteq Emails
  /\ \A r \in Requests : r \in Sendable /\ (r.op = "assign" => r.grants # <<>>)

VARIABLES
  org,        \* User.orgId by email
  roles,      \* role keys
  assigned,   \* building assignments
  writers,    \* users to whom an override allows users.write
  call,
  pc,
  first       \* history: what the tables held at first

tables == <<org, roles, assigned, writers>>
vars == <<tables, call, pc, first>>

InFlight == {"begun", "checked", "absent", "unlinked", "linked", "granting", "granted",
             "assigning", "half"}

Init ==
  /\ first \in FirstTables
  /\ org = first.org
  /\ roles = [e \in Emails |-> {}]
  /\ assigned = first.assigned
  /\ writers = first.writers
  /\ call = [h \in Calls |-> [locks |-> {}]]
  /\ pc = [h \in Calls |-> "new"]

Exists(e) == org[e] # NoAccount

(* No code writes isActive: accounts are switched off by hand.               *)
IsActive(e) == e \notin first.inactive

(* The seeded roles admin and org_admin bring users.write. *)
HasUsersWrite(e) == e \in writers \/ roles[e] \cap {"admin", "org_admin"} # {}

-----------------------------------------------------------------------------
(* Steps of one call *)

Goes(h, next, c) ==
  /\ pc' = [pc EXCEPT ![h] = next]
  /\ call' = [call EXCEPT ![h] = c]
  /\ UNCHANGED first

(* The end of a call, and of its transaction *)
Ends(h, result) == Goes(h, result, [call[h] EXCEPT !.locks = {}])

Refuse(h) == Ends(h, "refused") /\ UNCHANGED tables

GrantsOf(r) == {r.grants[i] : i \in DOMAIN r.grants}

(* Entries of the unique indexes *)
UserKey(e) == <<e>>
RoleKey(e, k) == <<e, "role", k>>
GrantKey(e, g) == <<e, g>>

AdminRole(grants) == {k \in {"admin"} : \E g \in grants : g[2] = "BUILDING_ADMIN"}

(* The role that completes createOrgAdmin or an assignment *)
RoleOf(r) == IF r.op = "org_admin" THEN {"org_admin"} ELSE {"admin"}

(* What the next statement of h writes *)
Needs(h) ==
  LET c == call[h]
      e == c.target
      Missing(keys) == {RoleKey(e, k) : k \in keys \ roles[e]}
  IN  CASE pc[h] \in {"absent", "unlinked"} -> {UserKey(e)}
        [] pc[h] = "linked" -> Missing(c.req.roles)
        [] pc[h] = "granting" /\ c.done < Len(c.req.grants) ->
             {GrantKey(e, c.req.grants[c.done + 1])}
        [] pc[h] = "granting" /\ c.done = Len(c.req.grants) ->
             Missing(AdminRole(GrantsOf(c.req)))
        [] pc[h] = "assigning" -> {GrantKey(e, c.req.grants[1])}
        [] pc[h] = "half" -> Missing(RoleOf(c.req))
        [] OTHER -> {}

(* A statement waits for the transaction that has written the entry. *)
Waits(h, g) == g # h /\ Needs(h) \cap call[g].locks # {}

Blocked(h) == \E g \in Calls : Waits(h, g)

Started(r, e, write) ==
  [req |-> r, target |-> e, write |-> write, link |-> FALSE, done |-> 0, locks |-> {}]

Begin(h, r) ==
  /\ pc[h] = "new" /\ Cardinality({g \in Calls : pc[g] \in InFlight}) < MaxOverlap
  /\ r.op = "org_admin" \/ org[r.actor] = r.org
  /\ UNCHANGED tables

(* Mutant of NormalizeEmail: as it was typed *)
AsTyped(e) == e

NormalizeEmail(e) == Lower[e]

(* The permission users.write is read before the transaction. *)
CallProvision(h, r) ==
  /\ r.op = "provision" /\ "super_admin" \notin r.roles
  /\ Begin(h, r)
  /\ Goes(h, "begun", Started(r, NormalizeEmail(r.email), HasUsersWrite(r.actor)))

(* Buildings where the user may provision *)
Managed(e) == {b \in Buildings : {<<b, "MANAGER">>, <<b, "BUILDING_ADMIN">>} \cap assigned[e] # {}}

(* Mutant of ManagerMay: the buildings are not compared *)
ManagerMayAnywhere(r) ==
  /\ r.sameOrg /\ r.roles = {} /\ (r.grants # <<>> \/ r.resident # {})
  /\ \A g \in GrantsOf(r) : g[2] \in {"MANAGER", "STAFF"}

ManagerMay(r) ==
  /\ r.sameOrg /\ r.roles = {} /\ (r.grants # <<>> \/ r.resident # {})
  /\ r.resident \subseteq Managed(r.actor)
  /\ \A g \in GrantsOf(r) : g[2] \in {"MANAGER", "STAFF"} /\ g[1] \in Managed(r.actor)

AssertManagerProvisioningAllowed(h) ==
  /\ pc[h] = "begun"
  /\ IF call[h].write \/ ManagerMay(call[h].req)
     THEN Goes(h, "checked", call[h]) /\ UNCHANGED tables
     ELSE Refuse(h)

MayLink(e, r) == ~r.sameOrg /\ org[e] = NoOrg

(* The lookup ignores case, and takes whichever row comes first.  The code   *)
(* links an inactive account before it refuses it, and rolls back.           *)
FindTarget(h) ==
  LET r == call[h].req
      found == {e \in Emails : Exists(e) /\ Lower[e] = Lower[r.email]}
  IN
  /\ pc[h] = "checked" /\ UNCHANGED tables
  /\ \/ found = {} /\ Goes(h, "absent", call[h])
     \/ \E e \in found :
          IF ~r.link \/ ~IsActive(e) \/ (org[e] # r.org /\ ~MayLink(e, r))
          THEN Ends(h, "refused")
          ELSE Goes(h, IF org[e] = r.org THEN "linked" ELSE "unlinked",
                    [call[h] EXCEPT !.target = e])

(* The row is named by its id: whose it is by now is not asked. *)
LinkUser(h) ==
  LET e == call[h].target IN
  /\ pc[h] = "unlinked" /\ ~Blocked(h)
  /\ Goes(h, "linked", [call[h] EXCEPT !.link = TRUE, !.locks = @ \cup {UserKey(e)}])
  /\ UNCHANGED tables

(* createInOrg and createOrgAdmin look for the exact email. *)
CallCreate(h, r) ==
  /\ r.op \in {"create", "org_admin"} /\ "super_admin" \notin r.roles
  /\ Begin(h, r)
  /\ Goes(h, IF Exists(r.email) THEN "refused" ELSE "absent", Started(r, r.email, TRUE))

(* The unique index on the email, in provision and createInOrg *)
CreateUser(h) ==
  LET e == call[h].target IN
  /\ pc[h] = "absent" /\ call[h].req.op # "org_admin" /\ ~Blocked(h)
  /\ IF Exists(e) THEN Refuse(h)
     ELSE /\ Goes(h, "linked", [call[h] EXCEPT !.link = TRUE, !.locks = @ \cup {UserKey(e)}])
          /\ UNCHANGED tables

(* createOrgAdmin has no transaction: the account is there at once. *)
CreateOrgAdmin(h) ==
  LET e == call[h].target IN
  /\ pc[h] = "absent" /\ call[h].req.op = "org_admin" /\ ~Blocked(h)
  /\ IF Exists(e) THEN Refuse(h)
     ELSE /\ Goes(h, "half", call[h])
          /\ org' = [org EXCEPT ![e] = call[h].req.org]
          /\ UNCHANGED <<roles, assigned, writers>>

(* The roles that the request names; nobody sees them before the commit. *)
ApplyOrgRoles(h) ==
  /\ pc[h] = "linked" /\ ~Blocked(h)
  /\ Goes(h, "granting", [call[h] EXCEPT !.locks = @ \cup Needs(h)])
  /\ UNCHANGED tables

(* Mutant of InOrg: any building *)
AnyBuilding(g, o) == TRUE

InOrg(g, o) == BuildingOrg[g[1]] = o

(* The next grant, if its building is of the organisation *)
UpsertAssignment(h) ==
  LET c == call[h]
      g == c.req.grants[c.done + 1]
  IN
  /\ pc[h] = "granting" /\ c.done < Len(c.req.grants)
  /\ IF ~InOrg(g, c.req.org) THEN Refuse(h)
     ELSE /\ ~Blocked(h) /\ UNCHANGED tables
          /\ Goes(h, "granting", [c EXCEPT !.done = @ + 1, !.locks = @ \cup {GrantKey(c.target, g)}])

(* ensureAdminRoleForBuildingAdmins, after the last grant *)
EnsureAdminRole(h) ==
  /\ pc[h] = "granting" /\ call[h].done = Len(call[h].req.grants) /\ ~Blocked(h)
  /\ Goes(h, "granted", [call[h] EXCEPT !.locks = @ \cup Needs(h)])
  /\ UNCHANGED tables

Commit(h) ==
  LET c == call[h]
      e == c.target
  IN
  /\ pc[h] = "granted" /\ Ends(h, "done")
  /\ org' = IF c.link THEN [org EXCEPT ![e] = c.req.org] ELSE org
  /\ roles' = [roles EXCEPT ![e] = @ \cup c.req.roles \cup AdminRole(GrantsOf(c.req))]
  /\ assigned' = [assigned EXCEPT ![e] = @ \cup GrantsOf(c.req)]
  /\ UNCHANGED writers

(* BuildingAssignmentsService.create: both lookups, then the insert *)
CallAssign(h, r) ==
  /\ r.op = "assign" /\ BuildingOrg[r.grants[1][1]] = r.org
  /\ org[r.email] = r.org /\ IsActive(r.email)
  /\ Begin(h, r)
  /\ Goes(h, "assigning", Started(r, r.email, TRUE))

(* Mutant of CreateAssignment: one transaction, the role admin first *)
AssignAfterRole(h) ==
  LET c == call[h]
      e == c.target
      g == c.req.grants[1]
      keys == {RoleKey(e, k) : k \in AdminRole({g})}
  IN
  /\ pc[h] = "assigning" /\ UNCHANGED <<org, writers>>
  /\ \/ /\ ~(keys \subseteq c.locks)
        /\ \A k \in Calls : keys \cap call[k].locks = {}
        /\ Goes(h, "assigning", [c EXCEPT !.locks = keys])
        /\ UNCHANGED <<roles, assigned>>
     \/ /\ keys \subseteq c.locks /\ ~Blocked(h) /\ g \notin assigned[e]
        /\ Ends(h, "done")
        /\ roles' = [roles EXCEPT ![e] = @ \cup AdminRole({g})]
        /\ assigned' = [assigned EXCEPT ![e] = @ \cup {g}]

CreateAssignment(h) ==
  LET c == call[h]
      g == c.req.grants[1]
  IN
  /\ pc[h] = "assigning" /\ ~Blocked(h)
  /\ IF g \in assigned[c.target] THEN Refuse(h)
     ELSE /\ Goes(h, IF g[2] = "BUILDING_ADMIN" THEN "half" ELSE "done", c)
          /\ assigned' = [assigned EXCEPT ![c.target] = @ \cup {g}]
          /\ UNCHANGED <<org, roles, writers>>

(* Mutant of GrantRole: an administrator of the organisation only *)
GrantOrgAdminOnly(h) ==
  LET c == call[h] IN
  /\ pc[h] = "half" /\ ~Blocked(h) /\ Ends(h, "done")
  /\ roles' = IF c.req.op = "org_admin"
              THEN [roles EXCEPT ![c.target] = @ \cup {"org_admin"}] ELSE roles
  /\ UNCHANGED <<org, assigned, writers>>

(* The second half of createOrgAdmin and of create *)
GrantRole(h) ==
  LET c == call[h] IN
  /\ pc[h] = "half" /\ ~Blocked(h) /\ Ends(h, "done")
  /\ roles' = [roles EXCEPT ![c.target] = @ \cup RoleOf(c.req)]
  /\ UNCHANGED <<org, assigned, writers>>

Fail(h) ==
  /\ MayFail /\ pc[h] \in InFlight
  /\ Ends(h, "failed") /\ UNCHANGED tables

(* PostgreSQL ends one of the transactions that wait for each other. *)
AbortDeadlock(h) ==
  /\ \E g \in Calls \ {h} : Waits(h, g) /\ Waits(g, h)
  /\ Ends(h, "failed") /\ UNCHANGED tables

-----------------------------------------------------------------------------
(* Around them *)

(* POST /auth/register, which takes the email as it is typed *)
RegisterAccount(e) ==
  /\ ~Exists(e) /\ \A g \in Calls : UserKey(e) \notin call[g].locks
  /\ org' = [org EXCEPT ![e] = NoOrg]
  /\ UNCHANGED <<roles, assigned, writers, call, pc, first>>

RevokeUsersWrite(e) ==
  /\ e \in writers /\ writers' = writers \ {e}
  /\ UNCHANGED <<org, roles, assigned, call, pc, first>>

Statement(h) ==
  \/ AssertManagerProvisioningAllowed(h) \/ FindTarget(h) \/ LinkUser(h) \/ CreateUser(h)
  \/ CreateOrgAdmin(h) \/ ApplyOrgRoles(h) \/ UpsertAssignment(h) \/ EnsureAdminRole(h) \/ Commit(h)
  \/ CreateAssignment(h) \/ GrantRole(h) \/ AbortDeadlock(h)

Next ==
  \/ \E h \in Calls :
       \/ \E r \in Requests : CallProvision(h, r) \/ CallCreate(h, r) \/ CallAssign(h, r)
       \/ Statement(h) \/ Fail(h)
  \/ \E e \in Registering : RegisterAccount(e)
  \/ \E e \in Emails : RevokeUsersWrite(e)

Spec == Init /\ [][Next]_vars

-----------------------------------------------------------------------------
(* Properties *)

TypeOK ==
  /\ org \in [Emails -> Orgs \cup {NoOrg, NoAccount}]
  /\ assigned \in [Emails -> SUBSET Grants]
  /\ writers \subseteq Emails
  /\ \A e \in Emails : ~Exists(e) => roles[e] = {} /\ assigned[e] = {}
  /\ pc \in [Calls -> InFlight \cup {"new", "done", "refused", "failed"}]
  /\ \A h \in Calls : pc[h] \notin InFlight => call[h].locks = {}

(* "all customer data is scoped by orgId": whoever is assigned to a building *)
(* belongs to its organisation.                                              *)
AssignedWithinOrg ==
  \A e \in Emails : \A g \in assigned[e] : org[e] = BuildingOrg[g[1]]

(* "`email` is required and normalized to lowercase": as long as the others  *)
(* who make accounts use lower case, an address has one account, however the *)
(* callers of provision spell it.                                            *)
OneAccountPerMailbox ==
  \A d, e \in Emails : Exists(d) /\ Exists(e) /\ Lower[d] = Lower[e] => d = e

(* "Managers without users.write can only provision MANAGER/STAFF ... in     *)
(* their assigned buildings": if nobody ever has users.write, no chain of    *)
(* provisioning calls brings anybody a role, a BUILDING_ADMIN assignment, or *)
(* a building nobody managed at first.                                       *)
ManagersAddNoReach ==
  first.writers = {} /\ (\A h \in Calls : pc[h] # "new" => call[h].req.op = "provision") =>
    \A e \in Emails :
      /\ roles[e] = {}
      /\ \A g \in assigned[e] \ first.assigned[e] :
           /\ g[2] # "BUILDING_ADMIN"
           /\ \E d \in Emails : {<<g[1], "MANAGER">>, <<g[1], "BUILDING_ADMIN">>}
                                  \cap first.assigned[d] # {}

(* A BUILDING_ADMIN has the role admin, and an administrator created by the  *)
(* platform the role org_admin, once their calls are over.                   *)
AdminsAreWhole ==
  (\A h \in Calls : pc[h] \notin InFlight) =>
     /\ \A e \in Emails : \A g \in assigned[e] : g[2] = "BUILDING_ADMIN" => "admin" \in roles[e]
     /\ \A h \in Calls : pc[h] \in {"done", "failed"} /\ call[h].req.op = "org_admin"
          => ~Exists(call[h].target) \/ "org_admin" \in roles[call[h].target]

(* Lists that name no two grants in opposite orders                          *)
Agree(r, s) ==
  \A i, j \in DOMAIN r.grants, k, l \in DOMAIN s.grants :
    i < j /\ k < l => ~(r.grants[i] = s.grants[l] /\ r.grants[j] = s.grants[k])

(* r names the role admin, which s brings with a grant that both name.       *)
NamesAdmin(r, s) ==
  "admin" \in r.roles /\ AdminRole(GrantsOf(s)) # {} /\ GrantsOf(r) \cap GrantsOf(s) # {}

(* User, roles, grants in the order of the request, role admin: that order   *)
(* lets two calls wait for each other only if their clients list one user's  *)
(* grants in opposite orders, or one names the role that the other brings.   *)
OnlyOppositesDeadlock ==
  \A g, h \in Calls : Waits(g, h) /\ Waits(h, g) =>
    LET r == call[g].req
        s == call[h].req
    IN  ~Agree(r, s) \/ NamesAdmin(r, s) \/ NamesAdmin(s, r)

-----------------------------------------------------------------------------
(* What some of them rest on *)

(* Calls that write in two statements, outside a transaction                 *)
InTwoSteps(r) ==
  r.op = "org_admin" \/ (r.op = "assign" /\ r.grants[1][2] = "BUILDING_ADMIN")

NoneFailsHalfway == \A h \in Calls : pc[h] = "failed" => ~InTwoSteps(call[h].req)

(* While a call that may link an unattached account is under way, no other   *)
(* is.                                                                       *)
LinksAlone ==
  \A g, h \in Calls : {pc[g], pc[h]} \subseteq InFlight /\ ~call[g].req.sameOrg => g = h

(* The others who make accounts, before the start and after it               *)
LowerCaseElsewhere ==
  /\ \A t \in FirstTables : \A e \in Emails : t.org[e] # NoAccount => Lower[e] = e
  /\ \A e \in Registering : Lower[e] = e
  /\ \A r \in Requests : r.op \in {"create", "org_admin"} => Lower[r.email] = r.email

(* The tables at first keep what is kept.                                    *)
FirstTablesAreSound ==
  \A t \in FirstTables : \A e \in Emails : \A g \in t.assigned[e] :
    t.org[e] = BuildingOrg[g[1]] /\ g[2] # "BUILDING_ADMIN"
=============================================================================
