--------------------------- MODULE RouteAccessProofs ---------------------------
(***************************************************************************)
(* RouteAccess for any table of routes, any users and any changes: types;  *)
(* that who is let in acts in their own organisation, for tables in which  *)
(* no route lacks a guard (TableIsGuarded), and had the documented right,  *)
(* if no route declares less than that (TableIsDocumented); and that who   *)
(* keeps a right is let in (TableIsMatched).                               *)
(*                                                                         *)
(* The argument: a request under way has noted all it has at the moment    *)
(* (Current), and each guard it has passed has left its fact (Fact), which *)
(* no later step takes back: what was seen only grows, and the             *)
(* organisation is set by the first guard only. For the converse, what a   *)
(* request has kept is part of what it has at the moment, and a guard that *)
(* reads on has seen that a right is missing, which is then not kept.      *)
(*                                                                         *)
(* The last part is about Seed, which makes the permissions and roles that *)
(* the guards read, and its scenarios (MCSpec), for runs that are not at   *)
(* work at once: nothing is seeded twice (OnceInv), and a run that ends    *)
(* well has completed what others left half done (RunsInv: what a run has  *)
(* done so far is still so, unless somebody has disturbed it).             *)
(***************************************************************************)
EXTENDS RouteAccess, MCSeed, FiniteSetTheorems, TLAPS

(* What is known of a request that has passed its i-th guard                 *)
Fact(q, i) ==
  /\ q.route.guards[i] = "jwt" =>
       /\ "account" \in q.seen
       /\ q.org = ActsIn(q)
       /\ q.claim = NoOrg /\ q.org # NoOrg => "superadmin" \in q.seen
  /\ q.route.guards[i] = "org" => q.org # NoOrg
  /\ q.route.guards[i] = "permissions" => "permission" \in q.seen
  /\ q.route.guards[i] = "building" =>
       \/ q.route.level = "none"
       \/ q.seen \cap Rights # {} /\ BuildingOrg[q.building] = q.org
  /\ q.route.guards[i] = "platform" =>
       q.key \/ ("account" \in q.seen /\ "permission" \in q.seen)

Facts(q) == q.pc # "refused" => \A i \in 1..(q.at - 1) : Fact(q, i)

(* Between the reads of one guard                                            *)
Pending(q) ==
  /\ q.pc = "roles" =>
       /\ q.route.guards[q.at] = "jwt" /\ "account" \in q.seen
       /\ q.claim = NoOrg /\ q.override # NoOrg
  /\ q.pc \in {"assignment", "occupancy"} =>
       q.route.guards[q.at] = "building" /\ BuildingOrg[q.building] = q.org
  /\ q.pc = "platform" => q.route.guards[q.at] = "platform" /\ "account" \in q.seen
  /\ q.pc = "admitted" => q.at = Len(q.route.guards) + 1

Current(q) ==
  q.pc \in InFlight => Standing(q, account[q.user], staff, homes) \subseteq q.seen

(* Who had the permissions that are declared had those that are documented.  *)
HadDocumented(q) ==
  "permission" \in q.seen /\ Documented[q.route] \subseteq q.route.needs => "documented" \in q.seen

QInv(q) == QueryOK(q) /\ Facts(q) /\ Pending(q) /\ Current(q) /\ HadDocumented(q)

IInv == TypeOK /\ \A c \in Calls : query[c] = Idle \/ QInv(query[c])

-----------------------------------------------------------------------------
(* Records and rights *)

(* What a step of a guard leaves alone                                       *)
Same(q, r) ==
  /\ r \in Query
  /\ r.route = q.route /\ r.user = q.user /\ r.claim = q.claim /\ r.override = q.override
  /\ r.building = q.building /\ r.key = q.key /\ r.seen = q.seen /\ r.kept = q.kept

LEMMA StandingHas ==
  ASSUME NEW q, NEW a, NEW st, NEW hm
  PROVE  /\ Standing(q, a, st, hm) \subseteq Marks
         /\ IsCurrent(q, a) => "account" \in Standing(q, a, st, hm)
         /\ a.profile.platform => "superadmin" \in Standing(q, a, st, hm)
         /\ HasPermissions(q, a) => "permission" \in Standing(q, a, st, hm)
         /\ HasAssignment(q, st) => "assignment" \in Standing(q, a, st, hm)
         /\ HasOccupancy(q, hm) => "occupancy" \in Standing(q, a, st, hm)
         /\ "permission" \in Standing(q, a, st, hm) /\ Documented[q.route] \subseteq q.route.needs
              => "documented" \in Standing(q, a, st, hm)
BY DEF Standing, Marks, HasPermissions

LEMMA SameStanding ==
  ASSUME NEW q, NEW r, NEW a, NEW st, NEW hm,
         r.route = q.route, r.user = q.user, r.claim = q.claim, r.building = q.building
  PROVE  Standing(r, a, st, hm) = Standing(q, a, st, hm)
BY DEF Standing, IsCurrent, HasPermissions, HasAssignment, HasOccupancy

LEMMA Guards ==
  ASSUME NEW r \in Routes
  PROVE  /\ Len(r.guards) \in Nat /\ DOMAIN r.guards = 1..Len(r.guards)
         /\ \A i \in 1..Len(r.guards) : r.guards[i] = "jwt" => i = 1
<1>1. r.guards \in Seq(GuardNames) /\ \A i \in DOMAIN r.guards : r.guards[i] = "jwt" => i = 1
  BY RouteAssumption
<1>. QED  BY <1>1

LEMMA PassedOnIs ==
  ASSUME NEW q \in Query
  PROVE  /\ Same(q, Passed(q)) /\ Passed(q).at = q.at + 1 /\ Passed(q).org = q.org
         /\ Passed(q).pc = IF q.at < Len(q.route.guards) THEN "guarding" ELSE "admitted"
<1> DEFINE pc == IF q.at < Len(q.route.guards) THEN "guarding" ELSE "admitted"
           at == q.at + 1
<1>1. pc \in InFlight \cup Decided /\ at \in Nat
  BY DEF InFlight, Decided, Query
<1>2. Passed(q) = [q EXCEPT !.at = at, !.pc = pc]
  BY DEF Passed
<1> HIDE DEF pc, at
<1>3. /\ Passed(q) \in Query /\ Passed(q).at = at /\ Passed(q).pc = pc
      /\ Passed(q).org = q.org
  BY <1>1, <1>2 DEF Query
<1>4. Same(q, Passed(q))
  BY <1>2, <1>3 DEF Same, Query
<1>. QED  BY <1>3, <1>4 DEF pc, at

LEMMA PassedIs ==
  ASSUME NEW q \in Query, NEW o \in Orgs \cup {NoOrg}
  PROVE  LET r == [Passed(q) EXCEPT !.org = o]
         IN  /\ Same(q, r) /\ r.at = q.at + 1 /\ r.org = o
             /\ r.pc = IF q.at < Len(q.route.guards) THEN "guarding" ELSE "admitted"
<1> DEFINE p == Passed(q)
           r == [p EXCEPT !.org = o]
<1>1. /\ Same(q, p) /\ p.at = q.at + 1
      /\ p.pc = IF q.at < Len(q.route.guards) THEN "guarding" ELSE "admitted"
  BY PassedOnIs
<1> HIDE DEF p
<1>2. r \in Query /\ r.org = o /\ r.at = p.at /\ r.pc = p.pc
  BY <1>1 DEF Same, Query
<1>3. Same(p, r)
  BY <1>1, <1>2 DEF Same, Query
<1>4. Same(q, r)
  BY <1>1, <1>3 DEF Same
<1>. QED  BY <1>1, <1>2, <1>4 DEF p

LEMMA RefusedIs ==
  ASSUME NEW q \in Query, NEW o \in Orgs \cup {NoOrg}
  PROVE  LET r == [[q EXCEPT !.pc = "refused"] EXCEPT !.org = o]
         IN  Same(q, r) /\ r.at = q.at /\ r.pc = "refused"
BY DEF Same, Query, Decided

LEMMA MovedIs ==
  ASSUME NEW q \in Query, NEW pc \in InFlight \cup Decided
  PROVE  LET r == [q EXCEPT !.pc = pc]
         IN  Same(q, r) /\ r.at = q.at /\ r.org = q.org /\ r.pc = pc
BY DEF Same, Query

-----------------------------------------------------------------------------
(* Steps of a guard: it lets pass, refuses, or reads on *)

LEMMA PassKeeps ==
  ASSUME NEW q, NEW r, QInv(q), q.pc \in InFlight, Same(q, r), r.at = q.at + 1,
         r.pc = IF q.at < Len(q.route.guards) THEN "guarding" ELSE "admitted",
         q.route.guards[q.at] # "jwt" => r.org = q.org,
         Fact(r, q.at)
  PROVE  QInv(r)
<1>1. /\ q \in Query /\ q.route \in Routes /\ q.at \in 1..Len(q.route.guards)
      /\ Len(q.route.guards) \in Nat /\ q.kept \subseteq q.seen /\ q.pc # "refused"
  BY Guards DEF QInv, QueryOK, Query, InFlight
<1>2. QueryOK(r)
  BY <1>1 DEF QueryOK, Same, InFlight
<1>3. ASSUME NEW i \in 1..(r.at - 1)
      PROVE  Fact(r, i)
  <2>1. CASE i = q.at
    BY <2>1
  <2>2. CASE i # q.at
    <3>1. i \in 1..(q.at - 1) /\ q.at # 1
      BY <1>1, <2>2
    <3>2. Fact(q, i)
      BY <1>1, <3>1 DEF QInv, Facts
    <3>3. r.org = q.org
      BY <1>1, <3>1, Guards
    <3>. QED  BY <3>2, <3>3 DEF Fact, Same, ActsIn
  <2>. QED  BY <2>1, <2>2
<1>4. Pending(r)
  BY <1>1 DEF Pending, Same
<1>5. Current(r)
  <2>1. Standing(q, account[q.user], staff, homes) \subseteq q.seen
    BY DEF QInv, Current
  <2>2. Standing(r, account[q.user], staff, homes) = Standing(q, account[q.user], staff, homes)
    BY SameStanding DEF Same
  <2>. QED  BY <2>1, <2>2 DEF Current, Same
<1>6. HadDocumented(r)
  BY DEF QInv, HadDocumented, Same
<1>. QED  BY <1>2, <1>3, <1>4, <1>5, <1>6 DEF QInv, Facts

LEMMA RefuseKeeps ==
  ASSUME NEW q, NEW r, QInv(q), Same(q, r), r.at = q.at, r.pc = "refused"
  PROVE  QInv(r)
BY DEF QInv, QueryOK, Facts, Pending, Current, HadDocumented, Same, InFlight

LEMMA WaitKeeps ==
  ASSUME NEW q, NEW r, QInv(q), q.pc \in InFlight, Same(q, r), r.at = q.at, r.org = q.org,
         r.pc \in InFlight, Pending(r)
  PROVE  QInv(r)
<1>1. QueryOK(r)
  BY DEF QInv, QueryOK, Same
<1>2. Facts(r)
  BY DEF QInv, Facts, Fact, Same, ActsIn, InFlight
<1>3. Current(r)
  <2>1. Standing(r, account[q.user], staff, homes) = Standing(q, account[q.user], staff, homes)
    BY SameStanding DEF Same
  <2>. QED  BY <2>1 DEF QInv, Current, Same
<1>4. HadDocumented(r)
  BY DEF QInv, HadDocumented, Same
<1>. QED  BY <1>1, <1>2, <1>3, <1>4 DEF QInv

LEMMA ReplyKeeps ==
  ASSUME IInv, NEW c \in Calls, NEW r, r = Idle \/ QInv(r), Reply(c, r)
  PROVE  IInv'
<1>1. /\ DOMAIN query = Calls /\ query' = [query EXCEPT ![c] = r]
      /\ account' = account /\ signed' = signed /\ staff' = staff /\ homes' = homes
  BY DEF IInv, TypeOK, Reply, world
<1>2. ASSUME NEW d \in Calls
      PROVE  query'[d] = Idle \/ QInv(query'[d])
  BY <1>1 DEF IInv
<1>3. ASSUME NEW d \in Calls, query'[d] # Idle
      PROVE  QInv(query[d])'
  <2>1. QueryOK(query'[d]) /\ Facts(query'[d]) /\ Pending(query'[d]) /\ Current(query'[d])
        /\ HadDocumented(query'[d])
    BY <1>2, <1>3 DEF QInv
  <2>2. QueryOK(query[d])'
    BY <2>1 DEF QueryOK
  <2>3. Facts(query[d])'
    BY <2>1 DEF Facts
  <2>4. Pending(query[d])'
    BY <2>1 DEF Pending
  <2>5. Current(query[d])'
    BY <1>1, <2>1 DEF Current
  <2>6. HadDocumented(query[d])'
    BY <2>1 DEF HadDocumented
  <2>. QED  BY <2>2, <2>3, <2>4, <2>5, <2>6 DEF QInv
<1>4. TypeOK'
  BY <1>1, <1>2 DEF IInv, TypeOK, QInv, QueryOK
<1>. QED  BY <1>3, <1>4 DEF IInv

(* What a guard may rely on                                                  *)
LEMMA UnderWay ==
  ASSUME IInv, NEW c \in Calls, query[c].pc \in InFlight
  PROVE  /\ QInv(query[c]) /\ query[c] \in Query
         /\ Standing(query[c], Account(c), staff, homes) \subseteq query[c].seen
         /\ Account(c).org \in Orgs \cup {NoOrg} /\ Account(c).profile.platform \in BOOLEAN
<1>1. query[c] # Idle
  BY DEF Idle, InFlight
<1>2. QInv(query[c])
  BY <1>1 DEF IInv
<1>3. query[c] \in Query /\ query[c].user \in Users
  BY <1>2 DEF QInv, QueryOK, Query
<1>4. Account(c).org \in Orgs \cup {NoOrg} /\ Account(c).profile.platform \in BOOLEAN
  BY <1>3, RouteAssumption DEF IInv, TypeOK, Account
<1>. QED  BY <1>2, <1>3, <1>4 DEF QInv, Current, Account

-----------------------------------------------------------------------------
(* The guards *)

LEMMA ValidateKeeps ==
  ASSUME IInv, NEW c \in Calls, Validate(c)
  PROVE  IInv'
<1> DEFINE q == query[c]
           o == Account(c).org
<1>1. q.pc = "guarding" /\ q.route.guards[q.at] = "jwt"
  BY DEF Validate, AtGuard
<1>2. /\ QInv(q) /\ q \in Query /\ q.pc \in InFlight /\ o \in Orgs \cup {NoOrg}
      /\ IsCurrent(q, Account(c)) => "account" \in q.seen
  BY <1>1, UnderWay, StandingHas DEF InFlight
<1>3. CASE IsCurrent(q, Account(c)) /\ o = NoOrg /\ q.override # NoOrg
  <2> DEFINE r == [q EXCEPT !.pc = "roles"]
  <2>1. Same(q, r) /\ r.at = q.at /\ r.org = q.org /\ r.pc = "roles"
    BY <1>2, MovedIs DEF InFlight
  <2>2. Pending(r)
    BY <1>1, <1>2, <1>3, <2>1 DEF Pending, Same, IsCurrent
  <2>3. QInv(r)
    BY <1>2, <2>1, <2>2, WaitKeeps DEF InFlight
  <2>4. Reply(c, r)
    BY <1>3 DEF Validate
  <2>. QED  BY <2>3, <2>4, ReplyKeeps
<1>4. CASE IsCurrent(q, Account(c)) /\ ~(o = NoOrg /\ q.override # NoOrg)
  <2> DEFINE r == [Passed(q) EXCEPT !.org = o]
  <2>1. /\ Same(q, r) /\ r.at = q.at + 1 /\ r.org = o
        /\ r.pc = IF q.at < Len(q.route.guards) THEN "guarding" ELSE "admitted"
    BY <1>2, PassedIs
  <2>2. Reply(c, r)
    BY <1>4 DEF Validate, PassOrRefuse
  <2> HIDE DEF r
  <2>3. Fact(r, q.at)
    BY <1>1, <1>2, <1>4, <2>1 DEF Fact, Same, ActsIn, IsCurrent
  <2>4. QInv(r)
    BY <1>1, <1>2, <2>1, <2>3, PassKeeps
  <2>. QED  BY <2>2, <2>4, ReplyKeeps
<1>5. CASE ~IsCurrent(q, Account(c))
  <2> DEFINE r == [[q EXCEPT !.pc = "refused"] EXCEPT !.org = o]
  <2>1. Same(q, r) /\ r.at = q.at /\ r.pc = "refused"
    BY <1>2, RefusedIs
  <2>2. Reply(c, r)
    BY <1>5 DEF Validate, PassOrRefuse
  <2> HIDE DEF r
  <2>3. QInv(r)
    BY <1>2, <2>1, RefuseKeeps
  <2>. QED  BY <2>2, <2>3, ReplyKeeps
<1>. QED  BY <1>3, <1>4, <1>5

LEMMA CheckRoleKeysKeeps ==
  ASSUME IInv, NEW c \in Calls, CheckRoleKeys(c)
  PROVE  IInv'
<1> DEFINE q == query[c]
           ok == Account(c).profile.platform
<1>1. q.pc = "roles"
  BY DEF CheckRoleKeys
<1>2. /\ QInv(q) /\ q \in Query /\ q.pc \in InFlight
      /\ ok => "superadmin" \in q.seen
  BY <1>1, UnderWay, StandingHas DEF InFlight
<1>3. /\ q.override \in Orgs \cup {NoOrg} /\ q.override # NoOrg /\ q.claim = NoOrg
      /\ q.route.guards[q.at] = "jwt" /\ "account" \in q.seen
  BY <1>1, <1>2 DEF QInv, Pending, Query
<1>4. CASE ok
  <2> DEFINE r == [Passed(q) EXCEPT !.org = q.override]
  <2>1. /\ Same(q, r) /\ r.at = q.at + 1 /\ r.org = q.override
        /\ r.pc = IF q.at < Len(q.route.guards) THEN "guarding" ELSE "admitted"
    BY <1>2, <1>3, PassedIs
  <2>2. Reply(c, r)
    BY <1>4 DEF CheckRoleKeys, PassOrRefuse
  <2> HIDE DEF r
  <2>3. Fact(r, q.at)
    BY <1>2, <1>3, <1>4, <2>1 DEF Fact, Same, ActsIn
  <2>4. QInv(r)
    BY <1>2, <1>3, <2>1, <2>3, PassKeeps
  <2>. QED  BY <2>2, <2>4, ReplyKeeps
<1>5. CASE ~ok
  <2> DEFINE r == [[q EXCEPT !.pc = "refused"] EXCEPT !.org = q.override]
  <2>1. Same(q, r) /\ r.at = q.at /\ r.pc = "refused"
    BY <1>2, <1>3, RefusedIs
  <2>2. Reply(c, r)
    BY <1>5 DEF CheckRoleKeys, PassOrRefuse
  <2> HIDE DEF r
  <2>3. QInv(r)
    BY <1>2, <2>1, RefuseKeeps
  <2>. QED  BY <2>2, <2>3, ReplyKeeps
<1>. QED  BY <1>4, <1>5

(* A guard other than the first ends with a decision.                        *)
LEMMA DecisionKeeps ==
  ASSUME IInv, NEW c \in Calls, NEW ok \in BOOLEAN, query[c].pc \in InFlight,
         query[c].route.guards[query[c].at] # "jwt",
         ok => Fact(query[c], query[c].at),
         Reply(c, PassOrRefuse(query[c], ok))
  PROVE  IInv'
<1> DEFINE q == query[c]
<1>1. QInv(q) /\ q \in Query
  BY UnderWay
<1>2. CASE ok
  <2>1. /\ Same(q, Passed(q)) /\ Passed(q).at = q.at + 1 /\ Passed(q).org = q.org
        /\ Passed(q).pc = IF q.at < Len(q.route.guards) THEN "guarding" ELSE "admitted"
    BY <1>1, PassedOnIs
  <2>2. Fact(Passed(q), q.at)
    BY <1>2, <2>1 DEF Fact, Same, ActsIn
  <2>3. QInv(Passed(q))
    BY <1>1, <2>1, <2>2, PassKeeps
  <2>. QED  BY <1>2, <2>3, ReplyKeeps DEF PassOrRefuse
<1>3. CASE ~ok
  <2> DEFINE r == [q EXCEPT !.pc = "refused"]
  <2>1. Same(q, r) /\ r.at = q.at /\ r.pc = "refused"
    BY <1>1, MovedIs DEF Decided
  <2>2. Reply(c, r)
    BY <1>3 DEF PassOrRefuse
  <2> HIDE DEF r
  <2>3. QInv(r)
    BY <1>1, <2>1, RefuseKeeps
  <2>. QED  BY <2>2, <2>3, ReplyKeeps
<1>. QED  BY <1>2, <1>3

(* A guard that reads on                                                     *)
LEMMA ReadingOnKeeps ==
  ASSUME IInv, NEW c \in Calls, NEW pc \in InFlight, query[c].pc \in InFlight,
         Pending([query[c] EXCEPT !.pc = pc]), Reply(c, [query[c] EXCEPT !.pc = pc])
  PROVE  IInv'
<1> DEFINE q == query[c]
           r == [q EXCEPT !.pc = pc]
<1>1. QInv(q) /\ q \in Query
  BY UnderWay
<1>2. Same(q, r) /\ r.at = q.at /\ r.org = q.org /\ r.pc = pc
  BY <1>1, MovedIs
<1>3. QInv(r)
  BY <1>1, <1>2, WaitKeeps
<1>. QED  BY <1>3, ReplyKeeps

LEMMA ScopeAndPermissionsKeep ==
  ASSUME IInv, NEW c \in Calls, OrgScope(c) \/ CheckPermissions(c)
  PROVE  IInv'
<1> DEFINE q == query[c]
<1>1. CASE OrgScope(c)
  <2>1. /\ q.pc \in InFlight /\ q.route.guards[q.at] = "org"
        /\ Reply(c, PassOrRefuse(q, q.org # NoOrg))
    BY <1>1 DEF OrgScope, AtGuard, InFlight
  <2>2. q.org # NoOrg => Fact(q, q.at)
    BY <2>1 DEF Fact
  <2>. QED  BY <2>1, <2>2, DecisionKeeps
<1>2. CASE CheckPermissions(c)
  <2> DEFINE ok == HasPermissions(q, Account(c))
  <2>1. /\ q.pc \in InFlight /\ q.route.guards[q.at] = "permissions"
        /\ Reply(c, PassOrRefuse(q, ok)) /\ ok \in BOOLEAN
    BY <1>2 DEF CheckPermissions, AtGuard, InFlight, HasPermissions
  <2>2. ok => "permission" \in q.seen
    BY <2>1, UnderWay, StandingHas
  <2>3. ok => Fact(q, q.at)
    BY <2>1, <2>2 DEF Fact
  <2>. QED  BY <2>1, <2>3, DecisionKeeps
<1>. QED  BY <1>1, <1>2

LEMMA EnterBuildingKeeps ==
  ASSUME IInv, NEW c \in Calls, EnterBuilding(c)
  PROVE  IInv'
<1> DEFINE q == query[c]
           away == q.org = NoOrg \/ BuildingOrg[q.building] # q.org
           may == q.route.needs # {} /\ HasPermissions(q, Account(c))
<1>1. q.pc \in InFlight /\ q.pc = "guarding" /\ q.route.guards[q.at] = "building"
  BY DEF EnterBuilding, AtGuard, InFlight
<1>2. QInv(q) /\ q \in Query /\ (may => "permission" \in q.seen)
  BY <1>1, UnderWay, StandingHas
<1>3. CASE q.route.level = "none"
  <2>1. Reply(c, PassOrRefuse(q, TRUE))
    BY <1>3 DEF EnterBuilding, PassOrRefuse
  <2>2. Fact(q, q.at)
    BY <1>1, <1>3 DEF Fact
  <2>. QED  BY <1>1, <2>1, <2>2, DecisionKeeps
<1>4. CASE q.route.level # "none" /\ away
  <2>1. Reply(c, PassOrRefuse(q, FALSE))
    BY <1>4 DEF EnterBuilding, PassOrRefuse
  <2>. QED  BY <1>1, <2>1, DecisionKeeps
<1>5. CASE q.route.level # "none" /\ ~away /\ may
  <2>1. Reply(c, PassOrRefuse(q, TRUE))
    BY <1>5 DEF EnterBuilding, PassOrRefuse
  <2>2. Fact(q, q.at)
    BY <1>1, <1>2, <1>5 DEF Fact, Rights
  <2>. QED  BY <1>1, <2>1, <2>2, DecisionKeeps
<1>6. CASE q.route.level # "none" /\ ~away /\ ~may
  <2> DEFINE r == [q EXCEPT !.pc = "assignment"]
  <2>1. Reply(c, r)
    BY <1>6 DEF EnterBuilding
  <2>2. Same(q, r) /\ r.at = q.at /\ r.org = q.org /\ r.pc = "assignment"
    BY <1>2, MovedIs DEF InFlight
  <2>3. Pending(r)
    BY <1>1, <1>6, <2>2 DEF Pending, Same
  <2>4. "assignment" \in InFlight
    BY DEF InFlight
  <2>. QED  BY <1>1, <2>1, <2>3, <2>4, ReadingOnKeeps
<1>. QED  BY <1>3, <1>4, <1>5, <1>6

LEMMA AssignmentAndOccupancyKeep ==
  ASSUME IInv, NEW c \in Calls, CheckAssignment(c) \/ CheckOccupancy(c)
  PROVE  IInv'
<1> DEFINE q == query[c]
<1>1. q.pc \in {"assignment", "occupancy"} /\ q.pc \in InFlight
  BY DEF CheckAssignment, CheckOccupancy, InFlight
<1>2. /\ QInv(q) /\ q \in Query
      /\ HasAssignment(q, staff) => "assignment" \in q.seen
      /\ HasOccupancy(q, homes) => "occupancy" \in q.seen
  BY <1>1, UnderWay, StandingHas
<1>3. q.route.guards[q.at] = "building" /\ BuildingOrg[q.building] = q.org
  BY <1>1, <1>2 DEF QInv, Pending
<1>4. ASSUME NEW ok \in BOOLEAN, Reply(c, PassOrRefuse(q, ok)),
             ok => HasAssignment(q, staff) \/ HasOccupancy(q, homes)
      PROVE  IInv'
  <2>1. ok => Fact(q, q.at)
    BY <1>2, <1>3, <1>4 DEF Fact, Rights
  <2>. QED  BY <1>1, <1>3, <1>4, <2>1, DecisionKeeps
<1>5. HasAssignment(q, staff) \in BOOLEAN /\ HasOccupancy(q, homes) \in BOOLEAN
  BY DEF HasAssignment, HasOccupancy
<1>6. CASE CheckOccupancy(c)
  BY <1>4, <1>5, <1>6 DEF CheckOccupancy
<1>7. CASE CheckAssignment(c)
  <2> DEFINE on == q.route.level = "read" /\ q.route.residents /\ ~HasAssignment(q, staff)
  <2>1. CASE ~on
    BY <1>4, <1>5, <1>7, <2>1 DEF CheckAssignment
  <2>2. CASE on
    <3> DEFINE r == [q EXCEPT !.pc = "occupancy"]
    <3>1. Reply(c, r)
      BY <1>7, <2>2 DEF CheckAssignment
    <3>2. Same(q, r) /\ r.at = q.at /\ r.org = q.org /\ r.pc = "occupancy"
      BY <1>2, MovedIs DEF InFlight
    <3>3. Pending(r) /\ "occupancy" \in InFlight
      BY <1>3, <3>2 DEF Pending, Same, InFlight
    <3>. QED  BY <1>1, <3>1, <3>3, ReadingOnKeeps
  <2>. QED  BY <2>1, <2>2
<1>. QED  BY <1>6, <1>7

LEMMA PlatformKeeps ==
  ASSUME IInv, NEW c \in Calls, EnterPlatform(c) \/ CheckPlatformPermissions(c)
  PROVE  IInv'
<1> DEFINE q == query[c]
           may == HasPermissions(q, Account(c))
           good == IsCurrent(q, Account(c)) /\ Account(c).org = NoOrg /\ q.route.needs # {}
<1>1. q.pc \in InFlight
  BY DEF EnterPlatform, CheckPlatformPermissions, AtGuard, InFlight
<1>2. /\ QInv(q) /\ q \in Query /\ (may => "permission" \in q.seen)
      /\ IsCurrent(q, Account(c)) => "account" \in q.seen
  BY <1>1, UnderWay, StandingHas
<1>3. CASE CheckPlatformPermissions(c)
  <2>1. q.route.guards[q.at] = "platform" /\ "account" \in q.seen
    BY <1>2, <1>3 DEF CheckPlatformPermissions, QInv, Pending
  <2>2. may \in BOOLEAN /\ Reply(c, PassOrRefuse(q, may))
    BY <1>3 DEF CheckPlatformPermissions, HasPermissions
  <2>3. may => Fact(q, q.at)
    BY <1>2, <2>1 DEF Fact
  <2>. QED  BY <1>1, <2>1, <2>2, <2>3, DecisionKeeps
<1>4. CASE EnterPlatform(c)
  <2>1. q.pc = "guarding" /\ q.route.guards[q.at] = "platform"
    BY <1>4 DEF EnterPlatform, AtGuard
  <2>2. CASE q.key
    <3>1. Reply(c, PassOrRefuse(q, TRUE))
      BY <1>4, <2>2 DEF EnterPlatform, PassOrRefuse
    <3>2. Fact(q, q.at)
      BY <2>1, <2>2 DEF Fact
    <3>. QED  BY <1>1, <2>1, <3>1, <3>2, DecisionKeeps
  <2>3. CASE ~q.key /\ ~good
    <3>1. Reply(c, PassOrRefuse(q, FALSE))
      BY <1>4, <2>3 DEF EnterPlatform, PassOrRefuse
    <3>. QED  BY <1>1, <2>1, <3>1, DecisionKeeps
  <2>4. CASE ~q.key /\ good
    <3> DEFINE r == [q EXCEPT !.pc = "platform"]
    <3>1. Reply(c, r)
      BY <1>4, <2>4 DEF EnterPlatform
    <3>2. Same(q, r) /\ r.at = q.at /\ r.org = q.org /\ r.pc = "platform"
      BY <1>2, MovedIs DEF InFlight
    <3>3. Pending(r) /\ "platform" \in InFlight
      BY <1>2, <2>1, <2>4, <3>2 DEF Pending, Same, InFlight
    <3>. QED  BY <1>1, <3>1, <3>3, ReadingOnKeeps
  <2>. QED  BY <2>2, <2>3, <2>4
<1>. QED  BY <1>3, <1>4

-----------------------------------------------------------------------------
(* Coming and going *)

LEMMA BeginKeeps ==
  ASSUME IInv, NEW c \in Calls, NEW r \in Routes, NEW t \in signed,
         NEW override \in OverridesFor(r), NEW b \in BuildingsOf(r), NEW key \in KeysFor(r),
         Begin(c, r, t, override, b, key)
  PROVE  IInv'
<1> DEFINE s == Standing([user |-> t[1], claim |-> t[2], route |-> r, building |-> b],
                         account[t[1]], staff, homes)
           pc == IF r.guards = <<>> THEN "admitted" ELSE "guarding"
           p == [pc |-> pc, at |-> 1, route |-> r,
                 user |-> t[1], claim |-> t[2], override |-> override, building |-> b, key |-> key,
                 org |-> NoOrg, seen |-> {}, kept |-> {}]
           q == [p EXCEPT !.seen = s, !.kept = s]
<1>1. t[1] \in Users /\ t[2] \in Orgs \cup {NoOrg}
  BY DEF IInv, TypeOK
<1>2. /\ override \in Orgs \cup {NoOrg} /\ key \in BOOLEAN
      /\ b \in Buildings \cup {NoBuilding} /\ pc \in InFlight \cup Decided
      /\ s \subseteq Marks
  BY StandingHas DEF OverridesFor, KeysFor, BuildingsOf, InFlight, Decided
<1>3. Standing(p, account[t[1]], staff, homes) = s
  BY SameStanding
<1>4. Reply(c, q)
  BY <1>3 DEF Begin
<1> HIDE DEF pc, s
<1>5. /\ q \in Query /\ q.seen = s /\ q.kept = s /\ q.at = 1 /\ q.route = r /\ q.pc = pc
      /\ q.user = t[1] /\ q.claim = t[2] /\ q.building = b
  BY <1>1, <1>2 DEF Query
<1>6. Len(r.guards) \in Nat /\ (r.guards = <<>> <=> Len(r.guards) = 0)
  BY Guards, RouteAssumption
<1>7. p.route = r /\ p.user = t[1] /\ p.claim = t[2] /\ p.building = b
  OBVIOUS
<1> HIDE DEF p, q
<1>8. Standing(q, account[t[1]], staff, homes) = s
  BY <1>3, <1>5, <1>7, SameStanding
<1>9. HadDocumented(q)
  BY <1>5, <1>8, StandingHas DEF HadDocumented
<1>10. QInv(q)
  BY <1>5, <1>6, <1>8, <1>9 DEF QInv, QueryOK, Facts, Pending, Current, InFlight, pc
<1>. QED  BY <1>4, <1>10, ReplyKeeps

LEMMA AnswerKeeps ==
  ASSUME IInv, NEW c \in Calls, Answer(c)
  PROVE  IInv'
BY ReplyKeeps DEF Answer

-----------------------------------------------------------------------------
(* Changes: what was seen only grows *)

LEMMA ChangedKeeps ==
  ASSUME IInv, NEW a, NEW st, NEW hm, Changed(a, st, hm),
         a \in [Users -> [org : Orgs \cup {NoOrg}, active : BOOLEAN, profile : Profiles]],
         st \subseteq Users \X Buildings \X Types, hm \subseteq Users \X Buildings,
         signed' \subseteq Users \X (Orgs \cup {NoOrg}),
         \A u \in Users : <<u, a[u].org>> \in signed'
  PROVE  IInv'
<1>1. /\ account' = a /\ staff' = st /\ homes' = hm /\ DOMAIN query' = Calls
  BY DEF Changed
<1>2. ASSUME NEW c \in Calls
      PROVE  query'[c] = Idle \/ (QInv(query[c])' /\ QueryOK(query'[c]))
  <2> DEFINE q == query[c]
             s == Standing(q, a[q.user], st, hm)
             r == [q EXCEPT !.seen = @ \cup s, !.kept = @ \cap s]
  <2>1. CASE q.pc \in InFlight
    <3>1. QInv(q) /\ q \in Query
      BY <2>1, UnderWay
    <3>2. query'[c] = r
      BY <2>1 DEF Changed
    <3>3. /\ s \subseteq Marks /\ s = Standing(q, a[q.user], st, hm)
          /\ "permission" \in s /\ Documented[q.route] \subseteq q.route.needs => "documented" \in s
      BY StandingHas
    <3> HIDE DEF s
    <3>4. /\ r \in Query /\ r.seen = q.seen \cup s /\ r.kept = q.kept \cap s
          /\ r.pc = q.pc /\ r.at = q.at /\ r.route = q.route /\ r.user = q.user
          /\ r.claim = q.claim /\ r.override = q.override /\ r.org = q.org
          /\ r.building = q.building /\ r.key = q.key
      BY <3>1, <3>3 DEF Query
    <3> HIDE DEF r
    <3>5. Standing(r, a[q.user], st, hm) = s
      BY <3>3, <3>4, SameStanding
    <3>6. QueryOK(r)
      BY <3>1, <3>4 DEF QInv, QueryOK
    <3>7. Facts(r)
      BY <3>1, <3>4 DEF QInv, Facts, Fact, ActsIn
    <3>8. Pending(r)
      BY <3>1, <3>4 DEF QInv, Pending
    <3>9. Standing(query'[c], account'[query'[c].user], staff', homes') \subseteq query'[c].seen
      BY <1>1, <3>2, <3>4, <3>5
    <3>10. HadDocumented(r)
      BY <3>1, <3>3, <3>4 DEF QInv, HadDocumented
    <3>. QED
      BY <3>2, <3>6, <3>7, <3>8, <3>9, <3>10
         DEF QInv, QueryOK, Facts, Fact, Pending, Current, HadDocumented, ActsIn
  <2>2. CASE q.pc \notin InFlight
    <3>1. query'[c] = q
      BY <2>2 DEF Changed
    <3>2. q = Idle \/ QInv(q)
      BY DEF IInv
    <3>. QED
      BY <2>2, <3>1, <3>2 DEF QInv, QueryOK, Facts, Fact, Pending, Current, HadDocumented, ActsIn
  <2>. QED  BY <2>1, <2>2
<1>3. TypeOK'
  BY <1>1, <1>2 DEF TypeOK
<1>. QED  BY <1>2, <1>3 DEF IInv

LEMMA WorldKeeps ==
  ASSUME IInv, NEW u \in Users,
         \/ \E p \in Profiles : SetProfile(u, p)
         \/ \E b \in Buildings : (\E type \in Types : Assign(u, b, type)) \/ Move(u, {<<u, b>>})
         \/ \E o \in Orgs : Link(u, o)
         \/ Move(u, {}) \/ Deactivate(u)
  PROVE  IInv'
<1>1. /\ account \in [Users -> [org : Orgs \cup {NoOrg}, active : BOOLEAN, profile : Profiles]]
      /\ staff \subseteq Users \X Buildings \X Types /\ homes \subseteq Users \X Buildings
      /\ signed \subseteq Users \X (Orgs \cup {NoOrg})
      /\ \A v \in Users : <<v, account[v].org>> \in signed
  BY DEF IInv, TypeOK
<1>2. ASSUME NEW p \in Profiles, SetProfile(u, p)
      PROVE  IInv'
  <2> DEFINE a == [account EXCEPT ![u].profile = p]
  <2>1. /\ a \in [Users -> [org : Orgs \cup {NoOrg}, active : BOOLEAN, profile : Profiles]]
        /\ \A v \in Users : a[v].org = account[v].org
    BY <1>1
  <2>2. Changed(a, staff, homes) /\ signed' = signed
    BY <1>2 DEF SetProfile
  <2> HIDE DEF a
  <2>. QED  BY <1>1, <2>1, <2>2, ChangedKeeps
<1>3. ASSUME NEW b \in Buildings, NEW type \in Types, Assign(u, b, type)
      PROVE  IInv'
  <2> DEFINE st == staff \cup {<<u, b, type>>}
  <2>1. st \subseteq Users \X Buildings \X Types
    BY <1>1
  <2>2. Changed(account, st, homes) /\ signed' = signed
    BY <1>3 DEF Assign
  <2> HIDE DEF st
  <2>. QED  BY <1>1, <2>1, <2>2, ChangedKeeps
<1>4. ASSUME NEW hm \in SUBSET (Users \X Buildings), Move(u, hm)
      PROVE  IInv'
  <2> DEFINE new == {h \in homes : h[1] # u} \cup hm
  <2>1. new \subseteq Users \X Buildings
    BY <1>1
  <2>2. Changed(account, staff, new) /\ signed' = signed
    BY <1>4 DEF Move
  <2> HIDE DEF new
  <2>. QED  BY <1>1, <2>1, <2>2, ChangedKeeps
<1>5. ASSUME NEW o \in Orgs, Link(u, o)
      PROVE  IInv'
  <2> DEFINE a == [account EXCEPT ![u].org = o]
  <2>1. /\ a \in [Users -> [org : Orgs \cup {NoOrg}, active : BOOLEAN, profile : Profiles]]
        /\ \A v \in Users : a[v].org = IF v = u THEN o ELSE account[v].org
    BY <1>1
  <2>2. Changed(a, staff, homes) /\ signed' = signed \cup {<<u, o>>}
    BY <1>5 DEF Link
  <2> HIDE DEF a
  <2>3. signed' \subseteq Users \X (Orgs \cup {NoOrg})
    BY <1>1, <2>2
  <2>4. \A v \in Users : <<v, a[v].org>> \in signed'
    BY <1>1, <2>1, <2>2
  <2>. QED  BY <1>1, <2>1, <2>2, <2>3, <2>4, ChangedKeeps
<1>6. ASSUME Deactivate(u)
      PROVE  IInv'
  <2> DEFINE a == [account EXCEPT ![u].active = FALSE]
  <2>1. /\ a \in [Users -> [org : Orgs \cup {NoOrg}, active : BOOLEAN, profile : Profiles]]
        /\ \A v \in Users : a[v].org = account[v].org
    BY <1>1
  <2>2. Changed(a, staff, homes) /\ signed' = signed
    BY <1>6 DEF Deactivate
  <2> HIDE DEF a
  <2>. QED  BY <1>1, <2>1, <2>2, ChangedKeeps
<1>7. {} \in SUBSET (Users \X Buildings)
      /\ \A b \in Buildings : {<<u, b>>} \in SUBSET (Users \X Buildings)
  OBVIOUS
<1>. QED  BY <1>2, <1>3, <1>4, <1>5, <1>6, <1>7

-----------------------------------------------------------------------------
(* The theorems *)

LEMMA InitHolds ==
  ASSUME Init
  PROVE  IInv
<1>1. \A c \in Calls : query[c] = Idle
  BY DEF Init
<1>2. DOMAIN query = Calls /\ staff = {} /\ homes = {} /\ account = FirstAccount
  BY DEF Init
<1>3. /\ signed \subseteq Users \X (Orgs \cup {NoOrg})
      /\ \A u \in Users : <<u, account[u].org>> \in signed
  <2>1. \A u \in Users : FirstAccount[u].org \in Orgs \cup {NoOrg}
    BY RouteAssumption
  <2>2. \A t \in signed : \E u \in Users : t = <<u, FirstAccount[u].org>>
    BY DEF Init
  <2>3. \A u \in Users : <<u, FirstAccount[u].org>> \in signed
    BY DEF Init
  <2>. QED  BY <1>2, <2>1, <2>2, <2>3
<1>. QED  BY <1>1, <1>2, <1>3, RouteAssumption DEF IInv, TypeOK

LEMMA NextKeeps ==
  ASSUME IInv, [Next]_vars
  PROVE  IInv'
<1>1. CASE UNCHANGED vars
  <2>1. /\ account' = account /\ signed' = signed /\ staff' = staff /\ homes' = homes
        /\ query' = query
    BY <1>1 DEF vars, world
  <2>. QED
    BY <2>1 DEF IInv, TypeOK, QInv, QueryOK, Facts, Pending, Current
<1>2. ASSUME NEW c \in Calls, GuardStep(c)
      PROVE  IInv'
  BY <1>2, ValidateKeeps, CheckRoleKeysKeeps, ScopeAndPermissionsKeep, EnterBuildingKeeps,
     AssignmentAndOccupancyKeep, PlatformKeeps DEF GuardStep
<1>3. CASE \E c \in Calls :
             \/ \E r \in Routes, t \in signed : \E o \in OverridesFor(r), key \in KeysFor(r) :
                  \E b \in BuildingsOf(r) : Begin(c, r, t, o, b, key)
             \/ Answer(c)
  BY <1>3, BeginKeeps, AnswerKeeps
<1>4. CASE \E u \in Users :
             \/ \E p \in Profiles : SetProfile(u, p)
             \/ \E b \in Buildings : (\E type \in Types : Assign(u, b, type)) \/ Move(u, {<<u, b>>})
             \/ \E o \in Orgs : Link(u, o)
             \/ Move(u, {}) \/ Deactivate(u)
  BY <1>4, WorldKeeps
<1>. QED  BY <1>1, <1>2, <1>3, <1>4 DEF Next

(* What a request under way notes, and what each guard leaves behind, holds  *)
(* after every step, whatever administrators change in between.              *)
THEOREM GuardsInvariant == Spec => []IInv
<1>. QED  BY InitHolds, NextKeeps, PTL DEF Spec

(* Every variable keeps its type, for any table of routes.                   *)
THEOREM TypeCorrect == Spec => []TypeOK
<1>1. IInv => TypeOK
  BY DEF IInv
<1>. QED  BY <1>1, GuardsInvariant, PTL

LEMMA AdmittedIs ==
  ASSUME IInv, NEW q \in Of("admitted")
  PROVE  q.pc = "admitted" /\ QInv(q) /\ q \in Query
<1>1. PICK c \in Calls : q = query[c] /\ query[c].pc = "admitted"
  BY DEF Of
<1>2. QInv(query[c])
  BY <1>1 DEF IInv, Idle
<1>. QED  BY <1>1, <1>2 DEF QInv, QueryOK

LEMMA AdmittedPassedAll ==
  ASSUME IInv, NEW q \in Of("admitted"), NEW g, Has(q.route, g)
  PROVE  \E i \in DOMAIN q.route.guards : q.route.guards[i] = g /\ Fact(q, i)
<1>1. q.pc = "admitted"
  BY AdmittedIs
<1>2. QInv(q) /\ q.route \in Routes
  BY AdmittedIs DEF Query
<1>3. \A i \in 1..Len(q.route.guards) : Fact(q, i)
  BY <1>1, <1>2, Guards DEF QInv, Facts, Pending
<1>. QED  BY <1>2, <1>3, Guards DEF Has

(* A handler runs only for a caller who had the right that is documented,    *)
(* for any table of routes in which none lacks its guard and whatever is     *)
(* documented is declared.                                                   *)
THEOREM OnlyByRight ==
  ASSUME TableIsGuarded, TableIsDocumented
  PROVE  Spec => []AdmittedByRight
<1>1. ASSUME IInv, NEW q \in Of("admitted"), q.route \notin Unlike, ~ByKey(q)
      PROVE  HadRight(q)
  <2>1. q.route \in Routes
    BY <1>1, AdmittedIs DEF Query
  <2>2. Documented[q.route] \subseteq q.route.needs /\ HadDocumented(q)
    BY <1>1, <2>1, AdmittedIs DEF TableIsDocumented, QInv
  <2>3. CASE Has(q.route, "platform")
    <3>1. "account" \in q.seen /\ "permission" \in q.seen
      BY <1>1, <2>3, AdmittedPassedAll DEF Fact, ByKey
    <3>. QED  BY <2>2, <3>1 DEF HadDocumented, HadRight
  <2>4. CASE ~Has(q.route, "platform")
    <3>1. q.route.guards # <<>> => "account" \in q.seen
      BY <1>1, <2>1, <2>4, AdmittedPassedAll DEF TableIsGuarded, Fact
    <3>2. CASE q.route.level # "none"
      <4>1. q.seen \cap Rights # {}
        BY <1>1, <2>1, <3>2, AdmittedPassedAll DEF TableIsGuarded, Fact
      <4>. QED  BY <2>2, <3>1, <4>1 DEF HadDocumented, HadRight, Rights
    <3>3. CASE q.route.level = "none" /\ q.route.needs # {}
      <4>1. "permission" \in q.seen
        BY <1>1, <2>1, <2>4, <3>3, AdmittedPassedAll DEF TableIsGuarded, Fact
      <4>. QED  BY <2>2, <3>1, <4>1 DEF HadDocumented, HadRight
    <3>4. CASE q.route.needs = {}
      BY <2>2, <3>1, <3>4 DEF HadRight
    <3>. QED  BY <3>2, <3>3, <3>4
  <2>. QED  BY <2>3, <2>4
<1>2. IInv => AdmittedByRight
  BY <1>1 DEF AdmittedByRight, HadRight
<1>. QED  BY <1>2, GuardsInvariant, PTL

(* A handler acts in the organisation of its caller's token, or, for a       *)
(* platform superadmin, the one asked for, and on its buildings only.        *)
THEOREM OnlyInOwnOrg ==
  ASSUME TableIsGuarded
  PROVE  Spec => []ActsInOwnOrg
<1>1. ASSUME IInv, NEW q \in Of("admitted"), Has(q.route, "org")
      PROVE  /\ q.org \in Orgs /\ q.org = ActsIn(q)
             /\ q.claim = NoOrg => "superadmin" \in q.seen
             /\ q.route.level # "none" => BuildingOrg[q.building] = q.org
  <2>2. q.route \in Routes /\ q.org \in Orgs \cup {NoOrg}
    BY <1>1, AdmittedIs DEF Query
  <2>3. q.org # NoOrg
    BY <1>1, AdmittedPassedAll DEF Fact
  <2>4. Has(q.route, "jwt")
    BY <1>1, <2>2, Guards, RouteAssumption DEF Has
  <2>5. q.org = ActsIn(q) /\ (q.claim = NoOrg => "superadmin" \in q.seen)
    BY <1>1, <2>3, <2>4, AdmittedPassedAll DEF Fact
  <2>6. q.route.level # "none" => BuildingOrg[q.building] = q.org
    BY <1>1, <2>2, AdmittedPassedAll DEF TableIsGuarded, Fact
  <2>. QED  BY <2>2, <2>3, <2>5, <2>6
<1>2. IInv => ActsInOwnOrg
  BY <1>1 DEF ActsInOwnOrg
<1>. QED  BY <1>2, GuardsInvariant, PTL

-----------------------------------------------------------------------------
(* A right that is kept is enough *)

Entitled(q) == "account" \in q.kept /\ q.kept \cap Rights # {} /\ InScope(q)

KeptOK(q) ==
  /\ q.route.level # "none" => q.building \in Buildings
  /\ q.pc \in InFlight => q.kept \subseteq Standing(q, account[q.user], staff, homes)
  /\ q.pc \in {"assignment", "occupancy"} => q.route.level # "none" /\ "permission" \notin q.kept
  /\ q.pc = "occupancy" => "assignment" \notin q.kept
  /\ q.pc = "refused" => ~Entitled(q)

KeptInv == \A c \in Calls : query[c] = Idle \/ KeptOK(query[c])

LEMMA StandingIs ==
  ASSUME NEW q, NEW a, NEW st, NEW hm
  PROVE  /\ "account" \in Standing(q, a, st, hm) => IsCurrent(q, a)
         /\ "superadmin" \in Standing(q, a, st, hm) => a.profile.platform
         /\ "permission" \in Standing(q, a, st, hm) => HasPermissions(q, a)
         /\ "assignment" \in Standing(q, a, st, hm) => HasAssignment(q, st)
         /\ "occupancy" \in Standing(q, a, st, hm) => HasOccupancy(q, hm)
BY DEF Standing

(* What the guards may look for                                              *)
LEMMA Matched ==
  ASSUME TableIsMatched, NEW r \in Routes, NEW i \in DOMAIN r.guards
  PROVE  /\ r.guards[i] \in {"permissions", "platform"} => r.level = "none"
         /\ r.guards[i] = "platform" \/ r.level # "none" => r.needs # {}
<1>1. ASSUME r.guards[i] \in {"permissions", "platform"}, r.level # "none"
      PROVE  FALSE
  <2>1. PICK j \in DOMAIN r.guards : r.guards[j] = "building"
    BY <1>1 DEF TableIsMatched, Has
  <2>2. i = j
    BY <1>1, <2>1, RouteAssumption
  <2>. QED  BY <1>1, <2>1, <2>2
<1>. QED  BY <1>1 DEF TableIsMatched, Has

LEMMA KeptReply ==
  ASSUME IInv, KeptInv, NEW c \in Calls, NEW r, r = Idle \/ KeptOK(r), Reply(c, r)
  PROVE  KeptInv'
<1>1. /\ query' = [query EXCEPT ![c] = r] /\ DOMAIN query = Calls
      /\ account' = account /\ staff' = staff /\ homes' = homes
  BY DEF Reply, world, IInv, TypeOK
<1>2. ASSUME NEW d \in Calls
      PROVE  query'[d] = Idle \/ KeptOK(query'[d])
  BY <1>1 DEF KeptInv
<1>3. \A d \in Calls : query'[d] = Idle \/ KeptOK(query[d])'
  BY <1>1, <1>2 DEF KeptOK, Entitled, InScope, ActsIn
<1>. QED  BY <1>3 DEF KeptInv

LEMMA KeptUnderWay ==
  ASSUME IInv, KeptInv, NEW c \in Calls, query[c].pc \in InFlight
  PROVE  /\ QInv(query[c]) /\ query[c] \in Query /\ KeptOK(query[c])
         /\ query[c].route \in Routes /\ query[c].at \in DOMAIN query[c].route.guards
         /\ "account" \in query[c].kept => IsCurrent(query[c], Account(c))
         /\ "superadmin" \in query[c].kept => Account(c).profile.platform
         /\ "permission" \in query[c].kept => HasPermissions(query[c], Account(c))
         /\ "assignment" \in query[c].kept => HasAssignment(query[c], staff)
         /\ "occupancy" \in query[c].kept => HasOccupancy(query[c], homes)
<1> DEFINE q == query[c]
<1>1. QInv(q) /\ q \in Query
  BY UnderWay
<1>2. KeptOK(q)
  BY DEF KeptInv, Idle, InFlight
<1>3. q.kept \subseteq Standing(q, Account(c), staff, homes)
  BY <1>2 DEF KeptOK, Account
<1>4. q.route \in Routes /\ q.at \in DOMAIN q.route.guards
  BY <1>1, Guards DEF QInv, QueryOK, Query
<1>. QED  BY <1>1, <1>2, <1>3, <1>4, StandingIs

(* A guard lets pass, or refuses one who is not entitled.                    *)
LEMMA KeptPass ==
  ASSUME NEW q, NEW r, KeptOK(q), q.pc \in InFlight, Same(q, r),
         r.pc \in {"guarding", "admitted", "roles", "platform"}
  PROVE  KeptOK(r)
<1>1. Standing(r, account[q.user], staff, homes) = Standing(q, account[q.user], staff, homes)
  BY SameStanding DEF Same
<1>. QED  BY <1>1 DEF KeptOK, Same, InFlight

LEMMA KeptRefuse ==
  ASSUME NEW q, NEW r, KeptOK(q), Same(q, r), r.pc = "refused", ~Entitled(q)
  PROVE  KeptOK(r)
BY DEF KeptOK, Same, InFlight, Entitled, InScope, ActsIn

LEMMA KeptDecision ==
  ASSUME IInv, KeptInv, NEW c \in Calls, NEW ok \in BOOLEAN, query[c].pc \in InFlight,
         ~ok => ~Entitled(query[c]),
         Reply(c, PassOrRefuse(query[c], ok))
  PROVE  KeptInv'
<1> DEFINE q == query[c]
<1>1. q \in Query /\ KeptOK(q)
  BY KeptUnderWay
<1>2. CASE ok
  <2>1. Same(q, Passed(q)) /\ Passed(q).pc \in {"guarding", "admitted"}
    BY <1>1, PassedOnIs
  <2>2. KeptOK(Passed(q))
    BY <1>1, <2>1, KeptPass
  <2>. QED  BY <1>2, <2>2, KeptReply DEF PassOrRefuse
<1>3. CASE ~ok
  <2> DEFINE r == [q EXCEPT !.pc = "refused"]
  <2>1. Same(q, r) /\ r.pc = "refused"
    BY <1>1, MovedIs DEF Decided
  <2>2. Reply(c, r)
    BY <1>3 DEF PassOrRefuse
  <2> HIDE DEF r
  <2>3. KeptOK(r)
    BY <1>1, <1>3, <2>1, KeptRefuse
  <2>. QED  BY <2>2, <2>3, KeptReply
<1>. QED  BY <1>2, <1>3

(* JwtAuthGuard refuses whoever has lost the account, or asks for an         *)
(* organisation without being a superadmin.                                  *)
LEMMA KeptTokens ==
  ASSUME IInv, KeptInv, NEW c \in Calls, Validate(c) \/ CheckRoleKeys(c)
  PROVE  KeptInv'
<1> DEFINE q == query[c]
           good == IsCurrent(q, Account(c))
           on == good /\ Account(c).org = NoOrg /\ q.override # NoOrg
           org == IF q.pc = "roles" THEN q.override ELSE Account(c).org
           ok == IF q.pc = "roles" THEN Account(c).profile.platform ELSE good
<1>1. /\ q.pc \in {"guarding", "roles"} /\ q.pc \in InFlight
      /\ q.route.guards[q.at] = "jwt"
  <2>1. CASE Validate(c)
    BY <2>1 DEF Validate, AtGuard, InFlight
  <2>2. CASE CheckRoleKeys(c)
    <3>1. q.pc = "roles" /\ q.pc \in InFlight
      BY <2>2 DEF CheckRoleKeys, InFlight
    <3>. QED  BY <3>1, UnderWay DEF QInv, Pending
  <2>. QED  BY <2>1, <2>2
<1>2. /\ q \in Query /\ KeptOK(q) /\ QInv(q)
      /\ "account" \in q.kept => good
      /\ "superadmin" \in q.kept => Account(c).profile.platform
      /\ q.at \in DOMAIN q.route.guards
  BY <1>1, KeptUnderWay
<1>3. org \in Orgs \cup {NoOrg}
  BY <1>1, <1>2, UnderWay DEF Query
<1>4. \/ q.pc = "guarding" /\ on /\ Reply(c, [q EXCEPT !.pc = "roles"])
      \/ (q.pc = "guarding" => ~on) /\ Reply(c, [PassOrRefuse(q, ok) EXCEPT !.org = org])
  <2>1. CASE Validate(c)
    <3>1. q.pc = "guarding"
      BY <2>1 DEF Validate, AtGuard
    <3>. QED  BY <2>1, <3>1 DEF Validate
  <2>2. CASE CheckRoleKeys(c)
    <3>1. q.pc = "roles"
      BY <2>2 DEF CheckRoleKeys
    <3>. QED  BY <2>2, <3>1 DEF CheckRoleKeys
  <2>. QED  BY <2>1, <2>2
<1>5. CASE Reply(c, [q EXCEPT !.pc = "roles"])
  <2> DEFINE r == [q EXCEPT !.pc = "roles"]
  <2>1. Same(q, r) /\ r.pc = "roles"
    BY <1>2, MovedIs DEF InFlight
  <2>2. KeptOK(r)
    BY <1>1, <1>2, <2>1, KeptPass
  <2>. QED  BY <1>5, <2>2, KeptReply
<1>6. CASE ok /\ Reply(c, [PassOrRefuse(q, ok) EXCEPT !.org = org])
  <2> DEFINE r == [Passed(q) EXCEPT !.org = org]
  <2>1. Same(q, r) /\ r.pc \in {"guarding", "admitted"}
    BY <1>2, <1>3, PassedIs
  <2>2. Reply(c, r)
    BY <1>6 DEF PassOrRefuse
  <2> HIDE DEF r
  <2>3. KeptOK(r)
    BY <1>1, <1>2, <2>1, KeptPass
  <2>. QED  BY <2>2, <2>3, KeptReply
<1>7. CASE ~ok /\ Reply(c, [PassOrRefuse(q, ok) EXCEPT !.org = org])
  <2> DEFINE r == [[q EXCEPT !.pc = "refused"] EXCEPT !.org = org]
  <2>1. Same(q, r) /\ r.pc = "refused"
    BY <1>2, <1>3, RefusedIs
  <2>2. Reply(c, r)
    BY <1>7 DEF PassOrRefuse
  <2> HIDE DEF r
  <2>3. ~Entitled(q)
    <3>1. Has(q.route, "jwt")
      BY <1>1, <1>2 DEF Has
    <3>2. q.pc = "roles" => q.claim = NoOrg /\ q.override # NoOrg
      BY <1>2 DEF QInv, Pending
    <3>. QED  BY <1>1, <1>2, <1>7, <3>1, <3>2 DEF Entitled, InScope
  <2>4. KeptOK(r)
    BY <1>2, <2>1, <2>3, KeptRefuse
  <2>. QED  BY <2>2, <2>4, KeptReply
<1>. QED  BY <1>4, <1>5, <1>6, <1>7

LEMMA OrgIsKnown ==
  ASSUME IInv, NEW c \in Calls, query[c].pc \in InFlight,
         query[c].route.guards[query[c].at] \in {"org", "building"}
  PROVE  query[c].org = ActsIn(query[c])
<1> DEFINE q == query[c]
<1>1. QInv(q) /\ q \in Query
  BY UnderWay
<1>2. q.route \in Routes /\ q.at \in DOMAIN q.route.guards /\ q.at \in Nat \ {0}
  BY <1>1, Guards DEF QInv, QueryOK, Query
<1>3. q.route.guards[1] = "jwt" /\ q.at # 1
  BY <1>2, RouteAssumption
<1>4. Fact(q, 1)
  BY <1>1, <1>2, <1>3 DEF QInv, Facts, InFlight
<1>. QED  BY <1>3, <1>4 DEF Fact

LEMMA KeptScope ==
  ASSUME TableIsMatched, IInv, KeptInv, NEW c \in Calls, OrgScope(c) \/ CheckPermissions(c)
  PROVE  KeptInv'
<1> DEFINE q == query[c]
<1>1. q.pc \in InFlight /\ q.route.guards[q.at] \in {"org", "permissions"}
  BY DEF OrgScope, CheckPermissions, AtGuard, InFlight
<1>2. q.route \in Routes /\ q.at \in DOMAIN q.route.guards
  BY <1>1, KeptUnderWay
<1>3. CASE OrgScope(c)
  <2>1. /\ q.route.guards[q.at] = "org" /\ Reply(c, PassOrRefuse(q, q.org # NoOrg))
    BY <1>3 DEF OrgScope, AtGuard
  <2>2. q.org = NoOrg => ~Entitled(q)
    BY <1>1, <1>2, <2>1, OrgIsKnown DEF Entitled, InScope, Has
  <2>. QED  BY <1>1, <2>1, <2>2, KeptDecision
<1>4. CASE CheckPermissions(c)
  <2> DEFINE ok == HasPermissions(q, Account(c))
  <2>1. /\ q.route.guards[q.at] = "permissions"
        /\ Reply(c, PassOrRefuse(q, ok)) /\ ok \in BOOLEAN
    BY <1>4 DEF CheckPermissions, AtGuard, HasPermissions
  <2>2. q.route.level = "none"
    BY <1>2, <2>1, Matched
  <2>3. ~ok => ~Entitled(q)
    BY <1>1, <2>2, KeptUnderWay DEF Entitled, Rights, HasAssignment, HasOccupancy
  <2>. QED  BY <1>1, <2>1, <2>3, KeptDecision
<1>. QED  BY <1>3, <1>4

LEMMA KeptBuilding ==
  ASSUME TableIsMatched, IInv, KeptInv, NEW c \in Calls, EnterBuilding(c)
  PROVE  KeptInv'
<1> DEFINE q == query[c]
           away == q.org = NoOrg \/ BuildingOrg[q.building] # q.org
           may == q.route.needs # {} /\ HasPermissions(q, Account(c))
<1>1. q.pc \in InFlight /\ q.pc = "guarding" /\ q.route.guards[q.at] = "building"
  BY DEF EnterBuilding, AtGuard, InFlight
<1>2. /\ q.route \in Routes /\ q.at \in DOMAIN q.route.guards /\ q \in Query /\ KeptOK(q)
      /\ "permission" \in q.kept => HasPermissions(q, Account(c))
  BY <1>1, KeptUnderWay
<1>3. CASE q.route.level = "none" \/ (~away /\ may)
  <2>1. Reply(c, PassOrRefuse(q, TRUE))
    BY <1>3 DEF EnterBuilding, PassOrRefuse
  <2>. QED  BY <1>1, <2>1, KeptDecision
<1>4. CASE q.route.level # "none" /\ away
  <2>1. Reply(c, PassOrRefuse(q, FALSE))
    BY <1>4 DEF EnterBuilding, PassOrRefuse
  <2>2. ~Entitled(q)
    <3>1. q.org = ActsIn(q)
      BY <1>1, OrgIsKnown
    <3>2. InScope(q) => Has(q.route, "building") /\ BuildingOrg[q.building] = q.org
      BY <1>2, <1>4, <3>1 DEF InScope, TableIsMatched
    <3>3. q.org # NoOrg \/ ~Entitled(q)
      <4>1. ASSUME q.org = NoOrg, Entitled(q)
            PROVE  FALSE
        <5>1. q.building \in Buildings
          BY <1>2, <1>4 DEF KeptOK
        <5>. QED  BY <3>2, <4>1, <5>1, RouteAssumption DEF Entitled
      <4>. QED  BY <4>1
    <3>. QED  BY <1>4, <3>2, <3>3 DEF Entitled
  <2>. QED  BY <1>1, <2>1, <2>2, KeptDecision
<1>5. CASE q.route.level # "none" /\ ~away /\ ~may
  <2> DEFINE r == [q EXCEPT !.pc = "assignment"]
  <2>1. Reply(c, r)
    BY <1>5 DEF EnterBuilding
  <2>2. Same(q, r) /\ r.pc = "assignment"
    BY <1>2, MovedIs DEF InFlight
  <2>3. "permission" \notin q.kept
    BY <1>2, <1>5, Matched
  <2> HIDE DEF r
  <2>4. KeptOK(r)
    <3>1. Standing(r, account[q.user], staff, homes) = Standing(q, account[q.user], staff, homes)
      BY <2>2, SameStanding DEF Same
    <3>. QED  BY <1>1, <1>2, <1>5, <2>2, <2>3, <3>1 DEF KeptOK, Same
  <2>. QED  BY <2>1, <2>4, KeptReply
<1>. QED  BY <1>3, <1>4, <1>5

LEMMA KeptAssignment ==
  ASSUME IInv, KeptInv, NEW c \in Calls, CheckAssignment(c) \/ CheckOccupancy(c)
  PROVE  KeptInv'
<1> DEFINE q == query[c]
           assigned == HasAssignment(q, staff)
           home == HasOccupancy(q, homes)
           on == q.route.level = "read" /\ q.route.residents /\ ~assigned
<1>1. q.pc \in {"assignment", "occupancy"} /\ q.pc \in InFlight
  BY DEF CheckAssignment, CheckOccupancy, InFlight
<1>2. /\ q \in Query /\ KeptOK(q)
      /\ "assignment" \in q.kept => assigned
      /\ "occupancy" \in q.kept => home
  BY <1>1, KeptUnderWay
<1>3. "permission" \notin q.kept /\ (q.pc = "occupancy" => "assignment" \notin q.kept)
  BY <1>1, <1>2 DEF KeptOK
<1>4. assigned \in BOOLEAN /\ home \in BOOLEAN
  BY DEF HasAssignment, HasOccupancy
<1>5. CASE CheckOccupancy(c)
  <2>1. q.pc = "occupancy" /\ Reply(c, PassOrRefuse(q, home))
    BY <1>5 DEF CheckOccupancy
  <2>2. ~home => ~Entitled(q)
    BY <1>2, <1>3, <2>1 DEF Entitled, Rights
  <2>. QED  BY <1>1, <1>4, <2>1, <2>2, KeptDecision
<1>6. CASE CheckAssignment(c) /\ ~on
  <2>1. Reply(c, PassOrRefuse(q, assigned))
    BY <1>6 DEF CheckAssignment
  <2>2. ~assigned => ~Entitled(q)
    BY <1>2, <1>3, <1>6 DEF Entitled, Rights, HasOccupancy
  <2>. QED  BY <1>1, <1>4, <2>1, <2>2, KeptDecision
<1>7. CASE CheckAssignment(c) /\ on
  <2> DEFINE r == [q EXCEPT !.pc = "occupancy"]
  <2>1. Reply(c, r)
    BY <1>7 DEF CheckAssignment
  <2>2. Same(q, r) /\ r.pc = "occupancy"
    BY <1>2, MovedIs DEF InFlight
  <2> HIDE DEF r
  <2>3. KeptOK(r)
    <3>1. Standing(r, account[q.user], staff, homes) = Standing(q, account[q.user], staff, homes)
      BY <2>2, SameStanding DEF Same
    <3>. QED  BY <1>1, <1>2, <1>3, <1>7, <2>2, <3>1 DEF KeptOK, Same
  <2>. QED  BY <2>1, <2>3, KeptReply
<1>. QED  BY <1>5, <1>6, <1>7

LEMMA KeptPlatform ==
  ASSUME TableIsMatched, IInv, KeptInv, NEW c \in Calls,
         EnterPlatform(c) \/ CheckPlatformPermissions(c)
  PROVE  KeptInv'
<1> DEFINE q == query[c]
           may == HasPermissions(q, Account(c))
           good == IsCurrent(q, Account(c)) /\ Account(c).org = NoOrg /\ q.route.needs # {}
<1>1. q.pc \in InFlight
  BY DEF EnterPlatform, CheckPlatformPermissions, AtGuard, InFlight
<1>2. /\ q.route \in Routes /\ q.at \in DOMAIN q.route.guards /\ q \in Query /\ KeptOK(q)
      /\ "account" \in q.kept => IsCurrent(q, Account(c))
      /\ "permission" \in q.kept => may
      /\ "assignment" \in q.kept => HasAssignment(q, staff)
      /\ "occupancy" \in q.kept => HasOccupancy(q, homes)
      /\ QInv(q)
  BY <1>1, KeptUnderWay
<1>3. q.route.guards[q.at] = "platform"
  BY <1>2 DEF EnterPlatform, CheckPlatformPermissions, AtGuard, QInv, Pending
<1>4. q.route.level = "none" /\ q.route.needs # {} /\ Has(q.route, "platform")
  BY <1>2, <1>3, Matched DEF Has
<1>5. CASE CheckPlatformPermissions(c)
  <2>1. may \in BOOLEAN /\ Reply(c, PassOrRefuse(q, may))
    BY <1>5 DEF CheckPlatformPermissions, HasPermissions
  <2>2. ~may => ~Entitled(q)
    BY <1>2, <1>4 DEF Entitled, Rights, HasAssignment, HasOccupancy
  <2>. QED  BY <1>1, <2>1, <2>2, KeptDecision
<1>6. CASE EnterPlatform(c) /\ q.key
  <2>1. Reply(c, PassOrRefuse(q, TRUE))
    BY <1>6 DEF EnterPlatform, PassOrRefuse
  <2>. QED  BY <1>1, <2>1, KeptDecision
<1>7. CASE EnterPlatform(c) /\ ~q.key /\ ~good
  <2>1. Reply(c, PassOrRefuse(q, FALSE))
    BY <1>7 DEF EnterPlatform, PassOrRefuse
  <2>2. ~Entitled(q)
    BY <1>2, <1>4, <1>7 DEF Entitled, InScope, IsCurrent
  <2>. QED  BY <1>1, <2>1, <2>2, KeptDecision
<1>8. CASE EnterPlatform(c) /\ ~q.key /\ good
  <2> DEFINE r == [q EXCEPT !.pc = "platform"]
  <2>1. Reply(c, r)
    BY <1>8 DEF EnterPlatform
  <2>2. Same(q, r) /\ r.pc = "platform"
    BY <1>2, MovedIs DEF InFlight
  <2>3. KeptOK(r)
    BY <1>1, <1>2, <2>2, KeptPass
  <2>. QED  BY <2>1, <2>3, KeptReply
<1>. QED  BY <1>5, <1>6, <1>7, <1>8

LEMMA KeptBegin ==
  ASSUME IInv, KeptInv, NEW c \in Calls, NEW r \in Routes, NEW t \in signed,
         NEW override, NEW b \in BuildingsOf(r), NEW key, Begin(c, r, t, override, b, key)
  PROVE  KeptInv'
<1> DEFINE pc == IF r.guards = <<>> THEN "admitted" ELSE "guarding"
           p == [pc |-> pc, at |-> 1, route |-> r,
                 user |-> t[1], claim |-> t[2], override |-> override, building |-> b, key |-> key,
                 org |-> NoOrg, seen |-> {}, kept |-> {}]
           s == Standing(p, account[t[1]], staff, homes)
           q == [p EXCEPT !.seen = s, !.kept = s]
<1>1. Reply(c, q)
  BY DEF Begin
<1>2. p.route = r /\ p.user = t[1] /\ p.claim = t[2] /\ p.building = b
  OBVIOUS
<1>3. /\ q.kept = s /\ q.route = r /\ q.pc \in {"admitted", "guarding"}
      /\ q.user = t[1] /\ q.claim = t[2] /\ q.building = b
  <2> HIDE DEF s
  <2>. QED  OBVIOUS
<1> HIDE DEF p, q
<1>4. Standing(q, account[t[1]], staff, homes) = s
  BY <1>2, <1>3, SameStanding
<1>5. KeptOK(q)
  BY <1>3, <1>4 DEF KeptOK, BuildingsOf
<1>. QED  BY <1>1, <1>5, KeptReply

(* What changes takes rights from those that were kept.                      *)
LEMMA KeptChanged ==
  ASSUME IInv, KeptInv, NEW a, NEW st, NEW hm, Changed(a, st, hm)
  PROVE  KeptInv'
<1>1. account' = a /\ staff' = st /\ homes' = hm
  BY DEF Changed
<1>2. ASSUME NEW c \in Calls
      PROVE  query'[c] = Idle \/ KeptOK(query[c])'
  <2> DEFINE q == query[c]
             s == Standing(q, a[q.user], st, hm)
             r == [q EXCEPT !.seen = @ \cup s, !.kept = @ \cap s]
  <2>1. CASE q.pc \in InFlight
    <3>1. KeptOK(q) /\ q \in Query
      BY <2>1, KeptUnderWay
    <3>2. query'[c] = r
      BY <2>1 DEF Changed
    <3>3. s = Standing(q, a[q.user], st, hm)
      OBVIOUS
    <3> HIDE DEF s
    <3>4. /\ r.kept = q.kept \cap s /\ r.pc = q.pc /\ r.route = q.route /\ r.user = q.user
          /\ r.claim = q.claim /\ r.building = q.building
      BY <3>1 DEF Query
    <3> HIDE DEF r
    <3>5. Standing(r, a[q.user], st, hm) = s
      BY <3>3, <3>4, SameStanding
    <3>6. Standing(query'[c], account'[query'[c].user], staff', homes') = s
      BY <1>1, <3>2, <3>4, <3>5
    <3>. QED  BY <2>1, <3>1, <3>2, <3>4, <3>6 DEF KeptOK, InFlight
  <2>2. CASE q.pc \notin InFlight
    <3>1. query'[c] = q
      BY <2>2 DEF Changed
    <3>. QED  BY <2>2, <3>1 DEF KeptInv, KeptOK, Entitled, InScope, ActsIn
  <2>. QED  BY <2>1, <2>2
<1>. QED  BY <1>2 DEF KeptInv

LEMMA KeptNext ==
  ASSUME TableIsMatched, IInv, KeptInv, [Next]_vars
  PROVE  KeptInv'
<1>1. CASE UNCHANGED vars
  BY <1>1 DEF vars, world, KeptInv, KeptOK, Entitled, InScope, ActsIn
<1>2. ASSUME NEW c \in Calls, GuardStep(c)
      PROVE  KeptInv'
  BY <1>2, KeptTokens, KeptScope, KeptBuilding, KeptAssignment, KeptPlatform DEF GuardStep
<1>3. ASSUME NEW c \in Calls, Answer(c)
      PROVE  KeptInv'
  BY <1>3, KeptReply DEF Answer
<1>4. CASE \E c \in Calls :
             \E r \in Routes, t \in signed : \E o \in OverridesFor(r), key \in KeysFor(r) :
               \E b \in BuildingsOf(r) : Begin(c, r, t, o, b, key)
  BY <1>4, KeptBegin
<1>5. CASE \E u \in Users :
             \/ \E p \in Profiles : SetProfile(u, p)
             \/ \E b \in Buildings : (\E type \in Types : Assign(u, b, type)) \/ Move(u, {<<u, b>>})
             \/ \E o \in Orgs : Link(u, o)
             \/ Move(u, {}) \/ Deactivate(u)
  BY <1>5, KeptChanged DEF SetProfile, Assign, Move, Link, Deactivate
<1>. QED  BY <1>1, <1>2, <1>3, <1>4, <1>5 DEF Next

(* Whoever keeps an account and one right while the guards look is let in,   *)
(* for any table whose guards look at the rights its routes ask for.         *)
THEOREM KeepingARightSuffices ==
  ASSUME TableIsMatched
  PROVE  Spec => []KeptRightIsEnough
<1>1. Init => KeptInv
  BY DEF Init, KeptInv
<1>2. IInv /\ KeptInv /\ [Next]_vars => KeptInv'
  BY KeptNext
<1>3. KeptInv => KeptRightIsEnough
  <2>1. ASSUME KeptInv, NEW c \in Calls, query[c].pc = "refused"
        PROVE  ~Entitled(query[c])
    BY <2>1 DEF KeptInv, KeptOK, Idle
  <2>. QED  BY <2>1 DEF KeptRightIsEnough, Of, Entitled
<1>. QED  BY <1>1, <1>2, <1>3, GuardsInvariant, PTL DEF Spec

-----------------------------------------------------------------------------
(* The seed of permissions, roles and accounts: Seed and its scenarios      *)

SeedPc == {"idle", "permissions", "roles", "links", "org", "neworg", "unittypes", "admin",
           "adminrole", "superadmin", "superadminrole", "building", "newbuilding",
           "done", "failed"}

SeedRun == [pc : SeedPc, org : OrgIds \cup {NoOrgId}, kept : BOOLEAN]

SeedAccount == [org : OrgIds \cup {NoOrgId}, password : {"seed", "own"}]

SeedColumns ==
  /\ run \in [Runs -> SeedRun]
  /\ orgs \in [DOMAIN orgs -> BOOLEAN]
  /\ DOMAIN orgs \subseteq OrgIds
  /\ IsFiniteSet(DOMAIN orgs)
  /\ users \in [DOMAIN users -> SeedAccount]
  /\ renames \in Nat

LEMMA SeedTypeInit == SeedInit => SeedColumns
<1>. SUFFICES ASSUME SeedInit PROVE SeedColumns
  OBVIOUS
<1>1. run \in [Runs -> SeedRun]
  BY DEF SeedInit, NotRun, SeedRun, SeedPc
<1>2. DOMAIN orgs = {} /\ orgs \in [DOMAIN orgs -> BOOLEAN]
  BY DEF SeedInit
<1>3. DOMAIN users = {} /\ users \in [DOMAIN users -> SeedAccount]
  BY DEF SeedInit
<1>. QED  BY <1>1, <1>2, <1>3, FS_EmptySet DEF SeedInit, SeedColumns

(* One run goes on.                                                          *)
LEMMA RunGoes ==
  ASSUME SeedColumns, NEW s \in Runs, NEW p \in SeedPc, Go(s, p)
  PROVE  /\ run' \in [Runs -> SeedRun]
         /\ run'[s].pc = p /\ run'[s].org = run[s].org /\ run'[s].kept = run[s].kept
         /\ \A q \in Runs \ {s} : run'[q] = run[q]
BY DEF SeedColumns, SeedRun, Go

LEMMA RunTakes ==
  ASSUME SeedColumns, NEW s \in Runs, NEW p \in SeedPc, NEW o \in OrgIds \cup {NoOrgId},
         run' = [run EXCEPT ![s].pc = p, ![s].org = o]
  PROVE  /\ run' \in [Runs -> SeedRun]
         /\ run'[s].pc = p /\ run'[s].org = o /\ run'[s].kept = run[s].kept
         /\ \A q \in Runs \ {s} : run'[q] = run[q]
BY DEF SeedColumns, SeedRun

LEMMA RunsDisturbed ==
  ASSUME SeedColumns, Disturb
  PROVE  /\ run' \in [Runs -> SeedRun]
         /\ \A q \in Runs : run'[q].pc = run[q].pc /\ run'[q].org = run[q].org
         /\ \A q \in Runs : AtWork(q) => ~run'[q].kept
BY DEF SeedColumns, SeedRun, Disturb

(* What the script does, as far as the organisations are concerned           *)
OrgSteps(s) == FindOrg(s) \/ CreateOrg(s)

HallSteps(s) == FindBuilding(s) \/ CreateBuilding(s)

RowSteps(s) ==
  SeedPermissions(s) \/ SeedRoles(s) \/ SeedRolePermissions(s) \/ SeedUnitTypes(s)
    \/ SeedOrgAdmin(s) \/ SeedPlatformSuperadmin(s)

LEMMA RowStepsGo ==
  ASSUME NEW s \in Runs, Start(s) \/ Fail(s) \/ RowSteps(s)
  PROVE  /\ UNCHANGED <<orgs, halls, renames>>
         /\ \/ UNCHANGED <<run, users>>
            \/ \E p \in SeedPc \ {"neworg", "newbuilding", "done"} : Go(s, p)
BY DEF Start, Fail, RowSteps, SeedPermissions, SeedRoles, UpsertEach,
       SeedRolePermissions, SeedUnitTypes, SeedOrgAdmin, SeedPlatformSuperadmin, UpsertUser, GiveRole, SeedPc

LEMMA AccountsTyped ==
  ASSUME SeedColumns, NEW s \in Runs, NEW p, NEW a, NEW next, NEW o \in OrgIds \cup {NoOrgId},
         UpsertUser(s, p, a, o, next)
  PROVE  users' \in [DOMAIN users' -> SeedAccount]
<1>1. users' = [b \in DOMAIN users \cup {a} |->
                  IF b # a THEN users[b]
                  ELSE [org |-> o, password |-> IF a \in DOMAIN users THEN users[a].password ELSE "seed"]]
  BY DEF UpsertUser
<1>2. \A b \in DOMAIN users : users[b] \in SeedAccount
  BY DEF SeedColumns
<1>3. [org |-> o, password |-> IF a \in DOMAIN users THEN users[a].password ELSE "seed"] \in SeedAccount
  BY <1>2 DEF SeedAccount
<1>. QED  BY <1>1, <1>2, <1>3

LEMMA SeedTypeNext ==
  ASSUME SeedColumns, [SeedNext]_seedVars
  PROVE  SeedColumns'
<1>1. ASSUME UNCHANGED <<orgs, users, renames>>, run' \in [Runs -> SeedRun]
      PROVE  SeedColumns'
  BY <1>1 DEF SeedColumns
<1>2. ASSUME NEW s \in Runs, Start(s) \/ Fail(s) \/ RowSteps(s)
      PROVE  SeedColumns'
  <2>1. run' \in [Runs -> SeedRun]
    BY <1>2, RowStepsGo, RunGoes DEF SeedColumns, SeedPc
  <2>2. run[s].org \in OrgIds \cup {NoOrgId}
    BY DEF SeedColumns, SeedRun
  <2>3. users' = users \/ users' \in [DOMAIN users' -> SeedAccount]
    <3>1. CASE UNCHANGED users
      BY <3>1
    <3>2. CASE \E p, a, next : \E o \in OrgIds \cup {NoOrgId} : UpsertUser(s, p, a, o, next)
      BY <3>2, AccountsTyped
    <3>. QED  BY <1>2, <2>2, <3>1, <3>2
              DEF Start, Fail, RowSteps, SeedPermissions, SeedRoles, UpsertEach,
                  SeedRolePermissions, SeedUnitTypes, SeedOrgAdmin, SeedPlatformSuperadmin, GiveRole
  <2>4. UNCHANGED <<orgs, renames>>
    BY <1>2, RowStepsGo
  <2>. QED  BY <2>1, <2>3, <2>4 DEF SeedColumns
<1>3. ASSUME NEW s \in Runs, FindOrg(s)
      PROVE  SeedColumns'
  <2>1. Named \subseteq DOMAIN orgs /\ UNCHANGED <<orgs, users, renames>>
    BY <1>3 DEF Named, FindOrg
  <2>2. CASE Go(s, "neworg")
    BY <1>1, <2>1, <2>2, RunGoes DEF SeedPc
  <2>3. ASSUME NEW o \in Named, run' = [run EXCEPT ![s].pc = "unittypes", ![s].org = o]
        PROVE  SeedColumns'
    <3>1. o \in OrgIds
      BY <2>1 DEF SeedColumns
    <3>. QED  BY <1>1, <2>1, <2>3, <3>1, RunTakes DEF SeedPc
  <2>. QED  BY <1>3, <2>2, <2>3 DEF FindOrg
<1>4. ASSUME NEW s \in Runs, CreateOrg(s)
      PROVE  SeedColumns'
  <2>1. PICK o \in OrgIds \ DOMAIN orgs :
          /\ orgs' = [i \in DOMAIN orgs \cup {o} |-> IF i = o THEN TRUE ELSE orgs[i]]
          /\ run' = [run EXCEPT ![s].pc = "unittypes", ![s].org = o]
    BY <1>4 DEF CreateOrg
  <2>2. run' \in [Runs -> SeedRun]
    BY <2>1, RunTakes DEF SeedPc
  <2>3. DOMAIN orgs' = DOMAIN orgs \cup {o} /\ orgs' \in [DOMAIN orgs' -> BOOLEAN]
    BY <2>1 DEF SeedColumns
  <2>4. IsFiniteSet(DOMAIN orgs')
    BY <2>3, FS_AddElement DEF SeedColumns
  <2>. QED  BY <1>4, <2>2, <2>3, <2>4 DEF SeedColumns, CreateOrg
<1>5. ASSUME NEW s \in Runs, HallSteps(s)
      PROVE  SeedColumns'
  BY <1>1, <1>5, RunGoes DEF HallSteps, FindBuilding, CreateBuilding, SeedPc
<1>6. ASSUME NEW l, Revoke(l)
      PROVE  SeedColumns'
  BY <1>1, <1>6, RunsDisturbed DEF Revoke
<1>7. ASSUME NEW o \in DOMAIN orgs, Rename(o)
      PROVE  SeedColumns'
  <2>1. DOMAIN orgs' = DOMAIN orgs /\ orgs' \in [DOMAIN orgs' -> BOOLEAN]
    BY <1>7 DEF Rename, SeedColumns
  <2>. QED  BY <1>7, <2>1, RunsDisturbed DEF Rename, SeedColumns
<1>8. ASSUME NEW a \in DOMAIN users, ChangePassword(a)
      PROVE  SeedColumns'
  <2>1. DOMAIN users' = DOMAIN users /\ users' \in [DOMAIN users' -> SeedAccount]
    BY <1>8 DEF ChangePassword, SeedColumns, SeedAccount
  <2>. QED  BY <1>8, <2>1 DEF ChangePassword, SeedColumns
<1>9. CASE UNCHANGED seedVars
  BY <1>9 DEF seedVars, SeedColumns
<1>10. CASE SeedNext
  BY <1>2, <1>3, <1>4, <1>5, <1>6, <1>7, <1>8, <1>10
     DEF SeedNext, Statement, RowSteps, HallSteps
<1>. QED  BY <1>9, <1>10

-----------------------------------------------------------------------------
(* Once *)

OnceInv ==
  /\ \A o, p \in Named : o = p
  /\ Cardinality(DOMAIN orgs \ Named) <= renames
  /\ \A h, k \in halls : h[1] = k[1] => h = k
  /\ \A s \in Runs :
       /\ run[s].pc = "neworg" => Named = {}
       /\ run[s].pc = "newbuilding" => InOrg(run[s].org) = {}

LEMMA OnceInit == SeedInit => OnceInv
<1>. SUFFICES ASSUME SeedInit PROVE OnceInv
  OBVIOUS
<1>1. DOMAIN orgs = {} /\ Named = {} /\ halls = {} /\ renames = 0
  BY DEF SeedInit, Named
<1>2. \A s \in Runs : run[s].pc = "idle"
  BY DEF SeedInit, NotRun
<1>. QED  BY <1>1, <1>2, FS_EmptySet DEF OnceInv

(* Nothing happens to organisations and buildings.                           *)
LEMMA OnceStays ==
  ASSUME OnceInv, UNCHANGED <<orgs, halls, renames>>,
         \A s \in Runs : \/ run'[s].pc \notin {"neworg", "newbuilding"}
                         \/ run'[s].pc = run[s].pc /\ run'[s].org = run[s].org
  PROVE  OnceInv'
BY DEF OnceInv, Named, InOrg

LEMMA OneGoes ==
  ASSUME SeedColumns, OnceInv, NEW s \in Runs, NEW p \in SeedPc \ {"neworg", "newbuilding"},
         Go(s, p),
         UNCHANGED <<orgs, halls, renames>>
  PROVE  OnceInv'
BY RunGoes, OnceStays DEF SeedPc

LEMMA OrgStepsOnce ==
  ASSUME SeedColumns, OnceInv, OneAtATime, NEW s \in Runs, OrgSteps(s)
  PROVE  OnceInv'
<1>1. CASE FindOrg(s) /\ Named = {}
  <2>1. Go(s, "neworg") /\ UNCHANGED <<orgs, halls, renames>>
    BY <1>1 DEF FindOrg
  <2>2. run'[s].pc = "neworg" /\ \A q \in Runs \ {s} : run'[q] = run[q]
    BY <2>1, RunGoes DEF SeedPc
  <2>. QED  BY <1>1, <2>1, <2>2 DEF OnceInv, Named, InOrg
<1>2. CASE FindOrg(s) /\ Named # {}
  <2>1. PICK o \in Named : run' = [run EXCEPT ![s].pc = "unittypes", ![s].org = o]
    BY <1>2 DEF FindOrg
  <2>2. o \in DOMAIN orgs /\ UNCHANGED <<orgs, halls, renames>>
    BY <1>2 DEF Named, FindOrg
  <2>3. run'[s].pc = "unittypes" /\ \A q \in Runs \ {s} : run'[q] = run[q]
    BY <2>1 DEF SeedColumns, SeedRun
  <2>. QED  BY <2>2, <2>3, OnceStays
<1>3. CASE CreateOrg(s)
  <2>1. PICK o \in OrgIds \ DOMAIN orgs :
          /\ orgs' = [i \in DOMAIN orgs \cup {o} |-> IF i = o THEN TRUE ELSE orgs[i]]
          /\ run' = [run EXCEPT ![s].pc = "unittypes", ![s].org = o]
    BY <1>3 DEF CreateOrg
  <2>2. run[s].pc = "neworg" /\ Named = {} /\ UNCHANGED <<halls, renames>>
    BY <1>3 DEF CreateOrg, OnceInv
  <2>3. run'[s].pc = "unittypes" /\ \A q \in Runs \ {s} : run'[q] = run[q]
    BY <2>1, RunTakes DEF SeedPc
  <2>4. DOMAIN orgs' = DOMAIN orgs \cup {o} /\ (Named)' = {o}
    <3>1. DOMAIN orgs' = DOMAIN orgs \cup {o} /\ orgs'[o] = TRUE
          /\ \A i \in DOMAIN orgs : orgs'[i] = orgs[i]
      BY <2>1
    <3>2. \A i \in DOMAIN orgs : ~orgs[i]
      BY <2>2 DEF Named
    <3>. QED  BY <3>1, <3>2 DEF Named
  <2>5. DOMAIN orgs' \ (Named)' = DOMAIN orgs \ Named
    BY <2>2, <2>4
  <2>6. \A q \in Runs \ {s} : run[q].pc # "neworg"
    <3>1. AtWork(s) /\ \A q \in Runs : run[q].pc = "neworg" => AtWork(q)
      BY <2>2 DEF AtWork
    <3>. QED  BY <3>1 DEF OneAtATime
  <2>. QED  BY <2>2, <2>3, <2>4, <2>5, <2>6 DEF OnceInv, InOrg
<1>. QED  BY <1>1, <1>2, <1>3 DEF OrgSteps

LEMMA HallStepsOnce ==
  ASSUME SeedColumns, OnceInv, OneAtATime, NEW s \in Runs, HallSteps(s)
  PROVE  OnceInv'
<1>1. CASE FindBuilding(s) /\ InOrg(run[s].org) # {}
  BY <1>1, OneGoes DEF FindBuilding, SeedPc
<1>2. CASE FindBuilding(s) /\ InOrg(run[s].org) = {}
  <2>1. Go(s, "newbuilding") /\ UNCHANGED <<orgs, halls, renames>>
    BY <1>2 DEF FindBuilding
  <2>2. /\ run'[s].pc = "newbuilding" /\ run'[s].org = run[s].org
        /\ \A q \in Runs \ {s} : run'[q] = run[q]
    BY <2>1, RunGoes DEF SeedPc
  <2>. QED  BY <1>2, <2>1, <2>2 DEF OnceInv, Named, InOrg
<1>3. CASE CreateBuilding(s)
  <2>1. /\ run[s].pc = "newbuilding" /\ Go(s, "done") /\ halls' = halls \cup {<<run[s].org, s>>}
        /\ UNCHANGED <<orgs, renames>>
    BY <1>3 DEF CreateBuilding
  <2>2. run'[s].pc = "done" /\ \A q \in Runs \ {s} : run'[q] = run[q]
    BY <2>1, RunGoes DEF SeedPc
  <2>3. \A h \in halls : h[1] # run[s].org
    BY <2>1 DEF OnceInv, InOrg
  <2>4. \A h, k \in halls' : h[1] = k[1] => h = k
    BY <2>1, <2>3 DEF OnceInv
  <2>5. \A q \in Runs \ {s} : run[q].pc # "newbuilding"
    <3>1. AtWork(s) /\ \A q \in Runs : run[q].pc = "newbuilding" => AtWork(q)
      BY <2>1 DEF AtWork
    <3>. QED  BY <3>1 DEF OneAtATime
  <2>6. \A q \in Runs : run'[q].pc # "newbuilding" /\ (run'[q].pc = "neworg" => run[q].pc = "neworg")
    BY <2>2, <2>5
  <2>. QED  BY <2>1, <2>4, <2>6 DEF OnceInv, Named
<1>. QED  BY <1>1, <1>2, <1>3 DEF HallSteps

LEMMA RenameOnce ==
  ASSUME SeedColumns, OnceInv, NEW o \in DOMAIN orgs, Rename(o)
  PROVE  OnceInv'
<1>1. orgs[o] /\ orgs' = [orgs EXCEPT ![o] = FALSE] /\ renames' = renames + 1 /\ halls' = halls
  BY DEF Rename
<1>2. \A q \in Runs : run'[q].pc = run[q].pc /\ run'[q].org = run[q].org
  BY RunsDisturbed DEF Rename
<1>3. DOMAIN orgs' = DOMAIN orgs /\ (Named)' = Named \ {o} /\ o \in Named
  BY <1>1 DEF SeedColumns, Named
<1>4. Cardinality(DOMAIN orgs' \ (Named)') <= renames'
  <2>1. DOMAIN orgs' \ (Named)' = (DOMAIN orgs \ Named) \cup {o}
    BY <1>3
  <2>2. IsFiniteSet(DOMAIN orgs \ Named) /\ Cardinality(DOMAIN orgs \ Named) \in Nat
    BY FS_Subset, FS_CardinalityType DEF SeedColumns
  <2>3. Cardinality((DOMAIN orgs \ Named) \cup {o}) = Cardinality(DOMAIN orgs \ Named) + 1
    BY <1>3, <2>2, FS_AddElement
  <2>4. Cardinality(DOMAIN orgs \ Named) <= renames /\ renames \in Nat
    BY DEF OnceInv, SeedColumns
  <2>. QED  BY <1>1, <2>1, <2>2, <2>3, <2>4
<1>. QED  BY <1>1, <1>2, <1>3, <1>4 DEF OnceInv, InOrg

LEMMA OnceNext ==
  ASSUME SeedColumns, OnceInv, OneAtATime, [SeedNext]_seedVars
  PROVE  OnceInv'
<1>1. ASSUME UNCHANGED <<orgs, halls, renames, run>>
      PROVE  OnceInv'
  BY <1>1, OnceStays
<1>2. ASSUME NEW s \in Runs, Start(s) \/ Fail(s) \/ RowSteps(s)
      PROVE  OnceInv'
  BY <1>1, <1>2, RowStepsGo, OneGoes DEF SeedPc
<1>3. ASSUME NEW l, Revoke(l)
      PROVE  OnceInv'
  <2>1. UNCHANGED <<orgs, halls, renames>> /\ Disturb
    BY <1>3 DEF Revoke
  <2>. QED  BY <2>1, RunsDisturbed, OnceStays
<1>4. ASSUME NEW a, ChangePassword(a)
      PROVE  OnceInv'
  BY <1>1, <1>4 DEF ChangePassword
<1>5. CASE UNCHANGED seedVars
  BY <1>1, <1>5 DEF seedVars
<1>6. CASE SeedNext
  BY <1>2, <1>3, <1>4, <1>6, OrgStepsOnce, HallStepsOnce, RenameOnce
     DEF SeedNext, Statement, RowSteps, OrgSteps, HallSteps
<1>. QED  BY <1>5, <1>6

(* One organisation and one more for each renaming, and one building in each *)
Once ==
  /\ Cardinality(DOMAIN orgs) <= 1 + renames
  /\ \A o \in DOMAIN orgs : Cardinality(InOrg(o)) <= 1

LEMMA OnceFollows == SeedColumns /\ OnceInv => Once
<1>. SUFFICES ASSUME SeedColumns, OnceInv
              PROVE  Once
  OBVIOUS
<1>1. IsFiniteSet(DOMAIN orgs \ Named) /\ Cardinality(DOMAIN orgs \ Named) \in Nat
  BY FS_Subset, FS_CardinalityType DEF SeedColumns
<1>2. Cardinality(DOMAIN orgs) <= 1 + renames
  <2>1. CASE Named = {}
    <3>1. DOMAIN orgs \ Named = DOMAIN orgs
      BY <2>1
    <3>. QED  BY <1>1, <3>1 DEF OnceInv, SeedColumns
  <2>2. CASE Named # {}
    <3>1. PICK o \in Named : TRUE
      BY <2>2
    <3>2. Named = {o} /\ o \in DOMAIN orgs
      BY <3>1 DEF OnceInv, Named
    <3>3. DOMAIN orgs = (DOMAIN orgs \ Named) \cup {o} /\ o \notin DOMAIN orgs \ Named
      BY <3>2
    <3>4. Cardinality((DOMAIN orgs \ Named) \cup {o}) = Cardinality(DOMAIN orgs \ Named) + 1
      BY <1>1, <3>3, FS_AddElement
    <3>5. Cardinality(DOMAIN orgs) = Cardinality(DOMAIN orgs \ Named) + 1
      BY <3>3, <3>4
    <3>. QED  BY <1>1, <3>5 DEF OnceInv, SeedColumns
  <2>. QED  BY <2>1, <2>2
<1>3. ASSUME NEW o \in DOMAIN orgs
      PROVE  Cardinality(InOrg(o)) <= 1
  <2>1. CASE InOrg(o) = {}
    <3>1. Cardinality({}) = 0
      BY FS_EmptySet
    <3>. QED  BY <2>1, <3>1
  <2>2. CASE InOrg(o) # {}
    <3>1. PICK h \in InOrg(o) : TRUE
      BY <2>2
    <3>2. InOrg(o) = {h}
      BY <3>1 DEF OnceInv, InOrg
    <3>3. Cardinality({h}) = 1
      BY FS_Singleton
    <3>. QED  BY <3>2, <3>3
  <2>. QED  BY <2>1, <2>2
<1>. QED  BY <1>2, <1>3 DEF Once

(* However often the seed is run and wherever its runs fail: if no two runs  *)
(* overlap, nothing is there twice.                                          *)
THEOREM SerialRunsSeedOnce == SeedSpec /\ []OneAtATime => []Once
<1>1. SeedInit => SeedColumns /\ OnceInv
  BY SeedTypeInit, OnceInit
<1>2. SeedColumns /\ OnceInv /\ OneAtATime /\ [SeedNext]_seedVars => SeedColumns' /\ OnceInv'
  BY SeedTypeNext, OnceNext
<1>3. SeedColumns /\ OnceInv => Once
  BY OnceFollows
<1>. QED  BY <1>1, <1>2, <1>3, PTL DEF SeedSpec

LEMMA SerialIsKept ==
  MCSpec => SeedSpec /\ [](scenario = "serial" => OneAtATime)
           /\ [][scenario' = scenario]_mcvars
<1> DEFINE P == scenario = "serial"
<1>1. MCInit => SeedInit /\ OneAtATime
  <2>1. SeedInit => \A s \in Runs : ~AtWork(s)
    BY DEF SeedInit, NotRun, AtWork
  <2>. QED  BY <2>1 DEF MCInit, OneAtATime
<1>2. [MCNext]_mcvars => [SeedNext]_seedVars /\ (P' <=> P) /\ [scenario' = scenario]_mcvars
  BY DEF MCNext, mcvars
<1>3. (P => OneAtATime) /\ [MCNext]_mcvars => (P => OneAtATime)'
  BY DEF MCNext, mcvars, seedVars, OneAtATime, AtWork
<1> HIDE DEF P
<1>4. MCSpec => SeedSpec /\ [](P => OneAtATime) /\ [][scenario' = scenario]_mcvars
  BY <1>1, <1>2, <1>3, PTL DEF MCSpec, SeedSpec
<1>. QED  BY <1>4 DEF P

(* So it is in the scenario of runs one after the other.                     *)
THEOREM ScenarioSeedsOnce == MCSpec => []SeededOnce
<1> DEFINE P == scenario = "serial"
<1>1. MCInit => SeedColumns /\ (P => OnceInv)
  BY SeedTypeInit, OnceInit DEF MCInit
<1>2. SeedColumns /\ (P => OnceInv) /\ (P => OneAtATime) /\ [MCNext]_mcvars
        => SeedColumns' /\ (P => OnceInv)'
  <2>1. [MCNext]_mcvars => [SeedNext]_seedVars /\ (P' <=> P)
    BY DEF MCNext, mcvars
  <2>. QED  BY <2>1, SeedTypeNext, OnceNext
<1>3. SeedColumns /\ (P => OnceInv) => SeededOnce
  BY OnceFollows DEF Once, SeededOnce
<1>4. MCSpec => [](P => OneAtATime)
  BY SerialIsKept, PTL
<1> HIDE DEF P
<1>. QED  BY <1>1, <1>2, <1>3, <1>4, PTL DEF MCSpec

-----------------------------------------------------------------------------
(* Whole *)

(* Where a run is when it has given the platform's account its role, the     *)
(* administrator its role, made the administrator, and rows the unit types *)
Closing == {"building", "newbuilding"}
Platform == {"superadmin", "superadminrole"} \cup Closing
Appointing == {"adminrole"} \cup Platform
Staffing == {"admin"} \cup Appointing

(* What a run under way has done is still so, unless it has been disturbed.  *)
SoFar(k) ==
  k.kept =>
    /\ k.pc \in {"roles", "links", "org", "neworg", "unittypes"} \cup Staffing =>
         PermissionKeys \subseteq Keys("permission")
    /\ k.pc \in {"links", "org", "neworg", "unittypes"} \cup Staffing => Roles \subseteq Keys("role")
    /\ k.pc \in {"org", "neworg", "unittypes"} \cup Staffing => Links \subseteq Keys("link")
    /\ k.pc \in Staffing => \A t \in UnitTypes : <<k.org, t>> \in Keys("unittype")
    /\ k.pc \in Appointing => "admin" \in DOMAIN users /\ users["admin"].org = k.org
    /\ k.pc \in Platform => <<"admin", "org_admin">> \in Keys("member")
    /\ k.pc \in Closing => <<"superadmin", "platform_superadmin">> \in Keys("member")

RunsInv == \A s \in Runs : SoFar(run[s])

LEMMA WholeInit == SeedInit => RunsInv
<1>. SUFFICES ASSUME SeedInit PROVE RunsInv
  OBVIOUS
<1>1. \A s \in Runs : run[s].pc = "idle"
  BY DEF SeedInit, NotRun
<1>. QED  BY <1>1 DEF RunsInv, SoFar, Staffing, Appointing, Platform, Closing

LEMMA PutAdds ==
  ASSUME NEW table, NEW keys, Put(table, keys)
  PROVE  /\ \A t : Keys(t) \subseteq Keys(t)'
         /\ \A k \in keys : k \in Keys(table)'
<1>1. rows' = rows \cup {<<table, k>> : k \in keys}
  BY DEF Put
<1>2. \A t : Keys(t) \subseteq Keys(t)'
  BY <1>1 DEF Keys
<1>3. ASSUME NEW k \in keys
      PROVE  k \in Keys(table)'
  <2>1. <<table, k>> \in rows' /\ <<table, k>>[1] = table /\ <<table, k>>[2] = k
    BY <1>1
  <2>. QED  BY <2>1 DEF Keys
<1>. QED  BY <1>2, <1>3

LEMMA KeysStay == ASSUME UNCHANGED rows PROVE \A t : Keys(t)' = Keys(t)
BY DEF Keys

(* Who is not at work has nothing to lose.                                   *)
LEMMA IdleSoFar ==
  ASSUME NEW k \in SeedRun, k.pc \in {"idle", "done", "failed", "permissions"} \/ ~k.kept
  PROVE  SoFar(k)
BY DEF SoFar, Staffing, Appointing, Platform, Closing

LEMMA OthersIdle ==
  ASSUME SeedColumns, OneAtATime, NEW s \in Runs, AtWork(s), NEW q \in Runs \ {s}
  PROVE  run[q].pc \in {"idle", "done", "failed"}
BY DEF OneAtATime, AtWork

LEMMA StepSoFar ==
  ASSUME SeedColumns, RunsInv, OneAtATime, NEW s \in Runs, AtWork(s),
         SoFar(run[s])', run' \in [Runs -> SeedRun], \A q \in Runs \ {s} : run'[q] = run[q]
  PROVE  RunsInv'
<1>1. ASSUME NEW q \in Runs \ {s}
      PROVE  SoFar(run[q])'
  <2>1. run'[q].pc \in {"idle", "done", "failed"}
    BY OthersIdle
  <2>. QED  BY <2>1 DEF SoFar, Staffing, Appointing, Platform, Closing
<1>. QED  BY <1>1 DEF RunsInv

(* No row is removed, and accounts stay as they are.                         *)
LEMMA RunsKeep ==
  ASSUME RunsInv, UNCHANGED <<run, users>>, \A t : Keys(t) \subseteq Keys(t)'
  PROVE  RunsInv'
BY DEF RunsInv, SoFar

LEMMA UpsertWhole ==
  ASSUME SeedColumns, RunsInv, OneAtATime, NEW s \in Runs,
         SeedPermissions(s) \/ SeedRoles(s) \/ SeedUnitTypes(s)
  PROVE  RunsInv'
<1>1. ASSUME NEW pc, NEW table, NEW keys, NEW next \in SeedPc,
             UpsertEach(s, pc, table, keys, next), ~(keys \subseteq Keys(table))
      PROVE  RunsInv'
  <2>1. PICK k \in keys : Put(table, {k}) /\ UNCHANGED <<run, users>>
    BY <1>1 DEF UpsertEach
  <2>2. \A t : Keys(t) \subseteq Keys(t)'
    BY <2>1, PutAdds
  <2>. QED  BY <2>1, <2>2, RunsKeep
<1>2. SoFar(run[s])
  BY DEF RunsInv
<1>3. CASE SeedPermissions(s) /\ PermissionKeys \subseteq Keys("permission")
  <2>1. run[s].pc = "permissions" /\ Go(s, "roles") /\ UNCHANGED <<rows, users>>
    BY <1>3 DEF SeedPermissions, UpsertEach
  <2>2. /\ run' \in [Runs -> SeedRun] /\ run'[s].pc = "roles"
        /\ \A q \in Runs \ {s} : run'[q] = run[q]
    BY <2>1, RunGoes DEF SeedPc
  <2>3. SoFar(run[s])'
    BY <1>3, <2>1, <2>2, KeysStay DEF SoFar, Staffing, Appointing, Platform, Closing
  <2>. QED  BY <2>1, <2>2, <2>3, StepSoFar DEF AtWork
<1>4. CASE SeedRoles(s) /\ Roles \subseteq Keys("role")
  <2>1. run[s].pc = "roles" /\ Go(s, "links") /\ UNCHANGED <<rows, users>>
    BY <1>4 DEF SeedRoles, UpsertEach
  <2>2. /\ run' \in [Runs -> SeedRun] /\ run'[s].pc = "links" /\ run'[s].kept = run[s].kept
        /\ \A q \in Runs \ {s} : run'[q] = run[q]
    BY <2>1, RunGoes DEF SeedPc
  <2>3. SoFar(run[s])'
    BY <1>2, <1>4, <2>1, <2>2, KeysStay DEF SoFar, Staffing, Appointing, Platform, Closing
  <2>. QED  BY <2>1, <2>2, <2>3, StepSoFar DEF AtWork
<1>5. CASE SeedUnitTypes(s) /\ {<<run[s].org, t>> : t \in UnitTypes} \subseteq Keys("unittype")
  <2>1. run[s].pc = "unittypes" /\ Go(s, "admin") /\ UNCHANGED <<rows, users>>
    BY <1>5 DEF SeedUnitTypes, UpsertEach
  <2>2. /\ run' \in [Runs -> SeedRun] /\ run'[s].pc = "admin" /\ run'[s].kept = run[s].kept
        /\ run'[s].org = run[s].org /\ \A q \in Runs \ {s} : run'[q] = run[q]
    BY <2>1, RunGoes DEF SeedPc
  <2>3. \A t \in UnitTypes : <<run[s].org, t>> \in Keys("unittype")
    BY <1>5
  <2>4. SoFar(run[s])'
    BY <1>2, <2>1, <2>2, <2>3, KeysStay DEF SoFar, Staffing, Appointing, Platform, Closing
  <2>. QED  BY <2>1, <2>2, <2>4, StepSoFar DEF AtWork
<1>. QED  BY <1>1, <1>3, <1>4, <1>5
             DEF SeedPermissions, SeedRoles, SeedUnitTypes, SeedPc

LEMMA LinksWhole ==
  ASSUME SeedColumns, RunsInv, OneAtATime, NEW s \in Runs, SeedRolePermissions(s)
  PROVE  RunsInv'
<1> DEFINE keys == {l \in Links : l[1] \in Keys("role") /\ l[2] \in Keys("permission")}
<1>1. run[s].pc = "links" /\ Go(s, "org") /\ Put("link", keys)
  BY DEF SeedRolePermissions
<1>2. /\ run' \in [Runs -> SeedRun] /\ run'[s].pc = "org" /\ run'[s].kept = run[s].kept
      /\ \A q \in Runs \ {s} : run'[q] = run[q]
  BY <1>1, RunGoes DEF SeedPc
<1>3. SoFar(run[s])
  BY DEF RunsInv
<1>4. run[s].kept => Links \subseteq keys
  <2>1. run[s].kept => Roles \subseteq Keys("role") /\ PermissionKeys \subseteq Keys("permission")
    BY <1>1, <1>3 DEF SoFar
  <2>2. \A l \in Links : l[1] \in Roles /\ l[2] \in PermissionKeys
    BY DEF Links
  <2>. QED  BY <2>1, <2>2
<1> HIDE DEF keys
<1>5. (\A t : Keys(t) \subseteq Keys(t)') /\ \A k \in keys : k \in Keys("link")'
  BY <1>1, PutAdds
<1>6. run[s].kept => Links \subseteq Keys("link")'
  BY <1>4, <1>5
<1>7. SoFar(run[s])'
  <2>1. Keys("role") \subseteq Keys("role")' /\ Keys("permission") \subseteq Keys("permission")'
    BY <1>5
  <2>. QED  BY <1>1, <1>2, <1>3, <1>6, <2>1
               DEF SoFar, Staffing, Appointing, Platform, Closing, Links
<1>. QED  BY <1>1, <1>2, <1>7, StepSoFar DEF AtWork

LEMMA OrgStepsWhole ==
  ASSUME SeedColumns, RunsInv, OneAtATime, NEW s \in Runs, OrgSteps(s)
  PROVE  RunsInv'
<1>1. UNCHANGED <<rows, users>> /\ run[s].pc \in {"org", "neworg"}
  BY DEF OrgSteps, FindOrg, CreateOrg
<1>2. /\ run' \in [Runs -> SeedRun] /\ run'[s].pc \in {"neworg", "unittypes"}
      /\ run'[s].kept = run[s].kept /\ \A q \in Runs \ {s} : run'[q] = run[q]
  <2>1. CASE Go(s, "neworg")
    BY <2>1, RunGoes DEF SeedPc
  <2>2. ASSUME NEW o \in OrgIds, run' = [run EXCEPT ![s].pc = "unittypes", ![s].org = o]
        PROVE  /\ run' \in [Runs -> SeedRun] /\ run'[s].pc = "unittypes"
               /\ run'[s].kept = run[s].kept /\ \A q \in Runs \ {s} : run'[q] = run[q]
    BY <2>2, RunTakes DEF SeedPc
  <2>3. Named \subseteq OrgIds
    BY DEF Named, SeedColumns
  <2>. QED  BY <2>1, <2>2, <2>3 DEF OrgSteps, FindOrg, CreateOrg
<1>3. SoFar(run[s])'
  BY <1>1, <1>2, KeysStay DEF RunsInv, SoFar, Staffing, Appointing, Platform, Closing
<1>. QED  BY <1>1, <1>2, <1>3, StepSoFar DEF AtWork

LEMMA AccountWhole ==
  ASSUME SeedColumns, RunsInv, OneAtATime, NEW s \in Runs,
         \/ UpsertUser(s, "admin", "admin", run[s].org, "adminrole")
         \/ UpsertUser(s, "superadmin", "superadmin", NoOrgId, "superadminrole")
  PROVE  RunsInv'
<1>1. UNCHANGED rows /\ run[s].pc \in {"admin", "superadmin"}
  BY DEF UpsertUser
<1>2. SoFar(run[s])
  BY DEF RunsInv
<1>3. CASE UpsertUser(s, "admin", "admin", run[s].org, "adminrole")
  <2>1. run[s].pc = "admin" /\ Go(s, "adminrole")
    BY <1>3 DEF UpsertUser
  <2>2. /\ run' \in [Runs -> SeedRun] /\ run'[s].pc = "adminrole" /\ run'[s].kept = run[s].kept
        /\ run'[s].org = run[s].org /\ \A q \in Runs \ {s} : run'[q] = run[q]
    BY <2>1, RunGoes DEF SeedPc
  <2>3. "admin" \in DOMAIN users' /\ users'["admin"].org = run[s].org
    BY <1>3 DEF UpsertUser
  <2>4. SoFar(run[s])'
    BY <1>1, <1>2, <2>1, <2>2, <2>3, KeysStay
       DEF SoFar, Staffing, Appointing, Platform, Closing
  <2>. QED  BY <2>1, <2>2, <2>4, StepSoFar DEF AtWork
<1>4. CASE UpsertUser(s, "superadmin", "superadmin", NoOrgId, "superadminrole")
  <2>1. run[s].pc = "superadmin" /\ Go(s, "superadminrole")
    BY <1>4 DEF UpsertUser
  <2>2. /\ run' \in [Runs -> SeedRun] /\ run'[s].pc = "superadminrole"
        /\ run'[s].kept = run[s].kept /\ run'[s].org = run[s].org
        /\ \A q \in Runs \ {s} : run'[q] = run[q]
    BY <2>1, RunGoes DEF SeedPc
  <2>3. "admin" \in DOMAIN users => "admin" \in DOMAIN users' /\ users'["admin"] = users["admin"]
    BY <1>4 DEF UpsertUser
  <2>4. SoFar(run[s])'
    BY <1>1, <1>2, <2>1, <2>2, <2>3, KeysStay
       DEF SoFar, Staffing, Appointing, Platform, Closing
  <2>. QED  BY <2>1, <2>2, <2>4, StepSoFar DEF AtWork
<1>. QED  BY <1>3, <1>4

LEMMA RoleWhole ==
  ASSUME SeedColumns, RunsInv, OneAtATime, NEW s \in Runs,
         \/ GiveRole(s, "adminrole", "admin", "org_admin", "superadmin")
         \/ GiveRole(s, "superadminrole", "superadmin", "platform_superadmin", "building")
  PROVE  RunsInv'
<1>1. SoFar(run[s])
  BY DEF RunsInv
<1>2. ASSUME NEW pc \in {"adminrole", "superadminrole"}, NEW a, NEW role \in Roles, NEW next \in SeedPc,
             GiveRole(s, pc, a, role, next)
      PROVE  /\ UNCHANGED users /\ run[s].pc = pc /\ (\A t : Keys(t) \subseteq Keys(t)')
             /\ run' \in [Runs -> SeedRun] /\ run'[s].pc = next /\ run'[s].kept = run[s].kept
             /\ run'[s].org = run[s].org /\ \A q \in Runs \ {s} : run'[q] = run[q]
             /\ run[s].kept => <<a, role>> \in Keys("member")'
  <2> DEFINE keys == {<<a, r>> : r \in {role} \cap Keys("role")}
  <2>1. run[s].pc = pc /\ Go(s, next) /\ Put("member", keys) /\ UNCHANGED users
    BY <1>2 DEF GiveRole
  <2>2. run[s].kept => <<a, role>> \in keys
    BY <1>1, <2>1 DEF SoFar, Staffing, Appointing, Platform
  <2> HIDE DEF keys
  <2>3. (\A t : Keys(t) \subseteq Keys(t)') /\ \A k \in keys : k \in Keys("member")'
    BY <2>1, PutAdds
  <2>. QED  BY <2>1, <2>2, <2>3, RunGoes
<1>3. "org_admin" \in Roles /\ "platform_superadmin" \in Roles
  BY SeedAssumption
<1>4. CASE GiveRole(s, "adminrole", "admin", "org_admin", "superadmin")
  <2>1. /\ UNCHANGED users /\ run[s].pc = "adminrole" /\ (\A t : Keys(t) \subseteq Keys(t)')
        /\ run' \in [Runs -> SeedRun] /\ run'[s].pc = "superadmin" /\ run'[s].kept = run[s].kept
        /\ run'[s].org = run[s].org /\ \A q \in Runs \ {s} : run'[q] = run[q]
        /\ run[s].kept => <<"admin", "org_admin">> \in Keys("member")'
    BY <1>2, <1>3, <1>4 DEF SeedPc
  <2>2. SoFar(run[s])'
    BY <1>1, <2>1 DEF SoFar, Staffing, Appointing, Platform, Closing
  <2>. QED  BY <2>1, <2>2, StepSoFar DEF AtWork
<1>5. CASE GiveRole(s, "superadminrole", "superadmin", "platform_superadmin", "building")
  <2>1. /\ UNCHANGED users /\ run[s].pc = "superadminrole" /\ (\A t : Keys(t) \subseteq Keys(t)')
        /\ run' \in [Runs -> SeedRun] /\ run'[s].pc = "building" /\ run'[s].kept = run[s].kept
        /\ run'[s].org = run[s].org /\ \A q \in Runs \ {s} : run'[q] = run[q]
        /\ run[s].kept => <<"superadmin", "platform_superadmin">> \in Keys("member")'
    BY <1>2, <1>3, <1>5 DEF SeedPc
  <2>2. SoFar(run[s])'
    BY <1>1, <2>1 DEF SoFar, Staffing, Appointing, Platform, Closing
  <2>. QED  BY <2>1, <2>2, StepSoFar DEF AtWork
<1>. QED  BY <1>4, <1>5

LEMMA HallStepsWhole ==
  ASSUME SeedColumns, RunsInv, OneAtATime, NEW s \in Runs, HallSteps(s)
  PROVE  RunsInv'
<1>1. /\ UNCHANGED <<rows, users>> /\ run[s].pc \in {"building", "newbuilding"}
      /\ Go(s, "done") \/ Go(s, "newbuilding")
  BY DEF HallSteps, FindBuilding, CreateBuilding
<1>2. /\ run' \in [Runs -> SeedRun] /\ run'[s].pc \in {"done", "newbuilding"}
      /\ run'[s].kept = run[s].kept /\ run'[s].org = run[s].org
      /\ \A q \in Runs \ {s} : run'[q] = run[q]
  BY <1>1, RunGoes DEF SeedPc
<1>3. SoFar(run[s])'
  BY <1>1, <1>2, KeysStay DEF RunsInv, SoFar, Staffing, Appointing, Platform, Closing
<1>. QED  BY <1>1, <1>2, <1>3, StepSoFar DEF AtWork

(* A run begins or fails.                                                    *)
LEMMA EndingWhole ==
  ASSUME SeedColumns, RunsInv, NEW s \in Runs, Start(s) \/ Fail(s)
  PROVE  RunsInv'
<1>1. UNCHANGED <<rows, users>> /\ (Go(s, "permissions") \/ Go(s, "failed"))
  BY DEF Start, Fail
<1>2. run'[s].pc \in {"permissions", "failed"} /\ \A q \in Runs \ {s} : run'[q] = run[q]
  BY <1>1, RunGoes DEF SeedPc
<1>3. SoFar(run[s])'
  BY <1>2 DEF SoFar, Staffing, Appointing, Platform, Closing
<1>4. ASSUME NEW q \in Runs \ {s}
      PROVE  SoFar(run[q])'
  BY <1>1, <1>2, KeysStay DEF RunsInv, SoFar
<1>. QED  BY <1>3, <1>4 DEF RunsInv

(* The program in use disturbs whoever is at work.                           *)
LEMMA DisturbedWhole ==
  ASSUME SeedColumns, Disturb
  PROVE  RunsInv'
<1>1. ASSUME NEW q \in Runs
      PROVE  SoFar(run[q])'
  <2>1. run'[q].pc \in {"idle", "done", "failed"} \/ ~run'[q].kept
    BY RunsDisturbed DEF AtWork
  <2>. QED  BY <2>1 DEF SoFar, Staffing, Appointing, Platform, Closing
<1>. QED  BY <1>1 DEF RunsInv

LEMMA WholeNext ==
  ASSUME SeedColumns, RunsInv, OneAtATime, [SeedNext]_seedVars
  PROVE  RunsInv'
<1>1. ASSUME NEW l, Revoke(l)
      PROVE  RunsInv'
  BY <1>1, DisturbedWhole DEF Revoke
<1>2. ASSUME NEW o, Rename(o)
      PROVE  RunsInv'
  BY <1>2, DisturbedWhole DEF Rename
<1>3. ASSUME NEW a \in DOMAIN users, ChangePassword(a)
      PROVE  RunsInv'
  <2>1. UNCHANGED <<rows, run>> /\ users' = [users EXCEPT ![a].password = "own"]
    BY <1>3 DEF ChangePassword
  <2>2. \A b \in DOMAIN users : users[b] \in SeedAccount /\ users = [c \in DOMAIN users |-> users[c]]
    BY DEF SeedColumns
  <2>3. DOMAIN users' = DOMAIN users /\ \A b \in DOMAIN users : users'[b].org = users[b].org
    BY <2>1, <2>2 DEF SeedAccount
  <2>. QED  BY <2>1, <2>3, KeysStay DEF RunsInv, SoFar
<1>4. CASE UNCHANGED seedVars
  BY <1>4, KeysStay DEF seedVars, RunsInv, SoFar
<1>5. CASE SeedNext
  BY <1>1, <1>2, <1>3, <1>5, EndingWhole, UpsertWhole, LinksWhole, OrgStepsWhole,
     AccountWhole,
     RoleWhole, HallStepsWhole
     DEF SeedNext, Statement, OrgSteps, HallSteps, SeedOrgAdmin, SeedPlatformSuperadmin
<1>. QED  BY <1>4, <1>5

LEMMA DoneByHalls ==
  ASSUME SeedColumns, [SeedNext]_seedVars, NEW s \in Runs, run[s].pc # "done",
         run'[s].pc = "done"
  PROVE  HallSteps(s)
<1>1. ASSUME NEW q \in Runs, Start(q) \/ Fail(q) \/ RowSteps(q)
      PROVE  FALSE
  BY <1>1, RowStepsGo, RunGoes
<1>2. ASSUME NEW q \in Runs, OrgSteps(q)
      PROVE  FALSE
  <2>1. \A o : run' = [run EXCEPT ![q].pc = "unittypes", ![q].org = o] => run'[s].pc # "done"
    BY DEF SeedColumns, SeedRun
  <2>2. Go(q, "neworg") => run'[s].pc # "done"
    BY DEF SeedColumns, SeedRun, Go
  <2>. QED  BY <1>2, <2>1, <2>2 DEF OrgSteps, FindOrg, CreateOrg
<1>3. ASSUME NEW q \in Runs \ {s}, HallSteps(q)
      PROVE  FALSE
  <2>1. Go(q, "done") \/ Go(q, "newbuilding")
    BY <1>3 DEF HallSteps, FindBuilding, CreateBuilding
  <2>. QED  BY <2>1, RunGoes DEF SeedPc
<1>4. ~Disturb
  BY RunsDisturbed
<1>5. run' # run
  OBVIOUS
<1>. QED  BY <1>1, <1>2, <1>3, <1>4, <1>5
          DEF SeedNext, seedVars, Statement, RowSteps, OrgSteps, HallSteps, Revoke, Rename, ChangePassword

LEMMA DoneThenWhole ==
  ASSUME SeedColumns, RunsInv, [SeedNext]_seedVars, NEW s \in Runs,
         run[s].pc # "done", run'[s].pc = "done", run'[s].kept
  PROVE  Whole(run[s].org)'
<1>1. HallSteps(s)
  BY DoneByHalls
<1>2. /\ UNCHANGED <<rows, users>> /\ run[s].pc \in Closing /\ Go(s, "done")
      /\ \E h \in halls' : h[1] = run[s].org
  <2>1. CASE FindBuilding(s)
    <3>1. UNCHANGED <<rows, users, halls>> /\ run[s].pc = "building"
      BY <2>1 DEF FindBuilding
    <3>2. ~Go(s, "newbuilding")
      BY RunGoes DEF SeedPc
    <3>3. InOrg(run[s].org) # {} /\ Go(s, "done")
      BY <2>1, <3>2 DEF FindBuilding
    <3>. QED  BY <3>1, <3>3 DEF InOrg, Closing
  <2>2. CASE CreateBuilding(s)
    <3>1. <<run[s].org, s>> \in halls'
      BY <2>2 DEF CreateBuilding
    <3>. QED  BY <2>2, <3>1 DEF CreateBuilding, Closing
  <2>. QED  BY <1>1, <2>1, <2>2 DEF HallSteps
<1>3. run'[s].org = run[s].org /\ run[s].kept
  BY <1>2, RunGoes DEF SeedPc
<1>4. SoFar(run[s])
  BY DEF RunsInv
<1>5. InOrg(run[s].org)' # {}
  BY <1>2, <1>3 DEF InOrg
<1>. QED  BY <1>2, <1>3, <1>4, <1>5, KeysStay
             DEF Whole, SoFar, Staffing, Appointing, Platform, Links

(* A run that ends well without having been disturbed leaves everything of   *)
(* the seed there, in one organisation.                                      *)
EndsWhole ==
  \A s \in Runs : run[s].pc # "done" /\ run'[s].pc = "done" /\ run'[s].kept =>
    Whole(run[s].org)'

(* Runs one after the other mend what earlier ones left half done, wherever  *)
(* these failed and whatever was revoked, renamed or changed before.         *)
THEOREM SerialRunsEndWhole == SeedSpec /\ []OneAtATime => [][EndsWhole]_seedVars
<1>1. SeedInit => SeedColumns /\ RunsInv
  BY SeedTypeInit, WholeInit
<1>2. SeedColumns /\ RunsInv /\ OneAtATime /\ [SeedNext]_seedVars => SeedColumns' /\ RunsInv'
  BY SeedTypeNext, WholeNext
<1>3. SeedColumns /\ RunsInv /\ [SeedNext]_seedVars => [EndsWhole]_seedVars
  BY DoneThenWhole DEF EndsWhole
<1>. QED  BY <1>1, <1>2, <1>3, PTL DEF SeedSpec

(* So they do in the scenario of runs one after the other.                   *)
THEOREM ScenarioEndsWhole == MCSpec => DoneIsWhole
<1> DEFINE P == scenario = "serial"
           A == scenario = "serial" =>
                  \A s \in Runs : run[s].pc # "done" /\ run'[s].pc = "done" /\ run'[s].kept =>
                    Whole(run[s].org)'
<1>1. MCInit => SeedColumns /\ (P => RunsInv)
  BY SeedTypeInit, WholeInit DEF MCInit
<1>2. [MCNext]_mcvars => [SeedNext]_seedVars /\ (P' <=> P)
  BY DEF MCNext, mcvars
<1>3. SeedColumns /\ (P => RunsInv) /\ (P => OneAtATime) /\ [MCNext]_mcvars
        => SeedColumns' /\ (P => RunsInv)'
  BY <1>2, SeedTypeNext, WholeNext
<1>4. SeedColumns /\ (P => RunsInv) /\ [MCNext]_mcvars => [A]_mcvars
  BY <1>2, DoneThenWhole
<1>5. MCSpec => [](P => OneAtATime)
  BY SerialIsKept, PTL
<1> HIDE DEF P
<1>. QED  BY <1>1, <1>3, <1>4, <1>5, PTL DEF MCSpec, DoneIsWhole
=============================================================================
