-------------------------- MODULE ProvisioningProofs --------------------------
(***************************************************************************)
(* What holds of accounts for any addresses, organisations and requests,   *)
(* however many calls overlap.  The statements of a call are first put in  *)
(* a normal form (StepOf), which says what each does to its call and to    *)
(* the tables; every invariant is then kept form by form:                  *)
(*   AllLower   addresses of accounts are in lower case;                   *)
(*   Gathering  what a call has locked is what it has written so far;      *)
(*   NoReach    while only managers provision, what a call is to grant has *)
(*              been checked against buildings that were managed at first; *)
(*   AdminsInv  whoever lacks the role of an administrator is owed it by a *)
(*              call between its two statements;                           *)
(*   ScopedInv  a call that is to grant knows the account's organisation,  *)
(*              or has locked its row, or is alone.                        *)
(***************************************************************************)
EXTENDS MCProvisioning, TLAPS

USE ProvisioningAssumption

(* The transaction has its user, and inserts roles and assignments.          *)
Granting == {"linked", "granting", "granted"}

Points == InFlight \cup {"new", "done", "refused", "failed"}

RoleKeys == {RoleKey(e, k) : e \in Emails,
                             k \in {"admin", "org_admin"} \cup UNION {r.roles : r \in Requests}}

Keys == {UserKey(e) : e \in Emails} \cup {GrantKey(e, g) : e \in Emails, g \in Grants}
          \cup RoleKeys

(* Nobody else holds the lock. *)
Free(h, key) == \A g \in Calls \ {h} : key \notin call[g].locks

Begun ==
  [req : Requests, target : Emails, write : BOOLEAN, link : BOOLEAN, done : Nat,
   locks : SUBSET Keys]

(* Which call may be where                                                   *)
CallOK(h) ==
  /\ pc[h] # "new" => call[h] \in Begun
  /\ pc[h] = "new" => call[h].locks = {}
  /\ pc[h] \in {"begun", "checked", "unlinked"} => call[h].req.op = "provision"
  /\ pc[h] = "absent" => call[h].req.op # "assign"
  /\ pc[h] \in {"begun", "checked", "unlinked", "absent"} => call[h].done = 0 /\ ~call[h].link
  /\ pc[h] \in Granting => /\ call[h].req.op \in {"provision", "create"}
                            /\ call[h].done <= Len(call[h].req.grants)
  /\ pc[h] = "linked" => call[h].done = 0
  /\ pc[h] = "granted" => call[h].done = Len(call[h].req.grants)
  /\ pc[h] = "assigning" => call[h].req.op = "assign"
  /\ pc[h] = "half" => InTwoSteps(call[h].req)

TypeInv ==
  /\ org \in [Emails -> Orgs \cup {NoOrg, NoAccount}]
  /\ roles = [e \in Emails |-> roles[e]]
  /\ assigned \in [Emails -> SUBSET Grants]
  /\ writers \subseteq Emails
  /\ first \in FirstTables
  /\ pc \in [Calls -> Points]
  /\ call = [h \in Calls |-> call[h]]
  /\ \A h \in Calls : CallOK(h)

-----------------------------------------------------------------------------
(* Steps of one call *)

LEMMA RequestIs ==
  ASSUME NEW r \in Requests
  PROVE  /\ r.op \in {"provision", "create", "org_admin", "assign"} /\ r.actor \in Emails
         /\ r.org \in Orgs /\ r.email \in Emails /\ r.roles \in SUBSET STRING
         /\ r.grants \in Seq(Grants) /\ r.resident \subseteq Buildings
         /\ r.sameOrg \in BOOLEAN /\ r.link \in BOOLEAN
         /\ Len(r.grants) \in Nat
         /\ \A i \in 1 .. Len(r.grants) : r.grants[i] \in Grants
         /\ GrantsOf(r) = {r.grants[i] : i \in 1 .. Len(r.grants)}
         /\ GrantsOf(r) \subseteq Grants
         /\ r.op = "assign" => Len(r.grants) >= 1
<1>1. r \in Sendable /\ (r.op = "assign" => r.grants # <<>>)
  OBVIOUS
<1>2. r.grants \in Seq(Grants)
  BY <1>1 DEF Sendable
<1>3. /\ Len(r.grants) \in Nat /\ DOMAIN r.grants = 1 .. Len(r.grants)
      /\ \A i \in 1 .. Len(r.grants) : r.grants[i] \in Grants
  BY <1>2
<1>4. r.op = "assign" => Len(r.grants) >= 1
  BY <1>1, <1>2
<1>5. GrantsOf(r) = {r.grants[i] : i \in 1 .. Len(r.grants)} /\ GrantsOf(r) \subseteq Grants
  BY <1>3 DEF GrantsOf
<1>. QED  BY <1>1, <1>2, <1>3, <1>4, <1>5 DEF Sendable

LEMMA GoesIs ==
  ASSUME TypeInv, NEW h \in Calls, NEW next \in Points, NEW c, Goes(h, next, c)
  PROVE  /\ pc'[h] = next /\ call'[h] = c /\ first' = first
         /\ \A g \in Calls \ {h} : pc'[g] = pc[g] /\ call'[g] = call[g]
         /\ pc' \in [Calls -> Points] /\ call' = [g \in Calls |-> call'[g]]
BY DEF TypeInv, Goes

LEMMA EndsIs ==
  ASSUME TypeInv, NEW h \in Calls, NEW next \in {"done", "refused", "failed"},
         Ends(h, next), pc[h] # "new"
  PROVE  /\ Goes(h, next, call'[h]) /\ pc'[h] = next
         /\ call'[h] \in Begun /\ call'[h].locks = {}
         /\ call'[h].req = call[h].req /\ call'[h].target = call[h].target
<1> DEFINE c == [call[h] EXCEPT !.locks = {}]
<1>1. call[h] \in Begun /\ next \in Points
  BY DEF TypeInv, CallOK, Points
<1>2. c \in Begun /\ c.locks = {} /\ c.req = call[h].req /\ c.target = call[h].target
  BY <1>1 DEF Begun
<1>3. Goes(h, next, c)
  BY DEF Ends
<1> HIDE DEF c
<1>. QED  BY <1>1, <1>2, <1>3, GoesIs

LEMMA StartedIs ==
  ASSUME NEW r \in Requests, NEW e \in Emails, NEW write \in BOOLEAN
  PROVE  /\ Started(r, e, write) \in Begun
         /\ Started(r, e, write).req = r /\ Started(r, e, write).target = e
         /\ Started(r, e, write).write = write
         /\ Started(r, e, write).locks = {} /\ Started(r, e, write).done = 0
         /\ Started(r, e, write).link = FALSE
BY DEF Started, Begun

(* Who writes which table *)
LEMMA OthersStay ==
  ASSUME TypeInv, NEW h \in Calls, CallOK(h)',
         pc' \in [Calls -> Points], call' = [g \in Calls |-> call'[g]],
         \A g \in Calls \ {h} : pc'[g] = pc[g] /\ call'[g] = call[g],
         first' = first,
         org' \in [Emails -> Orgs \cup {NoOrg, NoAccount}],
         roles' = [e \in Emails |-> roles'[e]], assigned' \in [Emails -> SUBSET Grants],
         writers' = writers
  PROVE  TypeInv'
BY DEF TypeInv, CallOK

LEMMA TablesStay ==
  ASSUME TypeInv, NEW h \in Calls, NEW next \in Points, NEW c \in Begun, Goes(h, next, c),
         UNCHANGED tables,
         next # "new",
         next \in {"begun", "checked", "unlinked"} => c.req.op = "provision",
         next = "absent" => c.req.op # "assign",
         next \in {"begun", "checked", "unlinked", "absent"} => c.done = 0 /\ ~c.link,
         next \in Granting => c.req.op \in {"provision", "create"} /\ c.done <= Len(c.req.grants),
         next = "linked" => c.done = 0,
         next = "granted" => c.done = Len(c.req.grants),
         next = "assigning" => c.req.op = "assign",
         next = "half" => InTwoSteps(c.req)
  PROVE  TypeInv'
<1>1. /\ pc'[h] = next /\ call'[h] = c /\ first' = first
      /\ \A g \in Calls \ {h} : pc'[g] = pc[g] /\ call'[g] = call[g]
      /\ pc' \in [Calls -> Points] /\ call' = [g \in Calls |-> call'[g]]
  BY GoesIs
<1>2. CallOK(h)'
  BY <1>1 DEF CallOK
<1>. QED  BY <1>1, <1>2, OthersStay DEF tables, TypeInv

(* A statement that does not wait finds what it writes free. *)
LEMMA UnblockedIsFree ==
  ASSUME NEW h \in Calls, ~Blocked(h), NEW key \in Needs(h)
  PROVE  Free(h, key)
BY DEF Blocked, Waits, Free

(* What a statement needs, by where its call is *)
LEMMA NeedsIs ==
  ASSUME NEW h \in Calls
  PROVE  /\ pc[h] \in {"absent", "unlinked"} => Needs(h) = {UserKey(call[h].target)}
         /\ pc[h] = "linked" =>
              Needs(h) = {RoleKey(call[h].target, k) :
                            k \in call[h].req.roles \ roles[call[h].target]}
         /\ pc[h] = "granting" /\ call[h].done < Len(call[h].req.grants) =>
              Needs(h) = {GrantKey(call[h].target, call[h].req.grants[call[h].done + 1])}
         /\ pc[h] = "granting" /\ call[h].done = Len(call[h].req.grants)
              /\ ~(call[h].done < Len(call[h].req.grants)) =>
              Needs(h) = {RoleKey(call[h].target, k) :
                            k \in AdminRole(GrantsOf(call[h].req)) \ roles[call[h].target]}
         /\ pc[h] \notin {"absent", "unlinked", "linked", "granting", "assigning", "half"} =>
              Needs(h) = {}
BY DEF Needs

LEMMA NeededIsKey ==
  ASSUME NEW h \in Calls, call[h] \in Begun, pc[h] \in {"linked", "granting"}
  PROVE  Needs(h) \subseteq Keys
<1> DEFINE c == call[h]
           e == call[h].target
<1>1. c.req \in Requests /\ e \in Emails /\ c.done \in Nat
  BY DEF Begun
<1>2. \A k \in c.req.roles \cup AdminRole(GrantsOf(c.req)) : RoleKey(e, k) \in Keys
  BY <1>1 DEF RoleKeys, Keys, AdminRole
<1>3. CASE pc[h] = "granting" /\ c.done < Len(c.req.grants)
  <2>1. c.req.grants[c.done + 1] \in Grants
    BY <1>1, <1>3, RequestIs
  <2>. QED  BY <1>1, <1>3, <2>1, NeedsIs DEF Keys
<1>4. CASE pc[h] = "linked" \/ ~(c.done < Len(c.req.grants))
  <2>1. pc[h] = "granting" /\ c.done # Len(c.req.grants) => Needs(h) = {}
    BY <1>4 DEF Needs
  <2>. QED  BY <1>2, <1>4, <2>1, NeedsIs
<1>. QED  BY <1>3, <1>4

LEMMA WaitingIsInFlight ==
  ASSUME NEW h \in Calls, NEW g \in Calls, Waits(h, g)
  PROVE  pc[h] \in {"absent", "unlinked", "linked", "granting", "assigning", "half"}
BY NeedsIs DEF Waits

-----------------------------------------------------------------------------
(* Types *)

LEMMA TypeInit == Init => TypeInv
<1>1. ASSUME Init, NEW h \in Calls
      PROVE  pc[h] = "new" /\ call[h].locks = {}
  BY <1>1 DEF Init
<1>2. ASSUME Init
      PROVE  \A h \in Calls : CallOK(h)
  BY <1>1, <1>2 DEF CallOK, Granting
<1>3. ASSUME Init
      PROVE  first \in FirstTables /\ roles = [e \in Emails |-> roles[e]]
             /\ pc \in [Calls -> Points] /\ call = [h \in Calls |-> call[h]]
  BY <1>3 DEF Init, Points
<1>. QED  BY <1>2, <1>3 DEF Init, TypeInv

LEMMA TypeBegin ==
  ASSUME TypeInv, NEW h \in Calls, NEW r \in Requests,
         CallProvision(h, r) \/ CallCreate(h, r) \/ CallAssign(h, r)
  PROVE  TypeInv'
<1>1. r.email \in Emails /\ Lower[r.email] \in Emails
  BY RequestIs
<1>2. CASE CallProvision(h, r)
  <2> DEFINE c == Started(r, Lower[r.email], HasUsersWrite(r.actor))
  <2>1. Goes(h, "begun", c) /\ UNCHANGED tables /\ r.op = "provision"
    BY <1>2 DEF CallProvision, Begin, NormalizeEmail
  <2>2. HasUsersWrite(r.actor) \in BOOLEAN
    BY DEF HasUsersWrite
  <2>3. c \in Begun /\ c.req = r /\ c.done = 0 /\ ~c.link
    BY <1>1, <2>2 DEF Started, Begun
  <2> HIDE DEF c
  <2>4. "begun" \in Points
    BY DEF Points, InFlight
  <2>. QED  BY <2>1, <2>3, <2>4, TablesStay
<1>3. CASE CallCreate(h, r)
  <2> DEFINE c == Started(r, r.email, TRUE)
             next == IF Exists(r.email) THEN "refused" ELSE "absent"
  <2>1. Goes(h, next, c) /\ UNCHANGED tables /\ r.op \in {"create", "org_admin"}
    BY <1>3 DEF CallCreate, Begin
  <2>2. c \in Begun /\ c.req = r /\ c.done = 0 /\ ~c.link
    BY <1>1 DEF Started, Begun
  <2>3. next \in {"refused", "absent"} /\ next \in Points
    BY DEF Points, InFlight
  <2> HIDE DEF c, next
  <2>. QED  BY <2>1, <2>2, <2>3, TablesStay DEF Granting
<1>4. CASE CallAssign(h, r)
  <2> DEFINE c == Started(r, r.email, TRUE)
  <2>1. Goes(h, "assigning", c) /\ UNCHANGED tables /\ r.op = "assign"
    BY <1>4 DEF CallAssign, Begin
  <2>2. c \in Begun /\ c.req = r /\ c.done = 0 /\ ~c.link
    BY <1>1 DEF Started, Begun
  <2> HIDE DEF c
  <2>3. "assigning" \in Points
    BY DEF Points, InFlight
  <2>. QED  BY <2>1, <2>2, <2>3, TablesStay DEF Granting
<1>. QED  BY <1>2, <1>3, <1>4

LEMMA TypeEnds ==
  ASSUME TypeInv, NEW h \in Calls, NEW next \in {"done", "refused", "failed"},
         pc[h] # "new", Ends(h, next), UNCHANGED tables
  PROVE  TypeInv'
<1>1. Goes(h, next, call'[h]) /\ call'[h] \in Begun /\ next \in Points
  BY EndsIs DEF Points
<1>. QED  BY <1>1, TablesStay DEF Granting

(* The steps before the grants                                               *)
LEMMA TypeTarget ==
  ASSUME TypeInv, NEW h \in Calls,
         AssertManagerProvisioningAllowed(h) \/ FindTarget(h) \/ LinkUser(h) \/ CreateUser(h)
  PROVE  TypeInv'
<1> DEFINE c == call[h]
<1>1. /\ pc[h] \in {"begun", "checked", "unlinked", "absent"} /\ c \in Begun /\ c.req \in Requests
      /\ "checked" \in Points /\ "absent" \in Points /\ "unlinked" \in Points /\ "linked" \in Points
      /\ pc[h] # "absent" => c.req.op = "provision"
      /\ pc[h] = "absent" => c.req.op # "assign"
      /\ c.done = 0 /\ ~c.link /\ Len(c.req.grants) \in Nat
  <2>1. CallOK(h) /\ pc[h] \in {"begun", "checked", "unlinked", "absent"}
    BY DEF TypeInv, AssertManagerProvisioningAllowed, FindTarget, LinkUser, CreateUser
  <2>2. c \in Begun /\ c.req \in Requests
    BY <2>1 DEF CallOK, Begun
  <2>. QED  BY <2>1, <2>2, RequestIs DEF CallOK, Points, InFlight
<1>2. CASE AssertManagerProvisioningAllowed(h)
  <2>1. CASE Goes(h, "checked", c) /\ UNCHANGED tables /\ pc[h] = "begun"
    BY <1>1, <2>1, TablesStay
  <2>2. CASE Refuse(h)
    BY <1>1, <2>2, TypeEnds DEF Refuse
  <2>. QED  BY <1>2, <2>1, <2>2 DEF AssertManagerProvisioningAllowed
<1>3. CASE FindTarget(h)
  <2>1. pc[h] = "checked" /\ UNCHANGED tables
    BY <1>3 DEF FindTarget
  <2>2. CASE Goes(h, "absent", c)
    BY <1>1, <2>1, <2>2, TablesStay
  <2>3. CASE Ends(h, "refused")
    BY <1>1, <2>1, <2>3, TypeEnds
  <2>4. ASSUME NEW e \in Emails, NEW next \in {"linked", "unlinked"},
               Goes(h, next, [c EXCEPT !.target = e])
        PROVE  TypeInv'
    <3> DEFINE d == [c EXCEPT !.target = e]
    <3>1. d \in Begun /\ d.req = c.req /\ d.done = 0 /\ ~d.link
      BY <1>1 DEF Begun
    <3>2. Goes(h, next, d)
      BY <2>4
    <3> HIDE DEF d
    <3>. QED  BY <1>1, <2>1, <3>1, <3>2, TablesStay DEF Granting
  <2>. QED  BY <1>3, <2>2, <2>3, <2>4 DEF FindTarget
<1>4. ASSUME Goes(h, "linked", [c EXCEPT !.link = TRUE, !.locks = @ \cup {UserKey(c.target)}]),
             UNCHANGED tables, c.req.op \in {"provision", "create"}
      PROVE  TypeInv'
  <2> DEFINE d == [c EXCEPT !.link = TRUE, !.locks = @ \cup {UserKey(c.target)}]
  <2>1. UserKey(c.target) \in Keys
    BY <1>1 DEF Begun, Keys
  <2>2. d \in Begun /\ d.req = c.req /\ d.done = 0
    BY <1>1, <2>1 DEF Begun
  <2>3. Goes(h, "linked", d)
    BY <1>4
  <2> HIDE DEF d
  <2>. QED  BY <1>1, <1>4, <2>2, <2>3, TablesStay DEF Granting
<1>5. CASE LinkUser(h)
  BY <1>1, <1>4, <1>5 DEF LinkUser
<1>6. CASE CreateUser(h)
  <2>1. CASE Refuse(h)
    BY <1>1, <2>1, TypeEnds DEF Refuse
  <2>2. pc[h] = "absent" /\ c.req.op \in {"provision", "create"}
    BY <1>1, <1>6, RequestIs DEF CreateUser
  <2>. QED  BY <1>4, <1>6, <2>1, <2>2 DEF CreateUser
<1>. QED  BY <1>2, <1>3, <1>5, <1>6

(* The steps that grant                                                      *)
LEMMA TypeGrant ==
  ASSUME TypeInv, NEW h \in Calls,
         \/ CreateOrgAdmin(h) \/ ApplyOrgRoles(h) \/ UpsertAssignment(h) \/ EnsureAdminRole(h)
         \/ Commit(h) \/ CreateAssignment(h) \/ GrantRole(h)
  PROVE  TypeInv'
<1> DEFINE c == call[h]
<1>1. /\ pc[h] \in Granting \cup {"absent", "assigning", "half"} /\ c \in Begun
      /\ c.req \in Requests /\ {"granting", "granted", "half", "done"} \subseteq Points
      /\ pc[h] # "new" /\ CallOK(h)
  <2>1. CallOK(h) /\ pc[h] \in Granting \cup {"absent", "assigning", "half"} /\ pc[h] # "new"
    BY DEF TypeInv, CreateOrgAdmin, ApplyOrgRoles, UpsertAssignment, EnsureAdminRole, Commit,
           CreateAssignment, GrantRole, Granting
  <2>. QED  BY <2>1 DEF CallOK, Begun, Points, InFlight
<1>2. CASE CreateOrgAdmin(h)
  <2>1. CASE Refuse(h)
    BY <1>1, <2>1, TypeEnds DEF Refuse
  <2>2. CASE Goes(h, "half", c) /\ c.req.op = "org_admin" /\ org' = [org EXCEPT ![c.target] = c.req.org]
             /\ UNCHANGED <<roles, assigned, writers>>
    <3>1. CallOK(h)'
      BY <1>1, <2>2, GoesIs DEF CallOK, Granting, InTwoSteps
    <3>2. org' \in [Emails -> Orgs \cup {NoOrg, NoAccount}]
      BY <1>1, <2>2, RequestIs DEF TypeInv
    <3>. QED  BY <1>1, <2>2, <3>1, <3>2, GoesIs, OthersStay DEF TypeInv
  <2>. QED  BY <1>2, <2>1, <2>2 DEF CreateOrgAdmin
<1>3. CASE UpsertAssignment(h)
  <2> DEFINE g == c.req.grants[c.done + 1]
             d == [c EXCEPT !.done = @ + 1, !.locks = @ \cup {GrantKey(c.target, g)}]
  <2>1. pc[h] = "granting" /\ c.done < Len(c.req.grants) /\ c.done \in Nat /\ c.target \in Emails
    BY <1>1, <1>3 DEF UpsertAssignment, Begun
  <2>2. CASE Refuse(h)
    BY <1>1, <2>1, <2>2, TypeEnds DEF Refuse
  <2>3. CASE Goes(h, "granting", d) /\ UNCHANGED tables
    <3>1. g \in Grants /\ Len(c.req.grants) \in Nat
      BY <1>1, <2>1, RequestIs
    <3>2. GrantKey(c.target, g) \in Keys
      BY <2>1, <3>1 DEF Keys
    <3>3. d \in Begun /\ d.req = c.req /\ d.done = c.done + 1
      <4> DEFINE k == c.locks \cup {GrantKey(c.target, g)}
                 n == c.done + 1
      <4>1. k \in SUBSET Keys /\ n \in Nat /\ d = [c EXCEPT !.done = n, !.locks = k]
        BY <1>1, <2>1, <3>2 DEF Begun
      <4> HIDE DEF k, n, d
      <4>2. d \in Begun /\ d.req = c.req /\ d.done = n
        BY <1>1, <4>1 DEF Begun
      <4>. QED  BY <4>2 DEF n
    <3>4. d.done <= Len(c.req.grants) /\ c.req.op \in {"provision", "create"}
      BY <1>1, <2>1, <3>1, <3>3 DEF CallOK, Granting
    <3> HIDE DEF d
    <3>. QED  BY <1>1, <2>3, <3>3, <3>4, TablesStay DEF Granting
  <2>. QED  BY <1>3, <2>2, <2>3 DEF UpsertAssignment
<1>4. CASE Commit(h)
  <2>1. /\ Ends(h, "done") /\ writers' = writers
        /\ org' = IF c.link THEN [org EXCEPT ![c.target] = c.req.org] ELSE org
        /\ roles' = [roles EXCEPT ![c.target] = @ \cup c.req.roles \cup AdminRole(GrantsOf(c.req))]
        /\ assigned' = [assigned EXCEPT ![c.target] = @ \cup GrantsOf(c.req)]
    BY <1>4 DEF Commit
  <2>3. /\ org' \in [Emails -> Orgs \cup {NoOrg, NoAccount}]
        /\ roles' = [e \in Emails |-> roles'[e]] /\ assigned' \in [Emails -> SUBSET Grants]
    BY <1>1, <2>1, RequestIs DEF TypeInv, Begun
  <2>4. Goes(h, "done", call'[h]) /\ call'[h] \in Begun /\ pc'[h] = "done"
    BY <1>1, <2>1, EndsIs
  <2>5. CallOK(h)'
    BY <2>4 DEF CallOK, Granting
  <2>. QED  BY <1>1, <2>1, <2>3, <2>4, <2>5, GoesIs, OthersStay
<1>5. CASE CreateAssignment(h)
  <2> DEFINE g == c.req.grants[1]
             next == IF g[2] = "BUILDING_ADMIN" THEN "half" ELSE "done"
  <2>1. CASE Refuse(h)
    BY <1>1, <2>1, TypeEnds DEF Refuse
  <2>2. CASE Goes(h, next, c) /\ assigned' = [assigned EXCEPT ![c.target] = @ \cup {g}]
             /\ UNCHANGED <<org, roles, writers>>
    <3>1. pc[h] = "assigning" /\ c.req.op = "assign"
      BY <1>1, <1>5 DEF CreateAssignment, CallOK
    <3>2. g \in Grants /\ next \in {"half", "done"} /\ next \in Points
      BY <1>1, <3>1, RequestIs
    <3>3. next = "half" => InTwoSteps(c.req)
      BY <3>1 DEF InTwoSteps
    <3> HIDE DEF next, g
    <3>4. CallOK(h)'
      BY <1>1, <2>2, <3>2, <3>3, GoesIs DEF CallOK, Granting
    <3>5. assigned' \in [Emails -> SUBSET Grants]
      BY <2>2, <3>2 DEF TypeInv
    <3>. QED  BY <2>2, <3>2, <3>4, <3>5, GoesIs, OthersStay DEF TypeInv
  <2>. QED  BY <1>5, <2>1, <2>2 DEF CreateAssignment
<1>6. CASE GrantRole(h)
  <2>1. Goes(h, "done", call'[h]) /\ call'[h] \in Begun /\ pc'[h] = "done"
    BY <1>1, <1>6, EndsIs DEF GrantRole
  <2>2. CallOK(h)'
    BY <2>1 DEF CallOK, Granting
  <2>3. roles' = [e \in Emails |-> roles'[e]]
    BY <1>6 DEF GrantRole, TypeInv
  <2>. QED  BY <1>1, <1>6, <2>1, <2>2, <2>3, GoesIs, OthersStay DEF GrantRole, TypeInv
<1>7. ASSUME NEW next \in {"granting", "granted"}, pc[h] \in {"linked", "granting"},
             Goes(h, next, [c EXCEPT !.locks = @ \cup Needs(h)]), UNCHANGED tables,
             next = "granted" => c.done = Len(c.req.grants)
      PROVE  TypeInv'
  <2> DEFINE k == c.locks \cup Needs(h)
             d == [c EXCEPT !.locks = k]
  <2>1. k \in SUBSET Keys
    BY <1>1, <1>7, NeededIsKey DEF Begun
  <2>2. Goes(h, next, d)
    BY <1>7
  <2> HIDE DEF k
  <2>3. d \in Begun /\ d.req = c.req /\ d.done = c.done
    BY <1>1, <2>1 DEF Begun
  <2>4. c.req.op \in {"provision", "create"} /\ c.done <= Len(c.req.grants)
    BY <1>1, <1>7 DEF CallOK, Granting
  <2> HIDE DEF d
  <2>. QED  BY <1>1, <1>7, <2>2, <2>3, <2>4, TablesStay DEF Granting
<1>8. CASE ApplyOrgRoles(h) \/ EnsureAdminRole(h)
  BY <1>7, <1>8 DEF ApplyOrgRoles, EnsureAdminRole
<1>. QED  BY <1>2, <1>3, <1>4, <1>5, <1>6, <1>8

LEMMA TypeNext == TypeInv /\ [Next]_vars => TypeInv'
<1> SUFFICES ASSUME TypeInv, [Next]_vars
             PROVE  TypeInv'
  OBVIOUS
<1>1. ASSUME NEW h \in Calls, Fail(h) \/ AbortDeadlock(h)
      PROVE  TypeInv'
  <2>1. Ends(h, "failed") /\ UNCHANGED tables /\ pc[h] # "new"
    BY <1>1, WaitingIsInFlight DEF Fail, AbortDeadlock, InFlight
  <2>. QED  BY <2>1, TypeEnds
<1>2. ASSUME NEW h \in Calls, Statement(h)
      PROVE  TypeInv'
  BY <1>1, <1>2, TypeTarget, TypeGrant DEF Statement
<1>3. ASSUME NEW e \in Emails, RegisterAccount(e) \/ RevokeUsersWrite(e)
      PROVE  TypeInv'
  BY <1>3 DEF RegisterAccount, RevokeUsersWrite, TypeInv, CallOK
<1>4. CASE UNCHANGED vars
  BY <1>4 DEF vars, tables, TypeInv, CallOK
<1>. QED  BY <1>1, <1>2, <1>3, <1>4, TypeBegin DEF Next

(* The rows and the calls keep their types.                                  *)
THEOREM ProvisioningTypes == Spec => []TypeInv
BY TypeInit, TypeNext, PTL DEF Spec

-----------------------------------------------------------------------------
(* Steps, by what they do to the call and to the tables *)

(* The step is one of h, and changes nothing but its call and the tables.    *)
Moves(h) ==
  /\ first' = first /\ writers' = writers
  /\ \A g \in Calls \ {h} : pc'[g] = pc[g] /\ call'[g] = call[g]

Still == org' = org /\ roles' = roles /\ assigned' = assigned

Same(h) ==
  /\ call'[h].req = call[h].req /\ call'[h].target = call[h].target
  /\ call'[h].write = call[h].write

Starts(h, r) ==
  /\ Moves(h) /\ Still /\ pc[h] = "new"
  /\ call'[h].req = r /\ call'[h].locks = {}
  /\ \/ /\ r.op = "provision" /\ pc'[h] = "begun" /\ call'[h].target = Lower[r.email]
        /\ call'[h].write = HasUsersWrite(r.actor)
     \/ /\ r.op \in {"create", "org_admin"} /\ pc'[h] \in {"refused", "absent"}
        /\ call'[h].target = r.email
     \/ /\ r.op = "assign" /\ pc'[h] = "assigning" /\ call'[h].target = r.email
        /\ org[r.email] = r.org /\ BuildingOrg[r.grants[1][1]] = r.org

Stops(h) ==
  /\ Moves(h) /\ Still /\ Same(h) /\ pc[h] \in InFlight
  /\ pc'[h] \in {"refused", "failed"} /\ call'[h].locks = {}
  /\ pc[h] = "half" => pc'[h] = "failed"

Checks(h) ==
  /\ Moves(h) /\ Still /\ pc[h] = "begun" /\ pc'[h] = "checked" /\ call'[h] = call[h]
  /\ call[h].write \/ ManagerMay(call[h].req)

Misses(h) ==
  Moves(h) /\ Still /\ pc[h] = "checked" /\ pc'[h] = "absent" /\ call'[h] = call[h]

Finds(h, e) ==
  /\ Moves(h) /\ Still /\ pc[h] = "checked" /\ Exists(e)
  /\ call'[h].req = call[h].req /\ call'[h].target = e /\ call'[h].locks = call[h].locks
  /\ call'[h].write = call[h].write /\ call'[h].done = 0 /\ ~call'[h].link
  /\ \/ pc'[h] = "linked" /\ org[e] = call[h].req.org
     \/ pc'[h] = "unlinked" /\ MayLink(e, call[h].req)

Reserves(h) ==
  /\ Moves(h) /\ Still /\ Same(h) /\ pc'[h] = "linked" /\ Free(h, UserKey(call[h].target))
  /\ \/ pc[h] = "unlinked"
     \/ pc[h] = "absent" /\ ~Exists(call[h].target)
  /\ call'[h].link /\ call'[h].done = 0
  /\ call'[h].locks = call[h].locks \cup {UserKey(call[h].target)}

Opens(h) ==
  /\ Moves(h) /\ pc[h] = "absent" /\ pc'[h] = "half" /\ call'[h] = call[h]
  /\ call[h].req.op = "org_admin"
  /\ ~Exists(call[h].target) /\ Free(h, UserKey(call[h].target))
  /\ org' = [org EXCEPT ![call[h].target] = call[h].req.org]
  /\ roles' = roles /\ assigned' = assigned

Upserts(h) ==
  LET g == call[h].req.grants[call[h].done + 1] IN
  /\ Moves(h) /\ Still /\ Same(h) /\ pc[h] = "granting" /\ pc'[h] = "granting"
  /\ call[h].done < Len(call[h].req.grants) /\ BuildingOrg[g[1]] = call[h].req.org
  /\ Free(h, GrantKey(call[h].target, g))
  /\ call'[h].done = call[h].done + 1 /\ (call'[h].link <=> call[h].link)
  /\ call'[h].locks = call[h].locks \cup {GrantKey(call[h].target, g)}

Locks(h) ==
  /\ Moves(h) /\ Still /\ Same(h) /\ \A key \in Needs(h) : Free(h, key)
  /\ \/ pc[h] = "linked" /\ pc'[h] = "granting"
     \/ pc[h] = "granting" /\ pc'[h] = "granted" /\ call[h].done = Len(call[h].req.grants)
  /\ call'[h].done = call[h].done /\ (call'[h].link <=> call[h].link)
  /\ call'[h].locks = call[h].locks \cup Needs(h)

Commits(h) ==
  /\ Moves(h) /\ Same(h) /\ pc[h] = "granted" /\ pc'[h] = "done" /\ call'[h].locks = {}
  /\ call[h].done = Len(call[h].req.grants)
  /\ org' = IF call[h].link THEN [org EXCEPT ![call[h].target] = call[h].req.org] ELSE org
  /\ roles' = [roles EXCEPT ![call[h].target] =
                  @ \cup call[h].req.roles \cup AdminRole(GrantsOf(call[h].req))]
  /\ assigned' = [assigned EXCEPT ![call[h].target] = @ \cup GrantsOf(call[h].req)]

Assigns(h) ==
  LET g == call[h].req.grants[1] IN
  /\ Moves(h) /\ pc[h] = "assigning" /\ call'[h] = call[h]
  /\ pc'[h] = IF g[2] = "BUILDING_ADMIN" THEN "half" ELSE "done"
  /\ assigned' = [assigned EXCEPT ![call[h].target] = @ \cup {g}]
  /\ org' = org /\ roles' = roles

Completes(h) ==
  /\ Moves(h) /\ Same(h) /\ pc[h] = "half" /\ pc'[h] = "done" /\ call'[h].locks = {}
  /\ roles' = [roles EXCEPT ![call[h].target] =
                  @ \cup RoleOf(call[h].req)]
  /\ org' = org /\ assigned' = assigned

StepOf(h) ==
  \/ \E r \in Requests : Starts(h, r)
  \/ \E e \in Emails : Finds(h, e)
  \/ Stops(h) \/ Checks(h) \/ Misses(h) \/ Reserves(h) \/ Opens(h)
  \/ Locks(h) \/ Upserts(h) \/ Commits(h) \/ Assigns(h) \/ Completes(h)

LEMMA MovesIs ==
  ASSUME TypeInv, NEW h \in Calls, NEW next \in Points, NEW c, Goes(h, next, c), writers' = writers
  PROVE  Moves(h) /\ pc'[h] = next /\ call'[h] = c
BY GoesIs DEF Moves

LEMMA StopsIs ==
  ASSUME TypeInv, NEW h \in Calls, NEW next \in {"refused", "failed"}, pc[h] \in InFlight,
         pc[h] = "half" => next = "failed", Ends(h, next), UNCHANGED tables
  PROVE  Stops(h)
<1>1. call[h] \in Begun /\ next \in Points /\ pc[h] # "new"
  BY DEF TypeInv, CallOK, Points, InFlight
<1> DEFINE c == [call[h] EXCEPT !.locks = {}]
<1>2. c.locks = {} /\ c.req = call[h].req /\ c.target = call[h].target /\ c.write = call[h].write
  BY <1>1 DEF Begun
<1>3. Goes(h, next, c)
  BY DEF Ends
<1> HIDE DEF c
<1>. QED  BY <1>1, <1>2, <1>3, MovesIs DEF Stops, Still, Same, tables

LEMMA StartsIs ==
  ASSUME TypeInv, NEW h \in Calls, NEW r \in Requests,
         CallProvision(h, r) \/ CallCreate(h, r) \/ CallAssign(h, r)
  PROVE  Starts(h, r)
<1>1. {"begun", "refused", "absent", "assigning"} \subseteq Points
  BY DEF Points, InFlight
<1>2. ASSUME NEW e, NEW write, NEW next \in Points, Goes(h, next, Started(r, e, write)),
             UNCHANGED tables
      PROVE  /\ Moves(h) /\ Still /\ pc'[h] = next /\ call'[h].req = r /\ call'[h].target = e
             /\ call'[h].write = write /\ call'[h].locks = {}
  <2> DEFINE c == Started(r, e, write)
  <2>1. c.req = r /\ c.target = e /\ c.write = write /\ c.locks = {} /\ Goes(h, next, c)
    BY <1>2 DEF Started
  <2> HIDE DEF c
  <2>. QED  BY <1>2, <2>1, MovesIs DEF Still, tables
<1>3. CASE CallProvision(h, r)
  BY <1>1, <1>2, <1>3 DEF CallProvision, Begin, NormalizeEmail, Starts
<1>4. CASE CallCreate(h, r)
  <2>1. CASE Exists(r.email)
    BY <1>1, <1>2, <1>4, <2>1 DEF CallCreate, Begin, Starts
  <2>2. CASE ~Exists(r.email)
    BY <1>1, <1>2, <1>4, <2>2 DEF CallCreate, Begin, Starts
  <2>. QED  BY <2>1, <2>2
<1>5. CASE CallAssign(h, r)
  BY <1>1, <1>2, <1>5 DEF CallAssign, Begin, Starts
<1>. QED  BY <1>3, <1>4, <1>5

LEMMA StatementIs ==
  ASSUME TypeInv, NEW h \in Calls, Statement(h) \/ Fail(h)
  PROVE  StepOf(h)
<1> DEFINE c == call[h]
<1>1. /\ pc[h] \in InFlight /\ pc[h] # "new" /\ CallOK(h) /\ c \in Begun /\ c.req \in Requests
      /\ InFlight \cup {"done"} \subseteq Points
  <2>1. pc[h] \in InFlight
    BY WaitingIsInFlight DEF Statement, Fail, AssertManagerProvisioningAllowed, FindTarget, LinkUser, CreateUser,
           CreateOrgAdmin, ApplyOrgRoles, UpsertAssignment, EnsureAdminRole, Commit,
           CreateAssignment, GrantRole, AbortDeadlock, InFlight
  <2>2. CallOK(h) /\ pc[h] # "new"
    BY <2>1 DEF TypeInv, InFlight
  <2>. QED  BY <2>1, <2>2 DEF CallOK, Begun, Points
<1>2. CASE Fail(h) \/ AbortDeadlock(h)
  BY <1>1, <1>2, StopsIs DEF Fail, AbortDeadlock, StepOf
<1>3. CASE Refuse(h)
  <2>1. pc'[h] = "refused"
    BY <1>3 DEF Refuse, Ends, Goes, TypeInv
  <2>2. pc[h] # "half"
    BY <2>1 DEF Statement, Fail, AssertManagerProvisioningAllowed, FindTarget, LinkUser, CreateUser,
                CreateOrgAdmin, ApplyOrgRoles, UpsertAssignment, EnsureAdminRole, Commit,
                CreateAssignment, GrantRole, AbortDeadlock, Ends, Goes, TypeInv
  <2>. QED  BY <1>1, <1>3, <2>2, StopsIs DEF Refuse, StepOf
<1>4. CASE AssertManagerProvisioningAllowed(h) /\ ~Refuse(h)
  <2>1. /\ pc[h] = "begun" /\ Goes(h, "checked", c) /\ UNCHANGED tables
        /\ c.write \/ ManagerMay(c.req)
    BY <1>4 DEF AssertManagerProvisioningAllowed
  <2>2. "checked" \in Points
    BY <1>1 DEF InFlight
  <2>3. Checks(h)
    BY <2>1, <2>2, MovesIs DEF Checks, Still, tables
  <2>. QED  BY <2>3 DEF StepOf
<1>5. CASE FindTarget(h)
  <2>1. /\ pc[h] = "checked" /\ UNCHANGED tables /\ c.done = 0 /\ ~c.link
        /\ {"absent", "linked", "unlinked"} \subseteq Points
    BY <1>1, <1>5 DEF FindTarget, CallOK, InFlight
  <2>2. CASE Goes(h, "absent", c)
    <3>1. Misses(h)
      BY <2>1, <2>2, MovesIs DEF Misses, Still, tables
    <3>. QED  BY <3>1 DEF StepOf
  <2>3. CASE Ends(h, "refused")
    BY <1>1, <2>1, <2>3, StopsIs DEF StepOf
  <2>4. ASSUME NEW e \in Emails, NEW next \in {"linked", "unlinked"}, Exists(e),
               IF org[e] = c.req.org THEN next = "linked" ELSE next = "unlinked" /\ MayLink(e, c.req),
               Goes(h, next, [c EXCEPT !.target = e])
        PROVE  StepOf(h)
    <3> DEFINE d == [c EXCEPT !.target = e]
    <3>1. /\ d.req = c.req /\ d.target = e /\ d.write = c.write /\ d.done = 0 /\ ~d.link
          /\ d.locks = c.locks
      BY <1>1, <2>1 DEF Begun
    <3>2. Goes(h, next, d)
      BY <2>4
    <3> HIDE DEF d
    <3>3. Finds(h, e)
      BY <2>1, <2>4, <3>1, <3>2, MovesIs DEF Finds, Still, tables
    <3>. QED  BY <3>3 DEF StepOf
  <2>5. \/ Goes(h, "absent", c) \/ Ends(h, "refused")
        \/ \E e \in Emails :
             /\ Exists(e) /\ (org[e] # c.req.org => MayLink(e, c.req))
             /\ Goes(h, IF org[e] = c.req.org THEN "linked" ELSE "unlinked",
                     [c EXCEPT !.target = e])
    BY <1>5 DEF FindTarget
  <2>. QED  BY <2>2, <2>3, <2>4, <2>5
<1>6. ASSUME Goes(h, "linked", [c EXCEPT !.link = TRUE, !.locks = @ \cup {UserKey(c.target)}]),
             UNCHANGED tables, Free(h, UserKey(c.target)),
             pc[h] = "unlinked" \/ (pc[h] = "absent" /\ ~Exists(c.target))
      PROVE  StepOf(h)
  <2> DEFINE d == [c EXCEPT !.link = TRUE, !.locks = @ \cup {UserKey(c.target)}]
  <2>1. c.done = 0 /\ "linked" \in Points
    BY <1>1, <1>6 DEF CallOK, InFlight
  <2>2. /\ d.req = c.req /\ d.target = c.target /\ d.write = c.write /\ d.done = 0 /\ d.link
        /\ d.locks = c.locks \cup {UserKey(c.target)}
    BY <1>1, <2>1 DEF Begun
  <2>3. Goes(h, "linked", d)
    BY <1>6
  <2> HIDE DEF d
  <2>4. Reserves(h)
    BY <1>6, <2>1, <2>2, <2>3, MovesIs DEF Reserves, Still, Same, tables
  <2>. QED  BY <2>4 DEF StepOf
<1>7. CASE LinkUser(h)
  BY <1>6, <1>7, NeedsIs, UnblockedIsFree DEF LinkUser
<1>8. CASE CreateUser(h) /\ ~Refuse(h)
  BY <1>6, <1>8, NeedsIs, UnblockedIsFree DEF CreateUser
<1>9. CASE CreateOrgAdmin(h) /\ ~Refuse(h)
  <2>1. Opens(h)
    <3>1. "half" \in Points
      BY <1>1 DEF InFlight
    <3>2. Goes(h, "half", c) /\ writers' = writers
      BY <1>9 DEF CreateOrgAdmin
    <3>3. Moves(h) /\ pc'[h] = "half" /\ call'[h] = c
      BY <3>1, <3>2, MovesIs
    <3>. QED  BY <1>9, <3>3, NeedsIs, UnblockedIsFree DEF CreateOrgAdmin, Opens
  <2>. QED  BY <2>1 DEF StepOf
<1>10. CASE UpsertAssignment(h) /\ ~Refuse(h)
  <2> DEFINE g == c.req.grants[c.done + 1]
             n == c.done + 1
             k == c.locks \cup {GrantKey(c.target, g)}
             d == [c EXCEPT !.done = n, !.locks = k]
  <2>1. /\ pc[h] = "granting" /\ c.done < Len(c.req.grants) /\ InOrg(g, c.req.org)
        /\ Free(h, GrantKey(c.target, g)) /\ UNCHANGED tables /\ Goes(h, "granting", d)
    BY <1>10, NeedsIs, UnblockedIsFree DEF UpsertAssignment
  <2>2. /\ n = c.done + 1 /\ k = c.locks \cup {GrantKey(c.target, g)} /\ "granting" \in Points
    BY <1>1 DEF InFlight
  <2> HIDE DEF n, k
  <2>3. /\ d.req = c.req /\ d.target = c.target /\ d.write = c.write /\ d.done = n
        /\ d.link = c.link /\ d.locks = k
    BY <1>1 DEF Begun
  <2> HIDE DEF d
  <2>4. Moves(h) /\ pc'[h] = "granting" /\ call'[h] = d
    BY <2>1, <2>2, MovesIs DEF tables
  <2>5. Upserts(h)
    BY <2>1, <2>2, <2>3, <2>4 DEF Upserts, Still, Same, InOrg, tables
  <2>. QED  BY <2>5 DEF StepOf
<1>11. ASSUME Ends(h, "done"), writers' = writers
       PROVE  Moves(h) /\ Same(h) /\ pc'[h] = "done" /\ call'[h].locks = {}
  <2> DEFINE d == [c EXCEPT !.locks = {}]
  <2>1. d.locks = {} /\ d.req = c.req /\ d.target = c.target /\ d.write = c.write
    BY <1>1 DEF Begun
  <2>2. Goes(h, "done", d) /\ "done" \in Points
    BY <1>1, <1>11 DEF Ends
  <2> HIDE DEF d
  <2>. QED  BY <1>11, <2>1, <2>2, MovesIs DEF Same
<1>12. CASE Commit(h)
  <2>1. Commits(h)
    BY <1>1, <1>11, <1>12 DEF Commit, Commits, CallOK
  <2>. QED  BY <2>1 DEF StepOf
<1>13. CASE CreateAssignment(h) /\ ~Refuse(h)
  <2> DEFINE next == IF c.req.grants[1][2] = "BUILDING_ADMIN" THEN "half" ELSE "done"
  <2>1. Goes(h, next, c) /\ writers' = writers /\ next \in Points
    BY <1>1, <1>13 DEF CreateAssignment, InFlight
  <2>2. Moves(h) /\ pc'[h] = next /\ call'[h] = c
    BY <2>1, MovesIs
  <2>3. Assigns(h)
    BY <1>13, <2>2 DEF CreateAssignment, Assigns
  <2>. QED  BY <2>3 DEF StepOf
<1>14. CASE GrantRole(h)
  <2>1. Completes(h)
    BY <1>11, <1>14 DEF GrantRole, Completes
  <2>. QED  BY <2>1 DEF StepOf
<1>15. ASSUME NEW next \in {"granting", "granted"}, ~Blocked(h), UNCHANGED tables,
              Goes(h, next, [c EXCEPT !.locks = @ \cup Needs(h)]),
              \/ pc[h] = "linked" /\ next = "granting"
              \/ pc[h] = "granting" /\ next = "granted" /\ c.done = Len(c.req.grants)
       PROVE  StepOf(h)
  <2> DEFINE d == [c EXCEPT !.locks = @ \cup Needs(h)]
  <2>1. /\ d.req = c.req /\ d.target = c.target /\ d.write = c.write /\ d.done = c.done
        /\ d.link = c.link /\ d.locks = c.locks \cup Needs(h)
    BY <1>1 DEF Begun
  <2>2. Goes(h, next, d) /\ next \in Points
    BY <1>1, <1>15 DEF InFlight
  <2> HIDE DEF d
  <2>3. Locks(h)
    BY <1>15, <2>1, <2>2, MovesIs, UnblockedIsFree DEF Locks, Still, Same, tables
  <2>. QED  BY <2>3 DEF StepOf
<1>16. CASE ApplyOrgRoles(h) \/ EnsureAdminRole(h)
  BY <1>15, <1>16 DEF ApplyOrgRoles, EnsureAdminRole
<1>. QED  BY <1>2, <1>3, <1>4, <1>5, <1>7, <1>8, <1>9, <1>10, <1>12, <1>13, <1>14, <1>16
          DEF Statement

(* Every step is one of a call, or changes the tables beside them.           *)
LEMMA NextIs ==
  ASSUME TypeInv, Next
  PROVE  \/ \E h \in Calls : StepOf(h)
         \/ \E e \in Registering : RegisterAccount(e)
         \/ \E e \in Emails : RevokeUsersWrite(e)
<1>1. ASSUME NEW h \in Calls, NEW r \in Requests,
             CallProvision(h, r) \/ CallCreate(h, r) \/ CallAssign(h, r)
      PROVE  StepOf(h)
  BY <1>1, StartsIs DEF StepOf
<1>. QED  BY <1>1, StatementIs DEF Next

-----------------------------------------------------------------------------
(* One account for a mailbox *)

AllLower ==
  /\ \A e \in Emails : Exists(e) => Lower[e] = e
  /\ \A h \in Calls : pc[h] # "new" => Lower[call[h].target] = call[h].target

LEMMA LowerNext ==
  ASSUME LowerCaseElsewhere, TypeInv, AllLower, [Next]_vars
  PROVE  AllLower'
<1>1. ASSUME NEW h \in Calls, Moves(h), Lower[call'[h].target] = call'[h].target,
             \A e \in Emails : org'[e] # NoAccount => Exists(e) \/ e = call'[h].target
      PROVE  AllLower'
  BY <1>1 DEF Moves, AllLower, Exists
<1>2. ASSUME NEW h \in Calls, NEW r \in Requests, Starts(h, r)
      PROVE  AllLower'
  <2>1. r.email \in Emails /\ r.org \in Orgs
    BY RequestIs
  <2>2. Moves(h) /\ org' = org
    BY <1>2 DEF Starts, Still
  <2>3. Lower[call'[h].target] = call'[h].target
    <3>1. CASE r.op = "provision"
      BY <1>2, <2>1, <3>1 DEF Starts
    <3>2. CASE r.op \in {"create", "org_admin"}
      BY <1>2, <3>2 DEF Starts, LowerCaseElsewhere
    <3>3. CASE r.op = "assign"
      <4>1. call'[h].target = r.email /\ Exists(r.email)
        BY <1>2, <2>1, <3>3 DEF Starts, Exists
      <4>. QED  BY <2>1, <4>1 DEF AllLower
    <3>. QED  BY <3>1, <3>2, <3>3, RequestIs
  <2>. QED  BY <1>1, <2>2, <2>3 DEF Exists
<1>3. ASSUME NEW h \in Calls, NEW e \in Emails, Finds(h, e)
      PROVE  AllLower'
  <2>1. Moves(h) /\ org' = org /\ call'[h].target = e /\ Lower[e] = e
    BY <1>3 DEF Finds, Still, AllLower
  <2>. QED  BY <1>1, <2>1 DEF Exists
<1>4. ASSUME NEW h \in Calls,
             \/ Stops(h) \/ Checks(h) \/ Misses(h) \/ Reserves(h) \/ Opens(h)
             \/ Locks(h) \/ Upserts(h) \/ Commits(h) \/ Assigns(h) \/ Completes(h)
      PROVE  AllLower'
  <2>1. pc[h] # "new" /\ Moves(h) /\ call'[h].target = call[h].target
    BY <1>4 DEF Stops, Checks, Misses, Reserves, Opens, Locks, Upserts, Commits, Assigns, Completes, Same,
                InFlight
  <2>2. \A e \in Emails : org'[e] = org[e] \/ e = call[h].target
    BY <1>4 DEF Stops, Checks, Misses, Reserves, Opens, Locks, Upserts, Commits, Assigns, Completes, Still,
                TypeInv
  <2>3. Lower[call[h].target] = call[h].target
    BY <2>1 DEF AllLower
  <2>. QED  BY <1>1, <2>1, <2>2, <2>3 DEF Exists
<1>5. ASSUME NEW e \in Registering, RegisterAccount(e)
      PROVE  AllLower'
  BY <1>5 DEF RegisterAccount, LowerCaseElsewhere, AllLower, Exists, TypeInv
<1>6. CASE (\E e \in Emails : RevokeUsersWrite(e)) \/ UNCHANGED vars
  BY <1>6 DEF RevokeUsersWrite, vars, tables, AllLower, Exists
<1>. QED  BY <1>2, <1>3, <1>4, <1>5, <1>6, NextIs DEF StepOf

(* When the others who make accounts use lower case, every account does, and *)
(* no two have an address that differs in its spelling.                      *)
THEOREM MailboxesAreLower ==
  ASSUME LowerCaseElsewhere
  PROVE  Spec => []OneAccountPerMailbox
<1>1. Init => AllLower
  BY DEF Init, AllLower, Exists, LowerCaseElsewhere
<1>2. TypeInv /\ AllLower /\ [Next]_vars => AllLower'
  BY LowerNext
<1>3. AllLower => OneAccountPerMailbox
  BY DEF AllLower, OneAccountPerMailbox
<1>. QED  BY <1>1, <1>2, <1>3, ProvisioningTypes, PTL DEF Spec

-----------------------------------------------------------------------------
(* Managers *)

WasManaged(b) ==
  \E d \in Emails : {<<b, "MANAGER">>, <<b, "BUILDING_ADMIN">>} \cap first.assigned[d] # {}

(* A grant that a manager may give                                           *)
Within(g) == g[2] # "BUILDING_ADMIN" /\ WasManaged(g[1])

OnlyManagers ==
  first.writers = {} /\ \A h \in Calls : pc[h] # "new" => call[h].req.op = "provision"

Kept(h) ==
  /\ pc[h] \in InFlight => ~call[h].write
  /\ pc[h] \in InFlight \ {"begun"} =>
       call[h].req.roles = {} /\ \A g \in GrantsOf(call[h].req) : Within(g)

NoReach ==
  /\ writers = {}
  /\ \A e \in Emails : roles[e] = {} /\ \A g \in assigned[e] \ first.assigned[e] : Within(g)
  /\ \A h \in Calls : Kept(h)

LEMMA ManagedWasManaged ==
  ASSUME TypeInv, NoReach, NEW e \in Emails, NEW b \in Managed(e)
  PROVE  WasManaged(b)
<1>1. PICK type \in {"MANAGER", "BUILDING_ADMIN"} : <<b, type>> \in assigned[e]
  BY DEF Managed
<1>2. CASE <<b, type>> \in first.assigned[e]
  BY <1>1, <1>2 DEF WasManaged
<1>3. CASE <<b, type>> \notin first.assigned[e]
  <2>1. Within(<<b, type>>)
    BY <1>1, <1>3 DEF NoReach
  <2>. QED  BY <2>1 DEF Within
<1>. QED  BY <1>2, <1>3

LEMMA ReachNext ==
  ASSUME TypeInv, OnlyManagers => NoReach, [Next]_vars, OnlyManagers'
  PROVE  NoReach'
<1>1. OnlyManagers /\ first' = first
  <2>1. CASE \E h \in Calls : StepOf(h)
    <3>1. PICK h \in Calls : StepOf(h)
      BY <2>1
    <3>2. Moves(h) /\ (pc[h] = "new" \/ (pc'[h] # "new" /\ call'[h].req = call[h].req))
      BY <3>1 DEF StepOf, Starts, Finds, Stops, Checks, Misses, Reserves, Opens, Locks, Upserts, Commits,
                  Assigns, Completes, Same
    <3>. QED  BY <3>2 DEF Moves, OnlyManagers
  <2>2. CASE (\E e \in Registering : RegisterAccount(e)) \/ (\E e \in Emails : RevokeUsersWrite(e))
             \/ UNCHANGED vars
    BY <2>2 DEF RegisterAccount, RevokeUsersWrite, vars, OnlyManagers
  <2>. QED  BY <2>1, <2>2, NextIs
<1>2. NoReach
  BY <1>1
<1>3. \A g : Within(g)' = Within(g)
  BY <1>1 DEF Within, WasManaged
<1>4. ASSUME NEW h \in Calls, Moves(h), Kept(h)', roles' = roles, assigned' = assigned
      PROVE  NoReach'
  BY <1>1, <1>2, <1>3, <1>4 DEF Moves, NoReach, Kept
<1>5. ASSUME NEW h \in Calls, NEW r \in Requests, Starts(h, r)
      PROVE  NoReach'
  <2>1. r.op = "provision" /\ r.actor \in Emails
    BY <1>1, <1>5, RequestIs DEF Starts, OnlyManagers
  <2>2. ~HasUsersWrite(r.actor)
    BY <1>2, <2>1 DEF NoReach, HasUsersWrite
  <2>. QED  BY <1>4, <1>5, <2>1, <2>2 DEF Starts, Still, Kept
<1>6. ASSUME NEW h \in Calls, Stops(h) \/ Misses(h) \/ (\E e \in Emails : Finds(h, e)) \/ Reserves(h)
                                \/ Locks(h) \/ Upserts(h)
      PROVE  NoReach'
  <2>1. Kept(h) /\ pc[h] \in InFlight
    BY <1>2, <1>6 DEF NoReach, Stops, Misses, Finds, Reserves, Locks, Upserts, InFlight
  <2>2. /\ call'[h].req = call[h].req /\ call'[h].write = call[h].write
        /\ pc'[h] \in InFlight \ {"begun"} => pc[h] # "begun"
    <3>1. CASE Stops(h)
      BY <3>1 DEF Stops, Same, InFlight
    <3>2. CASE Misses(h) \/ Reserves(h)
      BY <3>2 DEF Misses, Reserves, Same, InFlight
    <3>3. CASE Locks(h) \/ Upserts(h)
      BY <3>3 DEF Locks, Upserts, Same, InFlight
    <3>4. CASE \E e \in Emails : Finds(h, e)
      BY <3>4 DEF Finds, Same, InFlight
    <3>. QED  BY <1>6, <3>1, <3>2, <3>3, <3>4
  <2>3. GrantsOf(call[h].req)' = GrantsOf(call[h].req)
    BY <2>2 DEF GrantsOf
  <2>4. Kept(h)'
    BY <1>3, <2>1, <2>2, <2>3 DEF Kept
  <2>. QED  BY <1>4, <1>6, <2>4 DEF Stops, Misses, Finds, Reserves, Locks, Upserts, Still
<1>7. ASSUME NEW h \in Calls, Checks(h)
      PROVE  NoReach'
  <2>1. ~call[h].write /\ ManagerMay(call[h].req) /\ call[h].req.actor \in Emails
    <3>1. ~call[h].write /\ call[h] \in Begun
      BY <1>2, <1>7 DEF Checks, NoReach, Kept, InFlight, TypeInv, CallOK
    <3>2. call[h].req \in Requests
      BY <3>1 DEF Begun
    <3>. QED  BY <1>7, <3>1, <3>2, RequestIs DEF Checks
  <2>2. \A g \in GrantsOf(call[h].req) : Within(g)
    BY <1>2, <2>1, ManagedWasManaged DEF ManagerMay, Within
  <2>3. Kept(h)'
    BY <1>3, <1>7, <2>1, <2>2 DEF Kept, Checks, ManagerMay, GrantsOf
  <2>. QED  BY <1>4, <1>7, <2>3 DEF Checks, Still
<1>8. ASSUME NEW h \in Calls, Commits(h)
      PROVE  NoReach'
  <2>1. /\ call[h].req.roles = {} /\ \A g \in GrantsOf(call[h].req) : Within(g)
    BY <1>2, <1>8 DEF Commits, NoReach, Kept, InFlight
  <2>2. AdminRole(GrantsOf(call[h].req)) = {}
    BY <2>1 DEF AdminRole, Within
  <2>3. \A e \in Emails : roles'[e] = {}
    BY <1>2, <1>8, <2>1, <2>2 DEF Commits, NoReach, TypeInv
  <2>4. ASSUME NEW e \in Emails, NEW g \in assigned'[e] \ first.assigned[e]
        PROVE  Within(g)
    BY <1>2, <1>8, <2>1 DEF Commits, NoReach, TypeInv
  <2>5. \A g \in Calls : Kept(g)'
    BY <1>2, <1>3, <1>8 DEF Commits, Moves, NoReach, Kept, InFlight
  <2>. QED  BY <1>1, <1>2, <1>3, <1>8, <2>3, <2>4, <2>5 DEF Commits, Moves, NoReach
<1>9. ASSUME NEW h \in Calls, Opens(h) \/ Assigns(h) \/ Completes(h)
      PROVE  FALSE
  <2>1. pc[h] \in {"absent", "assigning", "half"} /\ CallOK(h) /\ call[h].req.op = "provision"
    BY <1>1, <1>9 DEF Opens, Assigns, Completes, OnlyManagers, TypeInv
  <2>. QED  BY <1>9, <2>1 DEF Opens, Assigns, Completes, CallOK, InTwoSteps
<1>10. CASE (\E e \in Registering : RegisterAccount(e)) \/ (\E e \in Emails : RevokeUsersWrite(e))
            \/ UNCHANGED vars
  BY <1>1, <1>2, <1>3, <1>10 DEF RegisterAccount, RevokeUsersWrite, vars, tables, NoReach, Kept
<1>. QED  BY <1>5, <1>6, <1>7, <1>8, <1>9, <1>10, NextIs DEF StepOf

(* If at first nobody has users.write, and only provision is called, no      *)
(* chain of calls reaches beyond what a manager had at first.                *)
THEOREM ReachIsKept == Spec => []ManagersAddNoReach
<1>1. Init => NoReach \/ ~OnlyManagers
  BY DEF Init, NoReach, OnlyManagers, Kept, InFlight
<1>2. TypeInv /\ (OnlyManagers => NoReach) /\ [Next]_vars => (OnlyManagers => NoReach)'
  BY ReachNext
<1>3. (OnlyManagers => NoReach) => ManagersAddNoReach
  <2>1. ASSUME OnlyManagers, NoReach
        PROVE  ManagersAddNoReach
    BY <2>1 DEF ManagersAddNoReach, NoReach, Within, WasManaged
  <2>. QED  BY <2>1 DEF ManagersAddNoReach, OnlyManagers
<1>. QED  BY <1>1, <1>2, <1>3, ProvisioningTypes, PTL DEF Spec

-----------------------------------------------------------------------------
(* Administrators *)

AdminsInv ==
  /\ \A e \in Emails : \A g \in assigned[e] : g[2] = "BUILDING_ADMIN" =>
       \/ "admin" \in roles[e]
       \/ \E h \in Calls : pc[h] = "half" /\ call[h].req.op = "assign" /\ call[h].target = e
  /\ \A h \in Calls : pc[h] = "done" /\ call[h].req.op = "org_admin" =>
       "org_admin" \in roles[call[h].target]

LEMMA AdminsNext ==
  ASSUME TypeInv, AdminsInv, NoneFailsHalfway', [Next]_vars
  PROVE  AdminsInv'
<1>1. ASSUME NEW h \in Calls, Moves(h), roles' = roles, assigned' = assigned, pc[h] # "half",
             pc[h] # "done", pc'[h] # "done"
      PROVE  AdminsInv'
  <2>1. ASSUME NEW e \in Emails, NEW g \in assigned'[e], g[2] = "BUILDING_ADMIN", "admin" \notin roles'[e]
        PROVE  \E k \in Calls : pc'[k] = "half" /\ call'[k].req.op = "assign" /\ call'[k].target = e
    <3>1. PICK k \in Calls : pc[k] = "half" /\ call[k].req.op = "assign" /\ call[k].target = e
      BY <1>1, <2>1 DEF AdminsInv
    <3>2. k # h
      BY <1>1, <3>1
    <3>. QED  BY <1>1, <3>1, <3>2 DEF Moves
  <2>2. ASSUME NEW k \in Calls, pc'[k] = "done", call'[k].req.op = "org_admin"
        PROVE  "org_admin" \in roles'[call'[k].target]
    BY <1>1, <2>2 DEF Moves, AdminsInv
  <2>. QED  BY <2>1, <2>2 DEF AdminsInv
<1>2. ASSUME NEW h \in Calls,
             \/ \E r \in Requests : Starts(h, r)
             \/ \E e \in Emails : Finds(h, e)
             \/ Checks(h) \/ Misses(h) \/ Reserves(h) \/ Opens(h) \/ Locks(h) \/ Upserts(h)
      PROVE  AdminsInv'
  BY <1>1, <1>2 DEF Starts, Finds, Checks, Misses, Reserves, Opens, Locks, Upserts, Still
<1>3. ASSUME NEW h \in Calls, Stops(h)
      PROVE  AdminsInv'
  <2>1. pc[h] # "half"
    <3>1. CASE pc[h] = "half"
      <4>1. InTwoSteps(call[h].req) /\ pc'[h] = "failed" /\ call'[h].req = call[h].req
        BY <1>3, <3>1 DEF Stops, Same, TypeInv, CallOK
      <4>. QED  BY <4>1 DEF NoneFailsHalfway, InTwoSteps
    <3>. QED  BY <3>1
  <2>. QED  BY <1>1, <1>3, <2>1 DEF Stops, Still, InFlight
<1>4. ASSUME NEW h \in Calls, Commits(h) \/ Assigns(h) \/ Completes(h)
      PROVE  AdminsInv'
  <2> DEFINE e == call[h].target
             r == call[h].req
  <2>1. /\ pc[h] \in {"granted", "assigning", "half"} /\ e \in Emails /\ CallOK(h) /\ r \in Requests
        /\ Moves(h) /\ call'[h].req = r /\ call'[h].target = e
    <3>1. /\ pc[h] \in {"granted", "assigning", "half"} /\ CallOK(h) /\ Moves(h)
          /\ call'[h].req = r /\ call'[h].target = e
      BY <1>4 DEF Commits, Assigns, Completes, Same, TypeInv
    <3>. QED  BY <3>1 DEF CallOK, Begun
  <2>2. \A d \in Emails : roles[d] \subseteq roles'[d] /\ (d # e => assigned'[d] = assigned[d])
    <3>1. CASE Commits(h)
      BY <3>1 DEF Commits, TypeInv
    <3>2. CASE Assigns(h)
      BY <3>2 DEF Assigns, TypeInv
    <3>3. CASE Completes(h)
      BY <3>3 DEF Completes, RoleOf, TypeInv
    <3>. QED  BY <1>4, <3>1, <3>2, <3>3
  <2>3. ASSUME NEW d \in Emails, NEW g \in assigned'[d], g[2] = "BUILDING_ADMIN"
        PROVE  \/ "admin" \in roles'[d]
               \/ \E k \in Calls : pc'[k] = "half" /\ call'[k].req.op = "assign" /\ call'[k].target = d
    <3>1. CASE g \in assigned[d] /\ ~(Completes(h) /\ d = e)
      <4>1. ASSUME NEW k \in Calls, pc[k] = "half", call[k].req.op = "assign", call[k].target = d,
                   ~Completes(h) \/ k # h
            PROVE  pc'[k] = "half" /\ call'[k].req.op = "assign" /\ call'[k].target = d
        BY <1>4, <4>1 DEF Commits, Assigns, Completes, Moves
      <4>2. "admin" \in roles[d] \/ \E k \in Calls : pc[k] = "half" /\ call[k].req.op = "assign" /\ call[k].target = d
        BY <2>3, <3>1 DEF AdminsInv
      <4>. QED  BY <2>2, <3>1, <4>1, <4>2
    <3>2. CASE Commits(h) /\ g \notin assigned[d]
      <4>1. d = e /\ g \in GrantsOf(r)
        BY <2>1, <2>2, <2>3, <3>2 DEF Commits, TypeInv
      <4>2. "admin" \in AdminRole(GrantsOf(r))
        BY <2>3, <4>1 DEF AdminRole
      <4>. QED  BY <2>1, <3>2, <4>1, <4>2 DEF Commits, TypeInv
    <3>3. CASE Assigns(h) /\ g \notin assigned[d]
      <4>1. d = e /\ g = r.grants[1]
        BY <2>1, <2>2, <2>3, <3>3 DEF Assigns, TypeInv
      <4>2. pc'[h] = "half" /\ r.op = "assign"
        BY <2>1, <2>3, <3>3, <4>1 DEF Assigns, CallOK
      <4>. QED  BY <2>1, <4>1, <4>2
    <3>4. CASE Completes(h) /\ d = e
      <4>1. CASE r.op # "org_admin"
        BY <2>1, <3>4, <4>1 DEF Completes, RoleOf, TypeInv
      <4>2. CASE r.op = "org_admin" /\ "admin" \notin roles[d]
        <5>1. g \in assigned[d]
          BY <3>4 DEF Completes
        <5>2. PICK k \in Calls : pc[k] = "half" /\ call[k].req.op = "assign" /\ call[k].target = d
          BY <2>3, <4>2, <5>1 DEF AdminsInv
        <5>3. k # h
          BY <4>2, <5>2
        <5>. QED  BY <2>1, <5>2, <5>3 DEF Moves
      <4>. QED  BY <2>2, <4>1, <4>2
    <3>5. Completes(h) => g \in assigned[d]
      BY DEF Completes
    <3>. QED  BY <1>4, <3>1, <3>2, <3>3, <3>4, <3>5
  <2>4. ASSUME NEW k \in Calls, pc'[k] = "done", call'[k].req.op = "org_admin"
        PROVE  "org_admin" \in roles'[call'[k].target]
    <3>1. CASE k = h
      <4>1. r.op = "org_admin"
        BY <2>1, <2>4, <3>1
      <4>2. Completes(h)
        BY <1>4, <2>1, <4>1 DEF Commits, Assigns, CallOK, Granting
      <4>. QED  BY <2>1, <3>1, <4>1, <4>2 DEF Completes, RoleOf, TypeInv
    <3>2. CASE k # h
      <4>1. pc[k] = "done" /\ call[k].req.op = "org_admin" /\ call'[k].target = call[k].target
        BY <2>1, <2>4, <3>2 DEF Moves
      <4>2. "org_admin" \in roles[call[k].target] /\ call[k].target \in Emails
        BY <4>1 DEF AdminsInv, TypeInv, CallOK, Begun
      <4>. QED  BY <2>2, <4>1, <4>2
    <3>. QED  BY <3>1, <3>2
  <2>. QED  BY <2>3, <2>4 DEF AdminsInv
<1>5. CASE (\E e \in Registering : RegisterAccount(e)) \/ (\E e \in Emails : RevokeUsersWrite(e))
           \/ UNCHANGED vars
  BY <1>5 DEF RegisterAccount, RevokeUsersWrite, vars, tables, AdminsInv
<1>. QED  BY <1>2, <1>3, <1>4, <1>5, NextIs DEF StepOf

(* If none of the calls that write twice fails, administrators have the      *)
(* roles that go with what they are, once all calls are over.                *)
THEOREM AdminsBecomeWhole ==
  ASSUME FirstTablesAreSound
  PROVE  Spec /\ []NoneFailsHalfway => []AdminsAreWhole
<1>1. Init => AdminsInv
  BY DEF Init, AdminsInv, FirstTablesAreSound
<1>2. TypeInv /\ AdminsInv /\ NoneFailsHalfway' /\ [Next]_vars => AdminsInv'
  BY AdminsNext
<1>3. AdminsInv /\ NoneFailsHalfway => AdminsAreWhole
  BY DEF AdminsInv, NoneFailsHalfway, AdminsAreWhole, InTwoSteps, InFlight
<1>. QED  BY <1>1, <1>2, <1>3, ProvisioningTypes, PTL DEF Spec

-----------------------------------------------------------------------------
(* Organisations and their buildings *)

Excluded == \A g, h \in Calls : g # h => call[g].locks \cap call[h].locks = {}

LEMMA ExcludedNext == TypeInv /\ Excluded /\ [Next]_vars => Excluded'
<1> SUFFICES ASSUME TypeInv, Excluded, [Next]_vars
             PROVE  Excluded'
  OBVIOUS
<1>1. ASSUME NEW h \in Calls, Moves(h),
             \A g \in Calls \ {h} : call[g].locks \cap call'[h].locks = {}
      PROVE  Excluded'
  BY <1>1 DEF Moves, Excluded
<1>2. ASSUME NEW h \in Calls, StepOf(h)
      PROVE  Excluded'
  <2>1. CASE call'[h].locks = {} \/ call'[h].locks = call[h].locks
    <3>1. Moves(h)
      BY <1>2 DEF StepOf, Starts, Finds, Stops, Checks, Misses, Reserves, Opens, Locks, Upserts, Commits,
                  Assigns, Completes
    <3>. QED  BY <1>1, <2>1, <3>1 DEF Excluded
  <2>2. CASE Reserves(h) \/ Upserts(h) \/ Locks(h)
    <3>1. PICK K : (\A k \in K : Free(h, k)) /\ call'[h].locks = call[h].locks \cup K
      <4>1. CASE Reserves(h) \/ Upserts(h)
        <5>1. PICK k : Free(h, k) /\ call'[h].locks = call[h].locks \cup {k}
          BY <4>1 DEF Reserves, Upserts
        <5>. QED  BY <5>1
      <4>2. CASE Locks(h)
        BY <4>2 DEF Locks
      <4>. QED  BY <2>2, <4>1, <4>2
    <3>2. \A g \in Calls \ {h} : call[g].locks \cap call'[h].locks = {}
      BY <3>1 DEF Free, Excluded
    <3>. QED  BY <1>1, <2>2, <3>2 DEF Reserves, Upserts, Locks
  <2>. QED  BY <1>2, <2>1, <2>2
            DEF StepOf, Starts, Finds, Stops, Checks, Misses, Opens, Commits, Assigns, Completes
<1>3. CASE (\E e \in Registering : RegisterAccount(e)) \/ (\E e \in Emails : RevokeUsersWrite(e))
           \/ UNCHANGED vars
  BY <1>3 DEF RegisterAccount, RevokeUsersWrite, vars, Excluded
<1>. QED  BY <1>2, <1>3, NextIs

(* What a call that is to grant knows of the account and of the buildings    *)
Scoped(h) ==
  LET c == call[h] IN
  /\ pc[h] \in Granting =>
       /\ \A i \in 1 .. c.done : BuildingOrg[c.req.grants[i][1]] = c.req.org
       /\ ~c.link => org[c.target] = c.req.org
       /\ c.link => \/ org[c.target] = NoAccount /\ UserKey(c.target) \in c.locks
                    \/ org[c.target] = NoOrg /\ ~c.req.sameOrg
  /\ pc[h] = "unlinked" => org[c.target] = NoOrg /\ ~c.req.sameOrg
  /\ pc[h] = "assigning" =>
       org[c.target] = c.req.org /\ BuildingOrg[c.req.grants[1][1]] = c.req.org

ScopedInv == AssignedWithinOrg /\ \A h \in Calls : Scoped(h)

LEMMA ScopedSame ==
  ASSUME ScopedInv, NEW k \in Calls, pc'[k] = pc[k], call'[k] = call[k],
         pc[k] \in Granting \cup {"unlinked", "assigning"} => org'[call[k].target] = org[call[k].target]
  PROVE  Scoped(k)'
<1>1. Scoped(k)
  BY DEF ScopedInv
<1>. QED  BY <1>1 DEF Scoped, Granting

LEMMA ScopedStill ==
  ASSUME ScopedInv, NEW h \in Calls, Moves(h), Still, Scoped(h)'
  PROVE  ScopedInv'
<1>1. \A k \in Calls \ {h} : Scoped(k)'
  BY ScopedSame DEF Moves, Still
<1>2. AssignedWithinOrg'
  BY DEF ScopedInv, AssignedWithinOrg, Still
<1>. QED  BY <1>1, <1>2 DEF ScopedInv

(* Who holds no lock on an address without an account is not about it.       *)
LEMMA NobodyIsAt ==
  ASSUME TypeInv, ScopedInv, NEW k \in Calls, ~Exists(call[k].target),
         UserKey(call[k].target) \notin call[k].locks
  PROVE  pc[k] \notin Granting \cup {"unlinked", "assigning"}
<1>1. ASSUME pc[k] \in Granting \cup {"unlinked", "assigning"}
      PROVE  FALSE
  <2>1. Scoped(k) /\ call[k] \in Begun
    BY <1>1 DEF Granting, ScopedInv, TypeInv, CallOK
  <2>2. call[k].req.org \in Orgs
    BY <2>1, RequestIs DEF Begun
  <2>. QED  BY <1>1, <2>1, <2>2 DEF Scoped, Granting, Exists
<1>. QED  BY <1>1

LEMMA UnattachedHasNone ==
  ASSUME TypeInv, AssignedWithinOrg, NEW e \in Emails, org[e] \in {NoOrg, NoAccount}
  PROVE  assigned[e] = {}
<1>1. ASSUME NEW g \in assigned[e]
      PROVE  FALSE
  <2>1. g[1] \in Buildings
    BY DEF TypeInv, Grants
  <2>. QED  BY <2>1 DEF AssignedWithinOrg
<1>. QED  BY <1>1

LEMMA ScopedNext ==
  ASSUME TypeInv, Excluded, ScopedInv, LinksAlone, [Next]_vars
  PROVE  ScopedInv'
<1>1. ASSUME NEW h \in Calls, NEW r \in Requests, Starts(h, r)
      PROVE  ScopedInv'
  <2>1. Scoped(h)'
    BY <1>1 DEF Starts, Still, Scoped, Granting
  <2>. QED  BY <1>1, <2>1, ScopedStill DEF Starts
<1>2. ASSUME NEW h \in Calls, NEW e \in Emails, Finds(h, e)
      PROVE  ScopedInv'
  <2>1. Scoped(h)'
    BY <1>2 DEF Finds, Still, Scoped, MayLink, Granting
  <2>. QED  BY <1>2, <2>1, ScopedStill DEF Finds
<1>3. ASSUME NEW h \in Calls, Stops(h) \/ Checks(h) \/ Misses(h)
      PROVE  ScopedInv'
  <2>1. Scoped(h)'
    BY <1>3 DEF Stops, Checks, Misses, Scoped, Granting
  <2>. QED  BY <1>3, <2>1, ScopedStill DEF Stops, Checks, Misses
<1>4. ASSUME NEW h \in Calls, Reserves(h)
      PROVE  ScopedInv'
  <2>1. Scoped(h)
    BY DEF ScopedInv
  <2>2. Scoped(h)'
    BY <1>4, <2>1 DEF Reserves, Still, Same, Scoped, Granting, Exists
  <2>. QED  BY <1>4, <2>2, ScopedStill DEF Reserves
<1>5. ASSUME NEW h \in Calls, Upserts(h)
      PROVE  ScopedInv'
  <2> DEFINE c == call[h]
  <2>1. Scoped(h) /\ c \in Begun /\ c.done \in Nat
    BY <1>5 DEF ScopedInv, Upserts, TypeInv, CallOK, Begun
  <2>2. \A i \in 1 .. c.done + 1 : i \in 1 .. c.done \/ i = c.done + 1
    BY <2>1
  <2>3. Scoped(h)'
    BY <1>5, <2>1, <2>2 DEF Upserts, Still, Same, Scoped, Granting
  <2>. QED  BY <1>5, <2>3, ScopedStill DEF Upserts
<1>12. ASSUME NEW h \in Calls, Locks(h)
       PROVE  ScopedInv'
  <2>1. Scoped(h)
    BY DEF ScopedInv
  <2>2. Scoped(h)'
    BY <1>12, <2>1 DEF Locks, Still, Same, Scoped, Granting
  <2>. QED  BY <1>12, <2>2, ScopedStill DEF Locks
<1>6. ASSUME NEW h \in Calls, Completes(h)
      PROVE  ScopedInv'
  <2>1. /\ pc'[h] = "done" /\ org' = org /\ assigned' = assigned
        /\ \A k \in Calls \ {h} : pc'[k] = pc[k] /\ call'[k] = call[k]
    BY <1>6 DEF Completes, Moves
  <2>2. Scoped(h)'
    BY <2>1 DEF Scoped, Granting
  <2>3. \A k \in Calls \ {h} : Scoped(k)'
    BY <2>1, ScopedSame
  <2>. QED  BY <2>1, <2>2, <2>3 DEF ScopedInv, AssignedWithinOrg
<1>7. ASSUME NEW h \in Calls, Assigns(h)
      PROVE  ScopedInv'
  <2> DEFINE g == call[h].req.grants[1]
  <2>1. /\ pc'[h] \in {"half", "done"} /\ org' = org
        /\ assigned' = [assigned EXCEPT ![call[h].target] = @ \cup {g}]
        /\ \A k \in Calls \ {h} : pc'[k] = pc[k] /\ call'[k] = call[k]
    BY <1>7 DEF Assigns, Moves
  <2>2. \A k \in Calls : Scoped(k)'
    <3>1. Scoped(h)'
      BY <2>1 DEF Scoped, Granting
    <3>. QED  BY <2>1, <3>1, ScopedSame
  <2>3. org[call[h].target] = BuildingOrg[g[1]]
    BY <1>7 DEF Assigns, ScopedInv, Scoped
  <2> HIDE DEF g
  <2>4. AssignedWithinOrg'
    BY <2>1, <2>3 DEF ScopedInv, AssignedWithinOrg, TypeInv
  <2>. QED  BY <2>2, <2>4 DEF ScopedInv
<1>8. ASSUME NEW h \in Calls, Opens(h)
      PROVE  ScopedInv'
  <2> DEFINE e == call[h].target
  <2>1. /\ pc[h] = "absent" /\ call[h] \in Begun /\ e \in Emails /\ ~Exists(e)
    BY <1>8 DEF Opens, TypeInv, CallOK, Begun
  <2>2. /\ pc'[h] = "half" /\ org' = [org EXCEPT ![e] = call[h].req.org] /\ assigned' = assigned
        /\ \A k \in Calls \ {h} : pc'[k] = pc[k] /\ call'[k] = call[k] /\ UserKey(e) \notin call[k].locks
    BY <1>8 DEF Opens, Moves, Free
  <2>3. \A d \in Emails : d # e => org'[d] = org[d]
    BY <2>1, <2>2 DEF TypeInv
  <2>4. ASSUME NEW k \in Calls \ {h}
        PROVE  Scoped(k)'
    <3>1. pc[k] \in Granting \cup {"unlinked", "assigning"} => call[k].target \in Emails
      BY DEF TypeInv, CallOK, Begun, Granting
    <3>. QED  BY <2>1, <2>2, <2>3, <3>1, NobodyIsAt, ScopedSame
  <2>5. Scoped(h)'
    BY <2>2 DEF Scoped, Granting
  <2>6. assigned[e] = {}
    BY <2>1, UnattachedHasNone DEF ScopedInv, Exists
  <2>7. AssignedWithinOrg'
    BY <2>2, <2>3, <2>6 DEF ScopedInv, AssignedWithinOrg
  <2>. QED  BY <2>4, <2>5, <2>7 DEF ScopedInv
<1>9. ASSUME NEW h \in Calls, Commits(h)
      PROVE  ScopedInv'
  <2> DEFINE e == call[h].target
             r == call[h].req
  <2>1. /\ pc[h] = "granted" /\ call[h] \in Begun /\ e \in Emails /\ r \in Requests /\ Scoped(h)
        /\ Moves(h)
    BY <1>9 DEF Commits, TypeInv, CallOK, Begun, ScopedInv
  <2>2. /\ pc'[h] = "done" /\ call[h].done = Len(r.grants)
        /\ org' = IF call[h].link THEN [org EXCEPT ![e] = r.org] ELSE org
        /\ assigned' = [assigned EXCEPT ![e] = @ \cup GrantsOf(r)]
    BY <1>9 DEF Commits
  <2>3. \A d \in Emails : d # e => org'[d] = org[d] /\ assigned'[d] = assigned[d]
    BY <2>1, <2>2 DEF TypeInv
  <2>4. \A g \in GrantsOf(r) : BuildingOrg[g[1]] = r.org
    BY <2>1, <2>2, RequestIs DEF Scoped, Granting
  <2>5. org'[e] = r.org
    BY <2>1, <2>2 DEF Scoped, Granting, TypeInv
  <2>6. \A g \in assigned[e] : BuildingOrg[g[1]] = r.org
    <3>1. CASE call[h].link
      BY <2>1, <3>1, UnattachedHasNone DEF Scoped, Granting, ScopedInv
    <3>2. CASE ~call[h].link
      BY <2>1, <3>2 DEF Scoped, Granting, ScopedInv, AssignedWithinOrg
    <3>. QED  BY <3>1, <3>2
  <2>7. AssignedWithinOrg'
    <3>1. assigned'[e] = assigned[e] \cup GrantsOf(r)
      BY <2>1, <2>2 DEF TypeInv
    <3>. QED  BY <2>3, <2>4, <2>5, <2>6, <3>1 DEF ScopedInv, AssignedWithinOrg
  <2>8. ASSUME NEW k \in Calls \ {h}
        PROVE  Scoped(k)'
    <3>1. pc'[k] = pc[k] /\ call'[k] = call[k]
      BY <2>1 DEF Moves
    <3>2. CASE ~call[h].link
      BY <2>2, <3>1, <3>2, ScopedSame
    <3>3. CASE call[h].link /\ org[e] = NoOrg
      <4>1. ~r.sameOrg
        BY <2>1, <3>3 DEF Scoped, Granting
      <4>2. pc[k] \notin Granting \cup {"unlinked", "assigning"}
        BY <2>1, <4>1 DEF LinksAlone, InFlight, Granting
      <4>. QED  BY <3>1, <4>2, ScopedSame
    <3>4. CASE call[h].link /\ org[e] = NoAccount
      <4>1. UserKey(e) \notin call[k].locks
        BY <2>1, <3>4 DEF Scoped, Excluded, Granting
      <4>2. pc[k] \in Granting \cup {"unlinked", "assigning"} => call[k].target \in Emails
        BY DEF TypeInv, CallOK, Begun, Granting
      <4>. QED  BY <2>3, <3>1, <3>4, <4>1, <4>2, NobodyIsAt, ScopedSame DEF Exists
    <3>. QED  BY <2>1, <3>2, <3>3, <3>4 DEF Scoped, Granting
  <2>9. Scoped(h)'
    BY <2>2 DEF Scoped, Granting
  <2>. QED  BY <2>7, <2>8, <2>9 DEF ScopedInv
<1>10. ASSUME NEW e \in Registering, RegisterAccount(e)
       PROVE  ScopedInv'
  <2>1. /\ e \in Emails /\ ~Exists(e) /\ org' = [org EXCEPT ![e] = NoOrg] /\ assigned' = assigned
        /\ pc' = pc /\ call' = call /\ \A k \in Calls : UserKey(e) \notin call[k].locks
    BY <1>10 DEF RegisterAccount
  <2>2. \A d \in Emails : d # e => org'[d] = org[d]
    BY <2>1 DEF TypeInv
  <2>3. assigned[e] = {}
    BY <2>1, UnattachedHasNone DEF ScopedInv, Exists
  <2>4. ASSUME NEW k \in Calls
        PROVE  Scoped(k)'
    <3>1. pc[k] \in Granting \cup {"unlinked", "assigning"} => call[k].target \in Emails
      BY DEF TypeInv, CallOK, Begun, Granting
    <3>. QED  BY <2>1, <2>2, <3>1, NobodyIsAt, ScopedSame
  <2>. QED  BY <2>1, <2>2, <2>3, <2>4 DEF ScopedInv, AssignedWithinOrg
<1>11. CASE (\E e \in Emails : RevokeUsersWrite(e)) \/ UNCHANGED vars
  <2>1. org' = org /\ assigned' = assigned /\ pc' = pc /\ call' = call
    BY <1>11 DEF RevokeUsersWrite, vars, tables
  <2>2. \A k \in Calls : Scoped(k)'
    BY <2>1, ScopedSame
  <2>. QED  BY <2>1, <2>2 DEF ScopedInv, AssignedWithinOrg
<1>. QED  BY <1>1, <1>2, <1>3, <1>4, <1>5, <1>6, <1>7, <1>8, <1>9, <1>10, <1>11, <1>12, NextIs DEF StepOf

(* While no two calls race for an unattached account, whoever is assigned to *)
(* a building belongs to its organisation, whatever else overlaps or fails.  *)
THEOREM AssignmentsStayInOrg ==
  ASSUME FirstTablesAreSound
  PROVE  Spec /\ []LinksAlone => []AssignedWithinOrg
<1>1. Init => ScopedInv /\ Excluded
  BY DEF Init, ScopedInv, Scoped, Granting, Excluded, AssignedWithinOrg, FirstTablesAreSound
<1>2. TypeInv /\ Excluded /\ [Next]_vars => Excluded'
  BY ExcludedNext
<1>3. TypeInv /\ Excluded /\ ScopedInv /\ LinksAlone /\ [Next]_vars => ScopedInv'
  BY ScopedNext
<1>4. ScopedInv => AssignedWithinOrg
  BY DEF ScopedInv
<1>. QED  BY <1>1, <1>2, <1>3, <1>4, ProvisioningTypes, PTL DEF Spec

-----------------------------------------------------------------------------
(* Deadlocks *)

(* What a transaction has locked, by how far it is                           *)
Gathered(h) ==
  LET c == call[h]
      e == c.target
  IN  \A key \in c.locks :
        /\ pc[h] \in Granting
        /\ \/ key = UserKey(e)
           \/ pc[h] # "linked" /\ \E k \in c.req.roles : key = RoleKey(e, k)
           \/ \E i \in 1 .. c.done : key = GrantKey(e, c.req.grants[i])
           \/ pc[h] = "granted" /\ \E k \in AdminRole(GrantsOf(c.req)) : key = RoleKey(e, k)

Gathering == \A h \in Calls : Gathered(h)

LEMMA GatheringNext == TypeInv /\ Gathering /\ [Next]_vars => Gathering'
<1> SUFFICES ASSUME TypeInv, Gathering, [Next]_vars
             PROVE  Gathering'
  OBVIOUS
<1>1. ASSUME NEW h \in Calls, Moves(h), Gathered(h)'
      PROVE  Gathering'
  BY <1>1 DEF Moves, Gathering, Gathered
<1>2. ASSUME NEW h \in Calls, StepOf(h), call'[h].locks = {}
      PROVE  Gathering'
  <2>1. Moves(h)
    BY <1>2 DEF StepOf, Starts, Finds, Stops, Checks, Misses, Reserves, Opens, Locks, Upserts, Commits,
                Assigns, Completes
  <2>. QED  BY <1>1, <1>2, <2>1 DEF Gathered
<1>3. ASSUME NEW h \in Calls,
             \/ Checks(h) \/ Misses(h) \/ Opens(h) \/ Assigns(h)
             \/ \E e \in Emails : Finds(h, e)
      PROVE  Gathering'
  <2>1. pc[h] \notin Granting /\ call'[h].locks = call[h].locks /\ Moves(h)
    BY <1>3 DEF Checks, Misses, Opens, Assigns, Finds, Granting
  <2>2. call'[h].locks = {}
    BY <2>1 DEF Gathering, Gathered
  <2>. QED  BY <1>1, <2>1, <2>2 DEF Gathered
<1>4. ASSUME NEW h \in Calls, Reserves(h)
      PROVE  Gathering'
  <2>1. call[h].locks = {}
    BY <1>4 DEF Gathering, Gathered, Reserves, Granting
  <2>2. Gathered(h)'
    BY <1>4, <2>1 DEF Reserves, Same, Gathered, Granting
  <2>. QED  BY <1>1, <1>4, <2>2 DEF Reserves
<1>5. ASSUME NEW h \in Calls, Upserts(h)
      PROVE  Gathering'
  <2> DEFINE c == call[h]
  <2>1. c.done \in Nat /\ Gathered(h)
    BY <1>5 DEF Gathering, Upserts, TypeInv, CallOK, Begun
  <2>2. c.done + 1 \in 1 .. c.done + 1 /\ \A i \in 1 .. c.done : i \in 1 .. c.done + 1
    BY <2>1
  <2>3. Gathered(h)'
    BY <1>5, <2>1, <2>2 DEF Upserts, Same, Gathered, Granting
  <2>. QED  BY <1>1, <1>5, <2>3 DEF Upserts
<1>6. ASSUME NEW h \in Calls, Locks(h)
      PROVE  Gathering'
  <2> DEFINE c == call[h]
  <2>1. Gathered(h) /\ c \in Begun /\ Len(c.req.grants) \in Nat
    <3>1. c \in Begun /\ c.req \in Requests
      BY <1>6 DEF Locks, TypeInv, CallOK, Begun
    <3>. QED  BY <3>1, RequestIs DEF Gathering
  <2>2. ASSUME NEW key \in Needs(h)
        PROVE  \/ pc[h] = "linked" /\ \E k \in c.req.roles : key = RoleKey(c.target, k)
               \/ pc[h] = "granting"
                    /\ \E k \in AdminRole(GrantsOf(c.req)) : key = RoleKey(c.target, k)
    BY <1>6, <2>1, NeedsIs DEF Locks
  <2>3. GrantsOf(call[h].req)' = GrantsOf(c.req)
    BY <1>6 DEF Locks, Same, GrantsOf
  <2>4. Gathered(h)'
    BY <1>6, <2>1, <2>2, <2>3 DEF Locks, Same, Gathered, Granting, AdminRole
  <2>. QED  BY <1>1, <1>6, <2>4 DEF Locks
<1>7. CASE (\E e \in Registering : RegisterAccount(e)) \/ (\E e \in Emails : RevokeUsersWrite(e))
           \/ UNCHANGED vars
  BY <1>7 DEF RegisterAccount, RevokeUsersWrite, vars, Gathering, Gathered
<1>8. ASSUME NEW h \in Calls, Stops(h) \/ Commits(h) \/ Completes(h) \/ \E r \in Requests : Starts(h, r)
      PROVE  call'[h].locks = {}
  BY <1>8 DEF Stops, Commits, Completes, Starts
<1>. QED  BY <1>2, <1>3, <1>4, <1>5, <1>6, <1>7, <1>8, NextIs DEF StepOf

(* Entries of different indexes differ. *)
LEMMA KeysDiffer ==
  \A d, e, g, k : /\ UserKey(d) # RoleKey(e, k) /\ UserKey(d) # GrantKey(e, g)
                  /\ GrantKey(d, g) # RoleKey(e, k)
BY DEF UserKey, RoleKey, GrantKey

LEMMA IndexBounds ==
  ASSUME NEW m \in Nat, NEW n \in Nat
  PROVE  /\ m < n => m + 1 \in 1 .. n
         /\ m <= n => \A i \in 1 .. m : i \in 1 .. n /\ i < m + 1
OBVIOUS

(* Whoever waits for a transaction is about a user that it has granted to.   *)
LEMMA WaitingIs ==
  ASSUME TypeInv, Gathering, NEW g \in Calls, NEW h \in Calls, Waits(g, h), Waits(h, g)
  PROVE  /\ pc[g] = "granting" /\ call[g] \in Begun /\ call[g].req \in Requests
         /\ \/ /\ call[g].done < Len(call[g].req.grants)
               /\ \E i \in 1 .. call[h].done :
                    call[h].req.grants[i] = call[g].req.grants[call[g].done + 1]
            \/ /\ AdminRole(GrantsOf(call[g].req)) # {}
               /\ "admin" \in call[h].req.roles
               /\ RoleKey(call[g].target, "admin") \in Needs(g) \cap call[h].locks
<1>1. ASSUME NEW k \in {g, h}
      PROVE  /\ pc[k] \in {"linked", "granting"} /\ call[k] \in Begun /\ call[k].req \in Requests
             /\ call[k].done \in Nat /\ Len(call[k].req.grants) \in Nat /\ Gathered(k) /\ CallOK(k)
  <2>1. call[k].locks # {} /\ Needs(k) # {} /\ Gathered(k) /\ CallOK(k)
    BY <1>1 DEF Waits, Gathering, TypeInv
  <2>2. pc[k] \in {"linked", "granting"} /\ pc[k] # "new"
    BY <2>1, NeedsIs DEF Gathered, Granting
  <2>3. call[k] \in Begun /\ call[k].req \in Requests /\ call[k].done \in Nat
    BY <2>1, <2>2 DEF CallOK, Begun
  <2>. QED  BY <2>1, <2>2, <2>3, RequestIs
<1>2. ASSUME NEW k \in {g, h}, NEW key \in Needs(k)
      PROVE  /\ \A e : key # UserKey(e)
             /\ \/ /\ pc[k] = "granting" /\ call[k].done < Len(call[k].req.grants)
                   /\ key = GrantKey(call[k].target, call[k].req.grants[call[k].done + 1])
                \/ /\ pc[k] = "granting" /\ key = RoleKey(call[k].target, "admin")
                   /\ AdminRole(GrantsOf(call[k].req)) # {}
                \/ pc[k] = "linked" /\ \E r : key = RoleKey(call[k].target, r)
  <2>1. pc[k] \in {"linked", "granting"} /\ call[k].done \in Nat /\ Len(call[k].req.grants) \in Nat
        /\ call[k].done <= Len(call[k].req.grants)
    BY <1>1 DEF CallOK, Granting
  <2>2. call[k].done < Len(call[k].req.grants) \/ call[k].done = Len(call[k].req.grants)
    BY <2>1
  <2>3. CASE pc[k] = "linked"
    <3>1. PICK r : key = RoleKey(call[k].target, r)
      BY <1>2, <2>3, NeedsIs
    <3>. QED  BY <2>3, <3>1, KeysDiffer
  <2>4. CASE pc[k] = "granting" /\ call[k].done < Len(call[k].req.grants)
    <3>1. key = GrantKey(call[k].target, call[k].req.grants[call[k].done + 1])
      BY <1>2, <2>4, NeedsIs
    <3>. QED  BY <2>4, <3>1, KeysDiffer
  <2>5. CASE pc[k] = "granting" /\ call[k].done = Len(call[k].req.grants)
    <3>1. PICK r \in AdminRole(GrantsOf(call[k].req)) : key = RoleKey(call[k].target, r)
      BY <1>2, <2>5, NeedsIs
    <3>2. r = "admin"
      BY DEF AdminRole
    <3>. QED  BY <2>5, <3>1, <3>2, KeysDiffer
  <2>. QED  BY <2>1, <2>2, <2>3, <2>4, <2>5
<1>3. pc[g] = "granting"
  <2>1. SUFFICES ASSUME pc[g] = "linked" PROVE FALSE
    BY <1>1
  <2>2. \A key \in call[g].locks : key = UserKey(call[g].target)
    BY <1>1, <2>1 DEF Gathered, CallOK
  <2>. QED  BY <1>2, <2>2 DEF Waits
<1>4. PICK key \in Needs(g) : key \in call[h].locks
  BY DEF Waits
<1>5. \/ \E k \in call[h].req.roles : key = RoleKey(call[h].target, k)
      \/ \E i \in 1 .. call[h].done : key = GrantKey(call[h].target, call[h].req.grants[i])
  BY <1>1, <1>2, <1>4 DEF Gathered
<1>6. CASE key = GrantKey(call[g].target, call[g].req.grants[call[g].done + 1])
           /\ call[g].done < Len(call[g].req.grants)
  <2>1. PICK i \in 1 .. call[h].done : key = GrantKey(call[h].target, call[h].req.grants[i])
    BY <1>5, <1>6, KeysDiffer
  <2>2. call[h].req.grants[i] = call[g].req.grants[call[g].done + 1]
    BY <1>6, <2>1 DEF GrantKey
  <2>. QED  BY <1>1, <1>3, <1>6, <2>2
<1>7. CASE key = RoleKey(call[g].target, "admin") /\ AdminRole(GrantsOf(call[g].req)) # {}
  <2>1. PICK k \in call[h].req.roles : key = RoleKey(call[h].target, k)
    BY <1>5, <1>7, KeysDiffer
  <2>2. k = "admin"
    BY <1>7, <2>1 DEF RoleKey
  <2>. QED  BY <1>1, <1>3, <1>4, <1>7, <2>1, <2>2
<1>. QED  BY <1>2, <1>3, <1>4, <1>6, <1>7

LEMMA CirclesAreOpposite ==
  ASSUME TypeInv, Gathering, Excluded
  PROVE  OnlyOppositesDeadlock
<1> SUFFICES ASSUME NEW g \in Calls, NEW h \in Calls, Waits(g, h), Waits(h, g)
             PROVE  \/ ~Agree(call[g].req, call[h].req)
                    \/ NamesAdmin(call[g].req, call[h].req)
                    \/ NamesAdmin(call[h].req, call[g].req)
  BY DEF OnlyOppositesDeadlock
<1> DEFINE NextOf(k, l) ==
      /\ call[k].done < Len(call[k].req.grants)
      /\ \E i \in 1 .. call[l].done :
           call[l].req.grants[i] = call[k].req.grants[call[k].done + 1]
    Admin(k, l) ==
      /\ AdminRole(GrantsOf(call[k].req)) # {} /\ "admin" \in call[l].req.roles
      /\ RoleKey(call[k].target, "admin") \in Needs(k) \cap call[l].locks
<1>1. /\ NextOf(g, h) \/ Admin(g, h)
      /\ NextOf(h, g) \/ Admin(h, g)
  BY WaitingIs
<1>2. ASSUME NEW k \in {g, h}
      PROVE  /\ call[k].done \in Nat /\ Len(call[k].req.grants) \in Nat
             /\ call[k].done <= Len(call[k].req.grants)
             /\ DOMAIN call[k].req.grants = 1 .. Len(call[k].req.grants)
             /\ GrantsOf(call[k].req) = {call[k].req.grants[i] : i \in 1 .. Len(call[k].req.grants)}
  <2>1. pc[k] = "granting" /\ call[k] \in Begun /\ call[k].req \in Requests
    BY WaitingIs
  <2>2. call[k].done \in Nat /\ call[k].done <= Len(call[k].req.grants)
    BY <2>1 DEF Begun, TypeInv, CallOK, Granting
  <2>3. call[k].req.grants \in Seq(Grants)
    BY <2>1, RequestIs
  <2>. QED  BY <2>1, <2>2, <2>3, RequestIs
<1>3. ASSUME NEW k \in {g, h}, NEW l \in {g, h}, NextOf(k, l)
      PROVE  GrantsOf(call[k].req) \cap GrantsOf(call[l].req) # {}
  <2>1. PICK i \in 1 .. call[l].done : call[l].req.grants[i] = call[k].req.grants[call[k].done + 1]
    BY <1>3
  <2>2. i \in 1 .. Len(call[l].req.grants) /\ call[k].done + 1 \in 1 .. Len(call[k].req.grants)
    <3>1. call[k].done < Len(call[k].req.grants)
      BY <1>3
    <3>2. /\ {call[k].done, call[l].done, Len(call[k].req.grants), Len(call[l].req.grants)} \subseteq Nat
          /\ call[l].done <= Len(call[l].req.grants)
      BY <1>2
    <3>. QED  BY <2>1, <3>1, <3>2, IndexBounds
  <2>3. /\ call[l].req.grants[i] \in GrantsOf(call[l].req)
        /\ call[k].req.grants[call[k].done + 1] \in GrantsOf(call[k].req)
    BY <1>2, <2>2
  <2>. QED  BY <2>1, <2>3
<1>4. CASE NextOf(g, h) /\ NextOf(h, g)
  <2> DEFINE r == call[g].req
             s == call[h].req
             m == call[g].done
             n == call[h].done
  <2>1. PICK k \in 1 .. n : s.grants[k] = r.grants[m + 1]
    BY <1>4
  <2>2. PICK i \in 1 .. m : r.grants[i] = s.grants[n + 1]
    BY <1>4
  <2>3. /\ {i, m + 1} \subseteq DOMAIN r.grants /\ {k, n + 1} \subseteq DOMAIN s.grants
        /\ i < m + 1 /\ k < n + 1
    <3>1. m < Len(r.grants) /\ n < Len(s.grants)
      BY <1>4
    <3>2. {m, n, Len(r.grants), Len(s.grants)} \subseteq Nat /\ m <= Len(r.grants) /\ n <= Len(s.grants)
          /\ DOMAIN r.grants = 1 .. Len(r.grants) /\ DOMAIN s.grants = 1 .. Len(s.grants)
      BY <1>2
    <3> HIDE DEF r, s, m, n
    <3>3. /\ i \in 1 .. Len(r.grants) /\ m + 1 \in 1 .. Len(r.grants) /\ i < m + 1
          /\ k \in 1 .. Len(s.grants) /\ n + 1 \in 1 .. Len(s.grants) /\ k < n + 1
      BY <2>1, <2>2, <3>1, <3>2, IndexBounds
    <3>. QED  BY <3>2, <3>3
  <2>4. ~Agree(r, s)
    BY <2>1, <2>2, <2>3 DEF Agree
  <2>. QED  BY <2>4
<1>5. CASE Admin(g, h) /\ NextOf(h, g)
  BY <1>3, <1>5 DEF NamesAdmin
<1>6. CASE Admin(h, g) /\ NextOf(g, h)
  BY <1>3, <1>6 DEF NamesAdmin
<1>7. CASE Admin(g, h) /\ Admin(h, g)
  <2>1. /\ RoleKey(call[g].target, "admin") \in call[h].locks
        /\ RoleKey(call[h].target, "admin") \in call[g].locks
    BY <1>7
  <2>2. call[g].target = call[h].target
    <3> DEFINE key == RoleKey(call[g].target, "admin")
    <3>1. key \in call[h].locks
      BY <2>1
    <3>2. \/ key = UserKey(call[h].target)
          \/ \E k \in call[h].req.roles : key = RoleKey(call[h].target, k)
          \/ \E i \in 1 .. call[h].done : key = GrantKey(call[h].target, call[h].req.grants[i])
          \/ \E k \in AdminRole(GrantsOf(call[h].req)) : key = RoleKey(call[h].target, k)
      BY <3>1 DEF Gathering, Gathered
    <3>3. PICK k : key = RoleKey(call[h].target, k)
      BY <3>2, KeysDiffer
    <3>. QED  BY <3>3 DEF RoleKey
  <2>3. g # h
    BY DEF Waits
  <2>. QED  BY <2>1, <2>2, <2>3 DEF Excluded
<1>. QED  BY <1>1, <1>4, <1>5, <1>6, <1>7

(* Whatever calls overlap, two wait for each other only if their clients     *)
(* list the grants of one user in opposite orders, or name the role admin    *)
(* beside a grant that brings it.                                            *)
THEOREM DeadlocksAreOpposite == Spec => []OnlyOppositesDeadlock
<1>1. Init => Gathering /\ Excluded
  BY DEF Init, Gathering, Gathered, Excluded
<1>2. TypeInv /\ Gathering /\ [Next]_vars => Gathering'
  BY GatheringNext
<1>3. TypeInv /\ Excluded /\ [Next]_vars => Excluded'
  BY ExcludedNext
<1>4. TypeInv /\ Gathering /\ Excluded => OnlyOppositesDeadlock
  BY CirclesAreOpposite
<1>. QED  BY <1>1, <1>2, <1>3, <1>4, ProvisioningTypes, PTL DEF Spec

-----------------------------------------------------------------------------
(* The scenarios *)

MCInv ==
  /\ scenario \in DOMAIN Sent
  /\ \A h \in Calls : pc[h] # "new" => call[h].req \in Sent[scenario]
  /\ scenario = "links" => OneAtATime
  /\ scenario \in {"managers", "admins"} => \A h \in Calls : pc[h] # "failed"

LEMMA ScenariosHold == MCSpec => Spec /\ []LinksAlone /\ []NoneFailsHalfway
<1>1. MCInit => Init /\ MCInv
  BY DEF MCInit, Init, MCInv, OneAtATime, InFlight
<1>2. [MCNext]_mcvars => [Next]_vars
  BY DEF MCNext, Meet, mcvars
<1>3. MCInv /\ [MCNext]_mcvars => MCInv'
  <2>1. ASSUME MCInv, MCNext
        PROVE  MCInv'
    BY <2>1 DEF MCInv, MCNext, Meet
  <2>2. ASSUME MCInv, UNCHANGED mcvars
        PROVE  MCInv'
    BY <2>2 DEF MCInv, mcvars, vars, OneAtATime
  <2>. QED  BY <2>1, <2>2
<1>4. MCInv => LinksAlone
  BY ScenariosAreSound DEF MCInv, LinksAlone, OneAtATime, InFlight
<1>5. MCInv => NoneFailsHalfway
  BY ScenariosAreSound DEF MCInv, NoneFailsHalfway
<1>. QED  BY <1>1, <1>2, <1>3, <1>4, <1>5, PTL DEF MCSpec, Spec

(* In every scenario assignments stay within an organisation, administrators *)
(* become whole, and a mailbox has one account.                              *)
THEOREM ScenariosAreWhole ==
  MCSpec => [](AssignedWithinOrg /\ AdminsAreWhole /\ OneAccountPerMailbox)
<1>1. FirstTablesAreSound /\ LowerCaseElsewhere
  BY ScenariosAreSound
<1>. QED  BY <1>1, ScenariosHold, AssignmentsStayInOrg, AdminsBecomeWhole, MailboxesAreLower, PTL
=============================================================================
