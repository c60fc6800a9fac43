----------------------------- MODULE AccessControl -----------------------------
(***************************************************************************)
(* The links behind a permission: the roles of a user, the permissions of  *)
(* a role and the overrides of a user. RolesService and UserAccessService  *)
(* replace or add links; AccessControlService reads them, for the          *)
(* PermissionsGuard, by one query after another.                           *)
(*                                                                         *)
(* A replacement is a transaction of a DELETE and an INSERT ... ON         *)
(* CONFLICT DO NOTHING. The DELETE takes the rows its snapshot sees, and   *)
(* waits for those another transaction has deleted; a row that was         *)
(* inserted since is another row, even with the same key.                  *)
(***************************************************************************)
EXTENDS Naturals, FiniteSets, Sequences

CONSTANTS
  Users, Roles, Permissions,
  FirstLinks,        \* links of the seed: records of an owner, an item and a value
  Requests,          \* what administrators send
  Calls, Checks,
  MaxOverlap,
  MayFail

(* Owners: a user's roles, a role's permissions, a user's overrides *)
Owners == ({"roles", "overrides"} \X Users) \cup ({"permissions"} \X Roles)

ItemsOf(o) == IF o[1] = "roles" THEN Roles ELSE Permissions

ValuesOf(o) == IF o[1] = "overrides" THEN {"ALLOW", "DENY"} ELSE {"LINK"}

Links == UNION {{[owner |-> o, item |-> i, value |-> v] : i \in ItemsOf(o), v \in ValuesOf(o)} : o \in Owners}

ASSUME AccessAssumption ==
  /\ FirstLinks \subseteq Links
  /\ \A k, l \in FirstLinks : k.owner = l.owner /\ k.item = l.item => k = l
  /\ \A r \in Requests :
       /\ r.mode \in {"add", "replace"} /\ r.owner \in Owners
       /\ Len(r.want) \in Nat /\ DOMAIN r.want = 1..Len(r.want)
       /\ \A i \in DOMAIN r.want : r.want[i][2] \in ValuesOf(r.owner)
  /\ "seed" \notin Calls

VARIABLES
  rows,       \* committed rows: a link, and who wrote it
  txn,        \* one change of links by call
  check       \* one reading of a user's permissions

vars == <<rows, txn, check>>

Row(l, by) == [link |-> l, by |-> by]

Open == {"deleting", "inserting"}

Idle == [pc |-> "idle", seen |-> {}, gone |-> {}, fresh |-> {}, next |-> 1]

Init ==
  /\ rows = {Row(l, "seed") : l \in FirstLinks}
  /\ txn = [h \in Calls |-> Idle]
  /\ check = [c \in Checks |-> [pc |-> "idle"]]

RowsOf(o) == {r \in rows : r.link.owner = o}

SameKey(k, l) == k.owner = l.owner /\ k.item = l.item

-----------------------------------------------------------------------------
(* What a user holds *)

Stored == {r.link : r \in rows}

RolesIn(links, u) == {l.item : l \in {k \in links : k.owner = <<"roles", u>>}}

PermissionsIn(links, keys) ==
  {l.item : l \in {k \in links : \E r \in keys : k.owner = <<"permissions", r>>}}

OverridesIn(links, u, effect) ==
  {l.item : l \in {k \in links : k.owner = <<"overrides", u>> /\ k.value = effect}}

(* Mutant of Overridden: the roles come last *)
RolesLast(keys, links, u) ==
  (OverridesIn(links, u, "ALLOW") \ OverridesIn(links, u, "DENY")) \cup keys

Overridden(keys, links, u) ==
  (keys \cup OverridesIn(links, u, "ALLOW")) \ OverridesIn(links, u, "DENY")

Effective(links, u) ==
  Overridden(PermissionsIn(links, RolesIn(links, u)), links, u)

-----------------------------------------------------------------------------
(* Changes of links *)

Step(h, t) == txn' = [txn EXCEPT ![h] = t]

NoCommit == UNCHANGED <<rows, check>>

(* The names are looked up first; an unknown one refuses the call. *)
Begin(h, r) ==
  /\ txn[h].pc = "idle" /\ Cardinality({g \in Calls : txn[g].pc \in Open}) < MaxOverlap
  /\ Step(h, IF \E i \in DOMAIN r.want : r.want[i][1] \notin ItemsOf(r.owner)
             THEN [Idle EXCEPT !.pc = "refused"]
             ELSE [pc |-> IF r.mode = "add" THEN "inserting" ELSE "deleting",
                   seen |-> IF r.mode = "add" THEN {} ELSE RowsOf(r.owner),
                   gone |-> {}, fresh |-> {}, next |-> 1, req |-> r])
  /\ NoCommit

Deletes(h) ==
  Step(h, [txn[h] EXCEPT !.pc = "inserting", !.gone = txn[h].seen \cap rows])

(* Mutant of DeleteSeen: the two statements without a transaction *)
DeleteAtOnce(h) ==
  /\ txn[h].pc = "deleting"
  /\ rows' = rows \ txn[h].seen
  /\ Step(h, [txn[h] EXCEPT !.pc = "inserting"])
  /\ UNCHANGED check

DeleteSeen(h) ==
  /\ txn[h].pc = "deleting" /\ NoCommit
  /\ \A g \in Calls \ {h} : txn[g].gone \cap txn[h].seen = {}
  /\ Deletes(h)

Wanted(h) ==
  LET r == txn[h].req IN
  [owner |-> r.owner, item |-> r.want[txn[h].next][1], value |-> r.want[txn[h].next][2]]

Inserting(h) == txn[h].pc = "inserting" /\ txn[h].next <= Len(txn[h].req.want)

Blocks(g, l) == \E r \in txn[g].gone \cup txn[g].fresh : SameKey(r.link, l)

Taken(h, l) == \E r \in (rows \ txn[h].gone) \cup txn[h].fresh : SameKey(r.link, l)

(* The next row, unless one with its key is there *)
InsertNext(h) ==
  LET l == Wanted(h) IN
  /\ Inserting(h) /\ NoCommit
  /\ \A g \in Calls \ {h} : ~Blocks(g, l)
  /\ Step(h, [txn[h] EXCEPT !.next = @ + 1,
                            !.fresh = IF Taken(h, l) THEN @ ELSE @ \cup {Row(l, h)}])

(* What a check that is under way could have seen at once *)
Witness(links) ==
  check' = [c \in Checks |->
    IF check[c].pc \in {"idle", "done"} THEN check[c]
    ELSE LET e == Effective(links, check[c].user) IN
         [check[c] EXCEPT !.ever = @ \cup e, !.always = @ \cap e,
                          !.commits = IF @ = 2 THEN 2 ELSE @ + 1]]

Over(t, pc) == [Idle EXCEPT !.pc = pc]

Commit(h) ==
  /\ txn[h].pc = "inserting" /\ ~Inserting(h)
  /\ rows' = (rows \ txn[h].gone) \cup txn[h].fresh
  /\ Witness({r.link : r \in (rows \ txn[h].gone) \cup txn[h].fresh})
  /\ Step(h, Over(txn[h], "done"))

Fail(h) ==
  /\ MayFail /\ txn[h].pc \in Open
  /\ Step(h, Over(txn[h], "failed")) /\ NoCommit

(* PostgreSQL ends one of two transactions that wait for each other. *)
AbortDeadlock(h) ==
  /\ \E g \in Calls \ {h} :
       Inserting(h) /\ Inserting(g) /\ Blocks(g, Wanted(h)) /\ Blocks(h, Wanted(g))
  /\ Step(h, Over(txn[h], "failed")) /\ NoCommit

-----------------------------------------------------------------------------
(* getUserAccess: the roles, their permissions and the overrides in turn *)

Reads(c, k) == check' = [check EXCEPT ![c] = k] /\ UNCHANGED <<rows, txn>>

ReadRoles(c, u) ==
  /\ check[c].pc = "idle"
  /\ Reads(c, [pc |-> "roles", user |-> u, keys |-> RolesIn(Stored, u), commits |-> 0,
               ever |-> Effective(Stored, u), always |-> Effective(Stored, u)])

ReadRolePermissions(c) ==
  /\ check[c].pc = "roles"
  /\ Reads(c, [check[c] EXCEPT !.pc = "permissions", !.keys = PermissionsIn(Stored, @)])

(* getUserEffectivePermissions, and what PermissionsGuard finds in it *)
ReadOverrides(c) ==
  /\ check[c].pc = "permissions"
  /\ Reads(c, [check[c] EXCEPT !.pc = "done", !.keys = Overridden(@, Stored, check[c].user)])

Statement(h) == DeleteSeen(h) \/ InsertNext(h) \/ Commit(h) \/ AbortDeadlock(h)

Next ==
  \/ \E h \in Calls : (\E r \in Requests : Begin(h, r)) \/ Statement(h) \/ Fail(h)
  \/ \E c \in Checks :
       (\E u \in Users : ReadRoles(c, u)) \/ ReadRolePermissions(c) \/ ReadOverrides(c)

Spec == Init /\ [][Next]_vars

-----------------------------------------------------------------------------
(* Properties *)

TxnOK(h) ==
  LET t == txn[h] IN
  /\ t.pc \in Open \cup {"idle", "done", "failed", "refused"}
  /\ t.pc \notin Open => t = [Idle EXCEPT !.pc = t.pc]
  /\ t.gone \subseteq rows

(* Rows are of the schema and unique by key, and what an open transaction    *)
(* has deleted is still there for the others.                                *)
TypeOK ==
  /\ rows \in SUBSET [link : Links, by : Calls \cup {"seed"}]
  /\ \A r, s \in rows : SameKey(r.link, s.link) => r = s
  /\ \A h \in Calls : TxnOK(h)

(* A link that all replacements ask for                                      *)
Agreed(l) ==
  \A r \in Requests :
    r.mode = "replace" /\ r.owner = l.owner =>
      \E i \in DOMAIN r.want :
        /\ r.want[i] = <<l.item, l.value>>
        /\ \A j \in 1..(i - 1) : r.want[j][1] # l.item

(* A link of the seed which every replacement asks for is never missing,     *)
(* not even while replacements overlap or fail.                              *)
AgreedStays == \A l \in FirstLinks : Agreed(l) => l \in Stored

(* A permission that is denied to a user by the seed and by every list of    *)
(* overrides sent since is never found by a check, whenever it reads.        *)
DeniedIsNeverFound ==
  \A c \in Checks : check[c].pc = "done" =>
    \A p \in check[c].keys :
      LET l == [owner |-> <<"overrides", check[c].user>>, item |-> p, value |-> "DENY"]
      IN ~(l \in FirstLinks /\ Agreed(l))

(* A check during which at most one change commits finds every permission    *)
(* held all along, and none that was not held at one time: a change is seen  *)
(* whole or not at all.                                                      *)
CheckSeesWholeChanges ==
  \A c \in Checks : check[c].pc = "done" /\ check[c].commits <= 1 =>
    check[c].always \subseteq check[c].keys /\ check[c].keys \subseteq check[c].ever
=============================================================================
