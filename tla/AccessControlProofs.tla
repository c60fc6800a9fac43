-------------------------- MODULE AccessControlProofs --------------------------
(***************************************************************************)
(* AccessControl for any links, requests and overlap: types and unique     *)
(* keys, that what every replacement asks for is never missing, that a     *)
(* permission which is always denied is found by no check, and that a      *)
(* check sees a change whole or not at all.                                *)
(*                                                                         *)
(* The argument: no two open transactions have deleted the same row or     *)
(* inserted the same key (Apart), and a transaction that has deleted a row *)
(* of a link it also asks for has inserted it again, under its own name,   *)
(* as soon as it is past its place in the list (Restored).                 *)
(*                                                                         *)
(* The last part is about the other links that overlapping transactions    *)
(* replace, those of UnitAmenities and its scenarios (MCSpec). What a call *)
(* has checked against the building of its unit stays so (CallWithin), and *)
(* a call that has locked its unit is the only one that writes its links   *)
(* (ReplaceInv).                                                           *)
(***************************************************************************)
EXTENDS AccessControl, MCUnitAmenities, TLAPS

RowType == [link : Links, by : Calls \cup {"seed"}]

OpenTxn ==
  [pc : Open, seen : SUBSET RowType, gone : SUBSET RowType, fresh : SUBSET RowType,
   next : Nat \ {0}, req : Requests]

FirstFor(want, i, l) ==
  want[i] = <<l.item, l.value>> /\ \A j \in 1..(i - 1) : want[j][1] # l.item

(* The rows that a transaction has inserted                                  *)
FreshOK(t, h) ==
  /\ \A s \in t.fresh :
       /\ s.link.owner = t.req.owner
       /\ \E j \in 1..(t.next - 1) : t.req.want[j][1] = s.link.item
       /\ \A r \in rows \ t.gone : ~SameKey(s.link, r.link)
  /\ \A r, s \in t.fresh : SameKey(r.link, s.link) => r = s

Restored(t, h) ==
  \A r \in t.gone, i \in 1..(t.next - 1) :
    FirstFor(t.req.want, i, r.link) => Row(r.link, h) \in t.fresh

TxnInv(t, h) ==
  /\ t \in OpenTxn
  /\ \A r \in t.seen : r.link.owner = t.req.owner
  /\ t.gone \subseteq t.seen
  /\ t.req.mode = "add" => t.seen = {} /\ t.pc = "inserting"
  /\ t.pc = "deleting" => t.fresh = {} /\ t.gone = {} /\ t.next = 1
  /\ \A i \in DOMAIN t.req.want : t.req.want[i][1] \in ItemsOf(t.req.owner)
  /\ FreshOK(t, h) /\ Restored(t, h)

Apart(s, t) ==
  /\ s.gone \cap t.gone = {}
  /\ \A q \in s.fresh, r \in t.fresh : ~SameKey(q.link, r.link)

Items == Roles \cup Permissions

CheckType ==
  [pc : {"roles", "permissions", "done"}, user : Users, keys : SUBSET Items,
   commits : 0..2, ever : SUBSET Items, always : SUBSET Items]

CheckOK(k) == k.pc = "idle" \/ k \in CheckType

IInv ==
  /\ TypeOK
  /\ DOMAIN txn = Calls /\ DOMAIN check = Checks
  /\ \A h \in Calls : txn[h].pc \in Open => TxnInv(txn[h], h)
  /\ \A g, h \in Calls : g # h => Apart(txn[g], txn[h])
  /\ AgreedStays
  /\ \A c \in Checks : CheckOK(check[c])
  /\ DeniedIsNeverFound

-----------------------------------------------------------------------------
(* A transaction moves on, and nothing is committed *)

LEMMA ClosedIs ==
  ASSUME IInv, NEW h \in Calls, txn[h].pc \notin Open
  PROVE  txn[h].gone = {} /\ txn[h].fresh = {}
<1>1. txn[h] = [Idle EXCEPT !.pc = txn[h].pc]
  BY DEF IInv, TypeOK, TxnOK
<1>. QED  BY <1>1 DEF Idle

LEMMA OpenStepKeeps ==
  ASSUME IInv, NEW h \in Calls, NEW t, Step(h, t), NoCommit,
         \/ t.pc \in Open /\ TxnInv(t, h)
         \/ /\ t.pc \in {"idle", "done", "failed", "refused"}
            /\ t = [Idle EXCEPT !.pc = t.pc],
         t.gone \subseteq rows,
         \A g \in Calls \ {h} : Apart(txn[g], t) /\ Apart(t, txn[g])
  PROVE  IInv'
<1>1. /\ rows' = rows /\ check' = check /\ DOMAIN txn = Calls
      /\ txn' = [txn EXCEPT ![h] = t]
  BY DEF IInv, Step, NoCommit
<1>2. \A g \in Calls : txn'[g] = IF g = h THEN t ELSE txn[g]
  BY <1>1
<1>3. \A g \in Calls : txn'[g].pc \in Open => TxnInv(txn'[g], g)
  BY <1>2 DEF IInv, Open
<1>4. ASSUME NEW g \in Calls, txn'[g].pc \in Open
      PROVE  TxnInv(txn[g], g)'
  <2>1. TxnInv(txn'[g], g)
    BY <1>3, <1>4
  <2>2. FreshOK(txn[g], g)'
    BY <1>1, <2>1 DEF TxnInv, FreshOK
  <2>3. Restored(txn[g], g)'
    BY <2>1 DEF TxnInv, Restored
  <2>. QED  BY <2>1, <2>2, <2>3 DEF TxnInv
<1>5. \A g, f \in Calls : g # f => Apart(txn'[g], txn'[f])
  BY <1>2 DEF IInv
<1>6. \A g, f \in Calls : g # f => Apart(txn[g], txn[f])'
  BY <1>5 DEF Apart
<1>7. TypeOK'
  <2>1. \A g \in Calls : TxnOK(g)'
    BY <1>1, <1>2 DEF IInv, TypeOK, TxnOK, Open
  <2>. QED  BY <1>1, <2>1 DEF IInv, TypeOK
<1>8. AgreedStays' /\ DeniedIsNeverFound' /\ \A c \in Checks : CheckOK(check[c])'
  BY <1>1 DEF IInv, AgreedStays, Stored, DeniedIsNeverFound, CheckOK
<1>. QED  BY <1>1, <1>4, <1>6, <1>7, <1>8 DEF IInv

LEMMA EndKeeps ==
  ASSUME IInv, NEW h \in Calls, NEW pc \in {"done", "failed", "refused"},
         Step(h, [Idle EXCEPT !.pc = pc]), NoCommit
  PROVE  IInv'
<1>. DEFINE t == [Idle EXCEPT !.pc = pc]
<1>1. t.pc = pc /\ t.gone = {} /\ t.fresh = {} /\ t = [Idle EXCEPT !.pc = t.pc]
  BY DEF Idle
<1>2. \A g \in Calls \ {h} : Apart(txn[g], t) /\ Apart(t, txn[g])
  BY <1>1 DEF Apart
<1>3. Step(h, t)
  OBVIOUS
<1>. HIDE DEF t
<1>. QED  BY <1>1, <1>2, <1>3, OpenStepKeeps

LEMMA BeginKeeps ==
  ASSUME IInv, NEW h \in Calls, NEW r \in Requests, Begin(h, r)
  PROVE  IInv'
<1>1. CASE \E i \in DOMAIN r.want : r.want[i][1] \notin ItemsOf(r.owner)
  <2>1. Step(h, [Idle EXCEPT !.pc = "refused"]) /\ NoCommit
    BY <1>1 DEF Begin
  <2>. QED  BY <2>1, EndKeeps
<1>2. CASE \A i \in DOMAIN r.want : r.want[i][1] \in ItemsOf(r.owner)
  <2>. DEFINE t == [pc |-> IF r.mode = "add" THEN "inserting" ELSE "deleting",
                    seen |-> IF r.mode = "add" THEN {} ELSE RowsOf(r.owner),
                    gone |-> {}, fresh |-> {}, next |-> 1, req |-> r]
  <2>1. Step(h, t) /\ NoCommit
    BY <1>2 DEF Begin
  <2>2. RowsOf(r.owner) \subseteq RowType /\ \A q \in RowsOf(r.owner) : q.link.owner = r.owner
    BY DEF RowsOf, IInv, TypeOK, RowType
  <2>3. t \in OpenTxn
    BY <2>2 DEF OpenTxn, Open
  <2>4. FreshOK(t, h) /\ Restored(t, h)
    BY DEF FreshOK, Restored
  <2>5. TxnInv(t, h) /\ t.pc \in Open
    BY <1>2, <2>2, <2>3, <2>4 DEF TxnInv, Open
  <2>6. t.gone = {} /\ t.fresh = {}
    OBVIOUS
  <2>7. \A g \in Calls \ {h} : Apart(txn[g], t) /\ Apart(t, txn[g])
    BY <2>6 DEF Apart
  <2>. HIDE DEF t
  <2>. QED  BY <2>1, <2>5, <2>6, <2>7, OpenStepKeeps
<1>. QED  BY <1>1, <1>2

LEMMA DeleteKeeps ==
  ASSUME IInv, NEW h \in Calls, DeleteSeen(h)
  PROVE  IInv'
<1>. DEFINE t == [txn[h] EXCEPT !.pc = "inserting", !.gone = txn[h].seen \cap rows]
<1>1. Step(h, t) /\ NoCommit /\ txn[h].pc = "deleting"
  BY DEF DeleteSeen, Deletes
<1>2. TxnInv(txn[h], h)
  BY <1>1 DEF IInv, Open
<1>3. /\ txn[h] \in OpenTxn /\ txn[h].fresh = {} /\ txn[h].next = 1
      /\ txn[h].req.mode # "add"
  BY <1>1, <1>2 DEF TxnInv
<1>4. /\ t \in OpenTxn /\ t.pc = "inserting" /\ t.gone = txn[h].seen \cap rows
      /\ t.fresh = {} /\ t.next = 1 /\ t.req = txn[h].req /\ t.seen = txn[h].seen
  BY <1>3 DEF OpenTxn, Open
<1>. HIDE DEF t
<1>5. FreshOK(t, h) /\ Restored(t, h)
  BY <1>4 DEF FreshOK, Restored
<1>6. TxnInv(t, h) /\ t.pc \in Open
  BY <1>2, <1>3, <1>4, <1>5 DEF TxnInv, Open
<1>7. \A g \in Calls \ {h} : Apart(txn[g], t) /\ Apart(t, txn[g])
  BY <1>4 DEF Apart, DeleteSeen
<1>. QED  BY <1>1, <1>4, <1>6, <1>7, OpenStepKeeps

LEMMA InsertKeeps ==
  ASSUME IInv, NEW h \in Calls, InsertNext(h)
  PROVE  IInv'
<1>. DEFINE l == Wanted(h)
            f == IF Taken(h, l) THEN txn[h].fresh ELSE txn[h].fresh \cup {Row(l, h)}
            t == [txn[h] EXCEPT !.next = @ + 1, !.fresh = f]
            want == txn[h].req.want
            n == txn[h].next
<1>1. /\ Step(h, t) /\ NoCommit /\ txn[h].pc = "inserting" /\ n <= Len(want)
      /\ \A g \in Calls \ {h} : ~Blocks(g, l)
  BY DEF InsertNext, Inserting
<1>2. TxnInv(txn[h], h) /\ txn[h] \in OpenTxn
  BY <1>1 DEF IInv, Open, TxnInv
<1>3. txn[h].req \in Requests /\ n \in Nat \ {0} /\ txn[h].fresh \subseteq RowType
  BY <1>2 DEF OpenTxn
<1>4. n \in DOMAIN want
  <2>1. Len(want) \in Nat /\ DOMAIN want = 1..Len(want)
    BY <1>3, AccessAssumption
  <2>. HIDE DEF want, n
  <2>2. n \in 1..Len(want)
    BY <1>1, <1>3, <2>1
  <2>. QED  BY <2>1, <2>2
<1>5. /\ l.owner = txn[h].req.owner /\ l.item = want[n][1] /\ l.value = want[n][2]
      /\ l = [owner |-> txn[h].req.owner, item |-> want[n][1], value |-> want[n][2]]
  BY DEF Wanted
<1>6. l \in Links
  <2>1. want[n][1] \in ItemsOf(txn[h].req.owner)
    BY <1>2, <1>4 DEF TxnInv
  <2>2. txn[h].req.owner \in Owners /\ want[n][2] \in ValuesOf(txn[h].req.owner)
    BY <1>3, <1>4, AccessAssumption
  <2>. HIDE DEF want, n
  <2>. QED  BY <1>5, <2>1, <2>2 DEF Links
<1>7. Row(l, h).link = l /\ Row(l, h) \in RowType
  BY <1>6 DEF Row, RowType
<1>8. f \subseteq RowType /\ txn[h].fresh \subseteq f
  BY <1>3, <1>7
<1>9. \A s \in f : s \in txn[h].fresh \/ (s = Row(l, h) /\ ~Taken(h, l))
  OBVIOUS
<1>10. ~Taken(h, l) => Row(l, h) \in f
  OBVIOUS
<1>. HIDE DEF f, l
<1>11. /\ t \in OpenTxn /\ t.pc = "inserting" /\ t.gone = txn[h].gone /\ t.fresh = f
       /\ t.next = n + 1 /\ t.req = txn[h].req /\ t.seen = txn[h].seen
  <2>1. n + 1 \in Nat \ {0}
    BY <1>3
  <2>. QED  BY <1>1, <1>2, <1>8, <2>1 DEF OpenTxn, Open
<1>. HIDE DEF t
<1>12. FreshOK(t, h)
  <2>1. \A s \in f : s.link.owner = txn[h].req.owner
    BY <1>2, <1>5, <1>7, <1>9 DEF TxnInv, FreshOK
  <2>2. ASSUME NEW s \in f
        PROVE  \E j \in 1..n : want[j][1] = s.link.item
    <3>1. CASE s \in txn[h].fresh
      <4>1. PICK j \in 1..(n - 1) : want[j][1] = s.link.item
        BY <1>2, <3>1 DEF TxnInv, FreshOK
      <4>. QED  BY <1>3, <4>1
    <3>2. CASE s = Row(l, h)
      <4>1. n \in 1..n
        BY <1>3
      <4>. QED  BY <1>5, <1>7, <3>2, <4>1
    <3>. QED  BY <1>9, <3>1, <3>2
  <2>3. \A s \in f, r \in rows \ txn[h].gone : ~SameKey(s.link, r.link)
    BY <1>2, <1>7, <1>9 DEF TxnInv, FreshOK, Taken, SameKey
  <2>4. \A r, s \in f : SameKey(r.link, s.link) => r = s
    BY <1>2, <1>7, <1>9 DEF TxnInv, FreshOK, Taken, SameKey
  <2>5. t.next - 1 = n
    BY <1>3, <1>11
  <2>. QED  BY <1>11, <2>1, <2>2, <2>3, <2>4, <2>5 DEF FreshOK
<1>13. Restored(t, h)
  <2>. SUFFICES ASSUME NEW r \in txn[h].gone, NEW i \in 1..n, FirstFor(want, i, r.link)
                PROVE  Row(r.link, h) \in f
    BY <1>3, <1>11 DEF Restored
  <2>1. CASE i < n
    <3>1. i \in 1..(n - 1)
      BY <1>3, <2>1
    <3>. QED  BY <1>2, <1>8, <3>1 DEF TxnInv, Restored
  <2>2. CASE i = n
    <3>1. r \in rows /\ r \in RowType /\ r.link.owner = txn[h].req.owner
      BY <1>2 DEF IInv, TypeOK, TxnOK, TxnInv, OpenTxn
    <3>2. r.link.item = l.item /\ r.link.value = l.value /\ r.link.owner = l.owner
      <4>1. want[n] = <<r.link.item, r.link.value>>
        BY <2>2 DEF FirstFor
      <4>. HIDE DEF want, n
      <4>2. want[n][1] = r.link.item /\ want[n][2] = r.link.value
        BY <4>1
      <4>. QED  BY <1>5, <3>1, <4>2
    <3>3. r.link = l
      <4>1. PICK o \in Owners : \E k \in ItemsOf(o), v \in ValuesOf(o) :
              r.link = [owner |-> o, item |-> k, value |-> v]
        BY <3>1 DEF RowType, Links
      <4>. QED  BY <1>5, <3>2, <4>1
    <3>4. \A s \in rows \ txn[h].gone : ~SameKey(s.link, l)
      BY <3>1, <3>3 DEF IInv, TypeOK
    <3>5. \A s \in txn[h].fresh : ~SameKey(s.link, l)
      BY <1>2, <2>2, <3>3 DEF TxnInv, FreshOK, FirstFor, SameKey
    <3>. QED  BY <1>10, <3>3, <3>4, <3>5 DEF Taken
  <2>. QED  BY <1>3, <2>1, <2>2
<1>14. TxnInv(t, h) /\ t.pc \in Open
  BY <1>2, <1>11, <1>12, <1>13 DEF TxnInv, Open
<1>15. \A g \in Calls \ {h} : Apart(txn[g], t) /\ Apart(t, txn[g])
  <2>. SUFFICES ASSUME NEW g \in Calls \ {h}
                PROVE  Apart(txn[g], t) /\ Apart(t, txn[g])
    OBVIOUS
  <2>1. Apart(txn[g], txn[h]) /\ Apart(txn[h], txn[g])
    BY DEF IInv
  <2>2. \A q \in txn[g].fresh : ~SameKey(q.link, l)
    BY <1>1 DEF Blocks
  <2>. QED  BY <1>7, <1>9, <1>11, <2>1, <2>2 DEF Apart, SameKey
<1>16. t.gone \subseteq rows
  BY <1>11 DEF IInv, TypeOK, TxnOK
<1>. QED  BY <1>1, <1>14, <1>15, <1>16, OpenStepKeeps

-----------------------------------------------------------------------------
(* What a check reads *)

LEMMA LinkItems ==
  ASSUME NEW l \in Links
  PROVE  l.item \in Items
<1>1. PICK o \in Owners : \E i \in ItemsOf(o), v \in ValuesOf(o) :
        l = [owner |-> o, item |-> i, value |-> v]
  BY DEF Links
<1>2. ItemsOf(o) \subseteq Items
  BY DEF ItemsOf, Items
<1>. QED  BY <1>1, <1>2

LEMMA HeldItems ==
  ASSUME NEW held, held \subseteq Links, NEW u
  PROVE  /\ RolesIn(held, u) \subseteq Items
         /\ \A keys : PermissionsIn(held, keys) \subseteq Items
         /\ \A keys : keys \subseteq Items => Overridden(keys, held, u) \subseteq Items
         /\ Effective(held, u) \subseteq Items
<1>1. \A l \in held : l.item \in Items
  BY LinkItems
<1>2. RolesIn(held, u) \subseteq Items
  BY <1>1 DEF RolesIn
<1>3. \A keys : PermissionsIn(held, keys) \subseteq Items
  BY <1>1 DEF PermissionsIn
<1>4. OverridesIn(held, u, "ALLOW") \subseteq Items
  BY <1>1 DEF OverridesIn
<1>5. \A keys : keys \subseteq Items => Overridden(keys, held, u) \subseteq Items
  BY <1>4 DEF Overridden
<1>6. Effective(held, u) \subseteq Items
  BY <1>3, <1>5 DEF Effective
<1>. QED  BY <1>2, <1>3, <1>5, <1>6

LEMMA StoredLinks ==
  ASSUME IInv
  PROVE  Stored \subseteq Links
BY DEF IInv, TypeOK, Stored

LEMMA CheckWitness ==
  ASSUME NEW k \in CheckType, NEW e \in SUBSET Items
  PROVE  LET n == IF k.commits = 2 THEN 2 ELSE k.commits + 1
             t == [k EXCEPT !.ever = @ \cup e, !.always = @ \cap e, !.commits = n]
         IN  t \in CheckType /\ t.pc = k.pc
<1>. DEFINE n == IF k.commits = 2 THEN 2 ELSE k.commits + 1
<1>1. n \in 0..2
  BY DEF CheckType
<1>. HIDE DEF n
<1>2. k.ever \cup e \in SUBSET Items /\ k.always \cap e \in SUBSET Items
  BY DEF CheckType
<1>3. [k EXCEPT !.ever = @ \cup e, !.always = @ \cap e, !.commits = n] \in CheckType
  BY <1>1, <1>2 DEF CheckType
<1>4. [k EXCEPT !.ever = @ \cup e, !.always = @ \cap e, !.commits = n].pc = k.pc
  BY DEF CheckType
<1>. QED  BY <1>3, <1>4 DEF n

-----------------------------------------------------------------------------
(* A commit *)

LEMMA CommitKeeps ==
  ASSUME IInv, NEW h \in Calls, Commit(h)
  PROVE  IInv'
<1>. DEFINE T == txn[h]
            now == (rows \ T.gone) \cup T.fresh
<1>1. /\ rows' = now /\ DOMAIN txn = Calls
      /\ txn' = [txn EXCEPT ![h] = [Idle EXCEPT !.pc = "done"]]
      /\ T.pc = "inserting" /\ ~(T.next <= Len(T.req.want)) /\ DOMAIN check = Checks
  BY DEF Commit, Step, Over, Inserting, IInv
<1>2. TxnInv(T, h) /\ T \in OpenTxn
  BY <1>1 DEF IInv, Open, TxnInv
<1>3. /\ \A g \in Calls : g # h => txn'[g] = txn[g]
      /\ txn'[h].pc = "done" /\ txn'[h].gone = {} /\ txn'[h].fresh = {}
      /\ txn'[h] = [Idle EXCEPT !.pc = txn'[h].pc]
  BY <1>1 DEF Idle
<1>4. \A g \in Calls : g # h => Apart(txn[g], T) /\ Apart(T, txn[g])
  BY DEF IInv
<1>5. now \subseteq RowType
  BY <1>2 DEF IInv, TypeOK, OpenTxn, RowType
<1>6. \A r, s \in now : SameKey(r.link, s.link) => r = s
  BY <1>2 DEF TxnInv, FreshOK, IInv, TypeOK, SameKey
<1>7. ASSUME NEW g \in Calls, g # h
      PROVE  txn[g].gone \subseteq now
  BY <1>4, <1>7 DEF Apart, IInv, TypeOK, TxnOK
<1>8. TypeOK'
  <2>1. \A g \in Calls : TxnOK(g)'
    BY <1>1, <1>3, <1>7 DEF IInv, TypeOK, TxnOK
  <2>. QED  BY <1>1, <1>5, <1>6, <2>1 DEF TypeOK, RowType
<1>9. ASSUME NEW g \in Calls, txn'[g].pc \in Open
      PROVE  TxnInv(txn[g], g)'
  <2>1. g # h
    BY <1>3, <1>9 DEF Open
  <2>2. TxnInv(txn[g], g) /\ txn'[g] = txn[g]
    BY <1>3, <1>9, <2>1 DEF IInv
  <2>3. \A s \in txn[g].fresh, r \in now \ txn[g].gone : ~SameKey(s.link, r.link)
    BY <1>4, <2>1, <2>2 DEF TxnInv, FreshOK, Apart
  <2>. DEFINE t == txn[g]
  <2>. HIDE DEF now
  <2>4. FreshOK(txn[g], g)'
    <3>1. FreshOK(t, g)
      BY <2>2 DEF TxnInv
    <3>. HIDE DEF t
    <3>2. /\ \A s \in t.fresh :
               /\ s.link.owner = t.req.owner
               /\ \E j \in 1..(t.next - 1) : t.req.want[j][1] = s.link.item
          /\ \A r, s \in t.fresh : SameKey(r.link, s.link) => r = s
      BY <3>1 DEF FreshOK
    <3>3. \A s \in t.fresh, r \in now \ t.gone : ~SameKey(s.link, r.link)
      BY <2>3 DEF t
    <3>4. txn'[g] = t /\ rows' = now
      BY <1>1, <2>2 DEF t
    <3>. QED  BY <3>2, <3>3, <3>4 DEF FreshOK
  <2>5. Restored(txn[g], g)'
    BY <2>2 DEF TxnInv, Restored
  <2>. QED  BY <2>2, <2>4, <2>5 DEF TxnInv
<1>10. \A f, g \in Calls : f # g => Apart(txn[f], txn[g])'
  BY <1>3 DEF IInv, Apart
<1>11. AgreedStays'
  <2>. SUFFICES ASSUME NEW l \in FirstLinks, Agreed(l)
                PROVE  \E r \in now : r.link = l
    BY <1>1 DEF AgreedStays, Stored
  <2>1. PICK r \in rows : r.link = l
    BY DEF IInv, AgreedStays, Stored
  <2>2. CASE r \in T.gone
    <3>1. r \in T.seen /\ T.req \in Requests /\ T.req.owner = l.owner
      BY <1>2, <2>1, <2>2 DEF TxnInv, OpenTxn
    <3>2. T.req.mode = "replace"
      BY <1>2, <3>1, AccessAssumption DEF TxnInv
    <3>3. PICK i \in DOMAIN T.req.want : FirstFor(T.req.want, i, l)
      BY <3>1, <3>2 DEF Agreed, FirstFor
    <3>4. i \in 1..(T.next - 1)
      BY <1>1, <1>2, <3>1, AccessAssumption DEF OpenTxn
    <3>5. Row(l, h) \in T.fresh
      BY <1>2, <2>1, <2>2, <3>3, <3>4 DEF TxnInv, Restored
    <3>. QED  BY <3>5 DEF Row
  <2>. QED  BY <2>1, <2>2
<1>12. ASSUME NEW c \in Checks
       PROVE  /\ CheckOK(check[c])'
              /\ check'[c].pc = "done" => check'[c] = check[c]
  <2>1. CheckOK(check[c])
    BY DEF IInv
  <2>2. check[c].pc \in {"idle", "done"} => check'[c] = check[c]
    BY DEF Commit, Witness
  <2>3. ASSUME check[c].pc \notin {"idle", "done"}
        PROVE  CheckOK(check'[c]) /\ check'[c].pc # "done"
    <3>. DEFINE e == Effective({r.link : r \in now}, check[c].user)
                n == IF check[c].commits = 2 THEN 2 ELSE check[c].commits + 1
                k == [check[c] EXCEPT !.ever = @ \cup e, !.always = @ \cap e, !.commits = n]
    <3>1. check'[c] = k
      BY <2>3 DEF Commit, Witness
    <3>2. {r.link : r \in now} \subseteq Links
      BY <1>5 DEF RowType
    <3>3. e \in SUBSET Items
      BY <3>2, HeldItems
    <3>4. check[c] \in CheckType
      BY <2>1, <2>3 DEF CheckOK
    <3>. HIDE DEF e
    <3>5. k \in CheckType /\ k.pc = check[c].pc
      BY <3>3, <3>4, CheckWitness
    <3>. HIDE DEF k
    <3>. QED  BY <2>3, <3>1, <3>5 DEF CheckOK
  <2>4. CheckOK(check'[c])
    BY <2>1, <2>2, <2>3
  <2>. QED  BY <2>2, <2>3, <2>4 DEF CheckOK
<1>13. DOMAIN check' = Checks
  BY DEF Commit, Witness
<1>14. DeniedIsNeverFound'
  BY <1>12 DEF IInv, DeniedIsNeverFound
<1>15. DOMAIN txn' = Calls
  BY <1>1
<1>. QED  BY <1>8, <1>9, <1>10, <1>11, <1>12, <1>13, <1>14, <1>15 DEF IInv

-----------------------------------------------------------------------------
(* A check reads on *)

LEMMA CheckKeeps ==
  ASSUME IInv, NEW c \in Checks, NEW k, Reads(c, k), CheckOK(k),
         k.pc = "done" => \A p \in k.keys :
           LET l == [owner |-> <<"overrides", k.user>>, item |-> p, value |-> "DENY"]
           IN ~(l \in FirstLinks /\ Agreed(l))
  PROVE  IInv'
<1>1. /\ rows' = rows /\ txn' = txn /\ DOMAIN check = Checks
      /\ check' = [check EXCEPT ![c] = k]
  BY DEF Reads, IInv
<1>2. \A d \in Checks : check'[d] = IF d = c THEN k ELSE check[d]
  BY <1>1
<1>3. \A d \in Checks : CheckOK(check'[d])
  BY <1>2 DEF IInv
<1>4. \A d \in Checks : CheckOK(check[d])'
  BY <1>3 DEF CheckOK
<1>5. DeniedIsNeverFound'
  BY <1>2 DEF IInv, DeniedIsNeverFound
<1>6. TypeOK' /\ AgreedStays'
  BY <1>1 DEF IInv, TypeOK, TxnOK, AgreedStays, Stored
<1>7. \A h \in Calls : txn'[h].pc \in Open => TxnInv(txn[h], h)'
  BY <1>1 DEF IInv, TxnInv, FreshOK, Restored
<1>8. \A g, h \in Calls : g # h => Apart(txn[g], txn[h])'
  BY <1>1 DEF IInv, Apart
<1>. QED  BY <1>1, <1>4, <1>5, <1>6, <1>7, <1>8 DEF IInv

LEMMA ReadKeeps ==
  ASSUME IInv, NEW c \in Checks,
         (\E u \in Users : ReadRoles(c, u)) \/ ReadRolePermissions(c) \/ ReadOverrides(c)
  PROVE  IInv'
<1>1. CheckOK(check[c])
  BY DEF IInv
<1>2. CASE \E u \in Users : ReadRoles(c, u)
  <2>1. PICK u \in Users : ReadRoles(c, u)
    BY <1>2
  <2>. DEFINE k == [pc |-> "roles", user |-> u, keys |-> RolesIn(Stored, u), commits |-> 0,
                    ever |-> Effective(Stored, u), always |-> Effective(Stored, u)]
  <2>2. Reads(c, k)
    BY <2>1 DEF ReadRoles
  <2>3. RolesIn(Stored, u) \subseteq Items /\ Effective(Stored, u) \subseteq Items
    BY StoredLinks, HeldItems
  <2>4. CheckOK(k) /\ k.pc # "done"
    BY <2>3 DEF CheckOK, CheckType
  <2>. HIDE DEF k
  <2>. QED  BY <2>2, <2>4, CheckKeeps
<1>3. CASE ReadRolePermissions(c)
  <2>. DEFINE q == PermissionsIn(Stored, check[c].keys)
              k == [check[c] EXCEPT !.pc = "permissions", !.keys = q]
  <2>1. Reads(c, k) /\ check[c].pc = "roles"
    BY <1>3 DEF ReadRolePermissions
  <2>2. q \in SUBSET Items
    BY StoredLinks, HeldItems
  <2>3. check[c] \in CheckType
    BY <1>1, <2>1 DEF CheckOK
  <2>. HIDE DEF q
  <2>4. k \in CheckType /\ k.pc = "permissions"
    BY <2>2, <2>3 DEF CheckType
  <2>. HIDE DEF k
  <2>. QED  BY <2>1, <2>4, CheckKeeps DEF CheckOK
<1>4. CASE ReadOverrides(c)
  <2>. DEFINE u == check[c].user
              q == Overridden(check[c].keys, Stored, u)
              k == [check[c] EXCEPT !.pc = "done", !.keys = q]
  <2>1. Reads(c, k) /\ check[c].pc = "permissions"
    BY <1>4 DEF ReadOverrides
  <2>2. ASSUME NEW p \in q,
               [owner |-> <<"overrides", u>>, item |-> p, value |-> "DENY"] \in FirstLinks,
               Agreed([owner |-> <<"overrides", u>>, item |-> p, value |-> "DENY"])
        PROVE  FALSE
    <3>. DEFINE l == [owner |-> <<"overrides", u>>, item |-> p, value |-> "DENY"]
    <3>1. l \in Stored
      BY <2>2 DEF IInv, AgreedStays
    <3>2. p \in OverridesIn(Stored, u, "DENY")
      BY <3>1 DEF OverridesIn
    <3>. QED  BY <3>2 DEF Overridden
  <2>3. check[c] \in CheckType /\ check[c].keys \subseteq Items
    BY <1>1, <2>1 DEF CheckOK, CheckType
  <2>4. q \in SUBSET Items
    BY <2>3, StoredLinks, HeldItems
  <2>. HIDE DEF q
  <2>5. k \in CheckType /\ k.user = u /\ k.keys = q
    BY <2>3, <2>4 DEF CheckType
  <2>. HIDE DEF k
  <2>. QED  BY <2>1, <2>2, <2>5, CheckKeeps DEF CheckOK
<1>. QED  BY <1>2, <1>3, <1>4

-----------------------------------------------------------------------------
(* The theorems *)

LEMMA InitHolds == Init => IInv
<1>. SUFFICES ASSUME Init
              PROVE  IInv
  OBVIOUS
<1>1. \A h \in Calls : txn[h] = Idle
  BY DEF Init
<1>2. rows \subseteq RowType
  BY AccessAssumption DEF Init, Row, RowType
<1>3. \A r, s \in rows : SameKey(r.link, s.link) => r = s
  BY AccessAssumption DEF Init, Row, SameKey
<1>4. \A h \in Calls : TxnOK(h)
  BY <1>1 DEF TxnOK, Idle
<1>5. AgreedStays
  <2>. SUFFICES ASSUME NEW l \in FirstLinks
                PROVE  \E r \in rows : r.link = l
    BY DEF AgreedStays, Stored
  <2>1. Row(l, "seed") \in rows /\ Row(l, "seed").link = l
    BY DEF Init, Row
  <2>. QED  BY <2>1
<1>6. \A c \in Checks : check[c] = [pc |-> "idle"]
  BY DEF Init
<1>7. \A c \in Checks : CheckOK(check[c])
  BY <1>6 DEF CheckOK
<1>8. DeniedIsNeverFound
  BY <1>6 DEF DeniedIsNeverFound
<1>9. /\ \A g, h \in Calls : Apart(txn[g], txn[h])
      /\ \A h \in Calls : txn[h].pc \notin Open
  BY <1>1 DEF Idle, Apart, Open
<1>. QED  BY <1>2, <1>3, <1>4, <1>5, <1>7, <1>8, <1>9 DEF IInv, TypeOK, RowType, Init

LEMMA NextKeeps == IInv /\ [Next]_vars => IInv'
<1>. SUFFICES ASSUME IInv, [Next]_vars
              PROVE  IInv'
  OBVIOUS
<1>1. ASSUME NEW h \in Calls, NEW r \in Requests, Begin(h, r)
      PROVE  IInv'
  BY <1>1, BeginKeeps
<1>2. ASSUME NEW h \in Calls, Statement(h)
      PROVE  IInv'
  <2>1. CASE AbortDeadlock(h)
    <3>1. Step(h, [Idle EXCEPT !.pc = "failed"]) /\ NoCommit
      BY <2>1 DEF AbortDeadlock, Over
    <3>. QED  BY <3>1, EndKeeps
  <2>. QED  BY <1>2, <2>1, DeleteKeeps, InsertKeeps, CommitKeeps DEF Statement
<1>3. ASSUME NEW h \in Calls, Fail(h)
      PROVE  IInv'
  <2>1. Step(h, [Idle EXCEPT !.pc = "failed"]) /\ NoCommit
    BY <1>3 DEF Fail, Over
  <2>. QED  BY <2>1, EndKeeps
<1>4. ASSUME NEW c \in Checks,
             (\E u \in Users : ReadRoles(c, u)) \/ ReadRolePermissions(c) \/ ReadOverrides(c)
      PROVE  IInv'
  BY <1>4, ReadKeeps
<1>5. CASE UNCHANGED vars
  <2>1. rows' = rows /\ txn' = txn /\ check' = check
    BY <1>5 DEF vars
  <2>2. \A h \in Calls : txn'[h].pc \in Open => TxnInv(txn[h], h)'
    BY <2>1 DEF IInv, TxnInv, FreshOK, Restored
  <2>3. TypeOK' /\ AgreedStays' /\ DeniedIsNeverFound'
    BY <2>1 DEF IInv, TypeOK, TxnOK, AgreedStays, Stored, DeniedIsNeverFound
  <2>4. /\ \A g, h \in Calls : g # h => Apart(txn[g], txn[h])'
        /\ \A c \in Checks : CheckOK(check[c])'
    BY <2>1 DEF IInv, Apart, CheckOK
  <2>. QED  BY <2>1, <2>2, <2>3, <2>4 DEF IInv
<1>. QED  BY <1>1, <1>2, <1>3, <1>4, <1>5 DEF Next

(* The invariant holds in every reachable state, whatever is requested, and  *)
(* however many changes overlap, fail or wait for each other.                *)
THEOREM LinksInvariant == Spec => []IInv
BY InitHolds, NextKeeps, PTL DEF Spec

(* Rows are unique by key, and deleted rows are there until the commit.      *)
THEOREM TypeCorrect == Spec => []TypeOK
<1>1. IInv => TypeOK
  BY DEF IInv
<1>. QED  BY <1>1, LinksInvariant, PTL

(* A link that all replacements ask for is never missing.                    *)
THEOREM AgreedKept == Spec => []AgreedStays
<1>1. IInv => AgreedStays
  BY DEF IInv
<1>. QED  BY <1>1, LinksInvariant, PTL

(* What is denied by the seed and by every list since is never found.        *)
THEOREM DeniedKept == Spec => []DeniedIsNeverFound
<1>1. IInv => DeniedIsNeverFound
  BY DEF IInv
<1>. QED  BY <1>1, LinksInvariant, PTL

-----------------------------------------------------------------------------
(* A change is seen whole *)

(* What a check will find if nothing else commits *)
Answer(k) ==
  IF k.pc = "roles" THEN Overridden(PermissionsIn(Stored, k.keys), Stored, k.user)
  ELSE IF k.pc = "permissions" THEN Overridden(k.keys, Stored, k.user)
  ELSE k.keys

(* A check during which nothing has committed                                *)
Undisturbed(k) ==
  /\ k.ever = Effective(Stored, k.user) /\ k.always = Effective(Stored, k.user)
  /\ k.pc = "roles" => k.keys = RolesIn(Stored, k.user)
  /\ k.pc = "permissions" => k.keys = PermissionsIn(Stored, RolesIn(Stored, k.user))

WholeOK(k) ==
  /\ k.pc # "idle" /\ k.commits <= 1 =>
       k.always \subseteq Answer(k) /\ Answer(k) \subseteq k.ever
  /\ k.pc \in {"roles", "permissions"} /\ k.commits = 0 => Undisturbed(k)

WholeInv == \A c \in Checks : WholeOK(check[c])

(* Links that differ in those of one owner only                              *)
DifferAt(o, old, new) == \A l \in old \cup new : l.owner # o => (l \in old <=> l \in new)

LEMMA OneOwner ==
  ASSUME NEW old, NEW new, NEW o, DifferAt(o, old, new), NEW u
  PROVE  /\ o # <<"roles", u>> => RolesIn(new, u) = RolesIn(old, u)
         /\ (\A k : o # <<"permissions", k>>) =>
              \A keys : PermissionsIn(new, keys) = PermissionsIn(old, keys)
         /\ o # <<"overrides", u>> =>
              \A keys : Overridden(keys, new, u) = Overridden(keys, old, u)
<1>1. ASSUME o # <<"roles", u>>
      PROVE  RolesIn(new, u) = RolesIn(old, u)
  <2>1. {k \in new : k.owner = <<"roles", u>>} = {k \in old : k.owner = <<"roles", u>>}
    BY <1>1 DEF DifferAt
  <2>. QED  BY <2>1 DEF RolesIn
<1>2. ASSUME \A k : o # <<"permissions", k>>, NEW keys
      PROVE  PermissionsIn(new, keys) = PermissionsIn(old, keys)
  <2>1. {k \in new : \E r \in keys : k.owner = <<"permissions", r>>}
          = {k \in old : \E r \in keys : k.owner = <<"permissions", r>>}
    BY <1>2 DEF DifferAt
  <2>. QED  BY <2>1 DEF PermissionsIn
<1>3. ASSUME o # <<"overrides", u>>, NEW keys
      PROVE  Overridden(keys, new, u) = Overridden(keys, old, u)
  <2>1. ASSUME NEW e
        PROVE  OverridesIn(new, u, e) = OverridesIn(old, u, e)
    <3>1. {k \in new : k.owner = <<"overrides", u>> /\ k.value = e}
            = {k \in old : k.owner = <<"overrides", u>> /\ k.value = e}
      BY <1>3 DEF DifferAt
    <3>. QED  BY <3>1 DEF OverridesIn
  <2>. QED  BY <2>1 DEF Overridden
<1>. QED  BY <1>1, <1>2, <1>3

(* A check that one change overtakes finds what was held before or after.    *)
LEMMA BeforeOrAfter ==
  ASSUME NEW old, NEW new, NEW o, DifferAt(o, old, new), NEW u
  PROVE  /\ Overridden(PermissionsIn(new, RolesIn(old, u)), new, u)
              \in {Effective(old, u), Effective(new, u)}
         /\ Overridden(PermissionsIn(old, RolesIn(old, u)), new, u)
              \in {Effective(old, u), Effective(new, u)}
<1>1. CASE o = <<"roles", u>>
  <2>1. o # <<"overrides", u>> /\ \A k : o # <<"permissions", k>>
    BY <1>1
  <2>. QED  BY <2>1, OneOwner DEF Effective
<1>2. CASE o = <<"overrides", u>>
  <2>1. o # <<"roles", u>> /\ \A k : o # <<"permissions", k>>
    BY <1>2
  <2>. QED  BY <2>1, OneOwner DEF Effective
<1>3. CASE o # <<"roles", u>> /\ o # <<"overrides", u>>
  BY <1>3, OneOwner DEF Effective
<1>. QED  BY <1>1, <1>2, <1>3

(* A change that commits is one of the links of its owner.                   *)
LEMMA CommitsOneOwner ==
  ASSUME IInv, NEW h \in Calls, Commit(h)
  PROVE  /\ Stored' = {r.link : r \in (rows \ txn[h].gone) \cup txn[h].fresh}
         /\ DifferAt(txn[h].req.owner, Stored, Stored')
<1> DEFINE T == txn[h]
           now == (rows \ T.gone) \cup T.fresh
<1>1. rows' = now /\ T.pc = "inserting"
  BY DEF Commit
<1>2. TxnInv(T, h)
  BY <1>1 DEF IInv, Open
<1>3. \A r \in T.gone \cup T.fresh : r.link.owner = T.req.owner
  BY <1>2 DEF TxnInv, FreshOK
<1>4. Stored' = {r.link : r \in now}
  BY <1>1 DEF Stored
<1>5. ASSUME NEW l \in Stored \cup Stored', l.owner # T.req.owner
      PROVE  l \in Stored <=> l \in Stored'
  BY <1>3, <1>4, <1>5 DEF Stored
<1>. QED  BY <1>4, <1>5 DEF DifferAt

LEMMA CommitKeepsWhole ==
  ASSUME IInv, WholeInv, NEW h \in Calls, Commit(h), NEW c \in Checks
  PROVE  WholeOK(check[c])'
<1> DEFINE old == Stored
           new == Stored'
           k == check[c]
           e == Effective(new, k.user)
<1>1. DifferAt(txn[h].req.owner, old, new)
  BY CommitsOneOwner
<1>2. WholeOK(k) /\ CheckOK(k)
  BY DEF WholeInv, IInv
<1>3. CASE k.pc \in {"idle", "done"}
  <2>1. check'[c] = k
    BY <1>3 DEF Commit, Witness
  <2>. QED  BY <1>2, <1>3, <2>1 DEF WholeOK, Answer
<1>4. CASE k.pc \notin {"idle", "done"}
  <2>1. check'[c] = [k EXCEPT !.ever = @ \cup e, !.always = @ \cap e,
                              !.commits = IF @ = 2 THEN 2 ELSE @ + 1]
    BY <1>4, CommitsOneOwner DEF Commit, Witness
  <2>2. k \in CheckType /\ k.pc \in {"roles", "permissions"}
    BY <1>2, <1>4 DEF CheckOK, CheckType
  <2>3. /\ check'[c].pc = k.pc /\ check'[c].keys = k.keys /\ check'[c].user = k.user
        /\ check'[c].ever = k.ever \cup e /\ check'[c].always = k.always \cap e
        /\ check'[c].commits \in 1..2
        /\ check'[c].commits <= 1 => k.commits = 0
    BY <2>1, <2>2 DEF CheckType
  <2>4. ASSUME k.commits = 0
        PROVE  /\ k.always \cap e \subseteq Answer(check[c])'
               /\ Answer(check[c])' \subseteq k.ever \cup e
    <3>1. Undisturbed(k)
      BY <1>2, <2>2, <2>4 DEF WholeOK
    <3>2. Answer(check[c])' =
            IF k.pc = "roles" THEN Overridden(PermissionsIn(new, k.keys), new, k.user)
            ELSE Overridden(k.keys, new, k.user)
      BY <2>2, <2>3 DEF Answer
    <3>3. Answer(check[c])' \in {Effective(old, k.user), e}
      <4>. HIDE DEF old, new, k
      <4>1. /\ Overridden(PermissionsIn(new, RolesIn(old, k.user)), new, k.user)
                 \in {Effective(old, k.user), Effective(new, k.user)}
            /\ Overridden(PermissionsIn(old, RolesIn(old, k.user)), new, k.user)
                 \in {Effective(old, k.user), Effective(new, k.user)}
        BY <1>1, BeforeOrAfter
      <4>. QED  BY <2>2, <3>1, <3>2, <4>1 DEF Undisturbed, old
    <3>. QED  BY <3>1, <3>3 DEF Undisturbed
  <2>5. check'[c].commits # 0
    BY <2>3
  <2>6. check'[c].commits <= 1 => /\ check'[c].always \subseteq Answer(check[c])'
                                  /\ Answer(check[c])' \subseteq check'[c].ever
    BY <2>3, <2>4
  <2>. QED  BY <2>5, <2>6 DEF WholeOK
<1>. QED  BY <1>3, <1>4

LEMMA ReadKeepsWhole ==
  ASSUME IInv, WholeInv, NEW c \in Checks,
         (\E u \in Users : ReadRoles(c, u)) \/ ReadRolePermissions(c) \/ ReadOverrides(c)
  PROVE  WholeInv'
<1>1. rows' = rows /\ Stored' = Stored
  BY DEF ReadRoles, ReadRolePermissions, ReadOverrides, Reads, Stored
<1>2. \A d \in Checks \ {c} : check'[d] = check[d]
  BY DEF ReadRoles, ReadRolePermissions, ReadOverrides, Reads, IInv
<1>3. WholeOK(check'[c])
  <2>1. CASE \E u \in Users : ReadRoles(c, u)
    <3>1. PICK u \in Users : ReadRoles(c, u)
      BY <2>1
    <3>2. check'[c] = [pc |-> "roles", user |-> u, keys |-> RolesIn(Stored, u), commits |-> 0,
                       ever |-> Effective(Stored, u), always |-> Effective(Stored, u)]
      BY <3>1 DEF ReadRoles, Reads, IInv
    <3>3. Answer(check'[c]) = Effective(Stored, u)
      BY <3>2 DEF Answer, Effective
    <3>. QED  BY <3>2, <3>3 DEF WholeOK, Undisturbed
  <2>2. CASE ReadRolePermissions(c) \/ ReadOverrides(c)
    <3>1. check[c] \in CheckType /\ WholeOK(check[c])
      BY <2>2 DEF IInv, CheckOK, WholeInv, ReadRolePermissions, ReadOverrides
    <3>2. CASE ReadRolePermissions(c)
      <4>1. /\ check[c].pc = "roles"
            /\ check'[c] = [check[c] EXCEPT !.pc = "permissions",
                                            !.keys = PermissionsIn(Stored, check[c].keys)]
        BY <3>2 DEF ReadRolePermissions, Reads, IInv
      <4>2. /\ check'[c].pc = "permissions" /\ check'[c].user = check[c].user
            /\ check'[c].keys = PermissionsIn(Stored, check[c].keys)
            /\ check'[c].commits = check[c].commits
            /\ check'[c].ever = check[c].ever /\ check'[c].always = check[c].always
        BY <3>1, <4>1 DEF CheckType
      <4>3. Answer(check'[c]) = Answer(check[c])
        BY <4>1, <4>2 DEF Answer
      <4>. QED  BY <3>1, <4>1, <4>2, <4>3 DEF WholeOK, Undisturbed
    <3>3. CASE ReadOverrides(c)
      <4>1. /\ check[c].pc = "permissions"
            /\ check'[c] = [check[c] EXCEPT !.pc = "done",
                              !.keys = Overridden(check[c].keys, Stored, check[c].user)]
        BY <3>3 DEF ReadOverrides, Reads, IInv
      <4>2. /\ check'[c].pc = "done" /\ check'[c].commits = check[c].commits
            /\ check'[c].keys = Overridden(check[c].keys, Stored, check[c].user)
            /\ check'[c].ever = check[c].ever /\ check'[c].always = check[c].always
        BY <3>1, <4>1 DEF CheckType
      <4>3. Answer(check'[c]) = Answer(check[c])
        BY <4>1, <4>2 DEF Answer
      <4>. QED  BY <3>1, <4>1, <4>2, <4>3 DEF WholeOK
    <3>. QED  BY <2>2, <3>2, <3>3
  <2>. QED  BY <2>1, <2>2
<1>. QED  BY <1>1, <1>2, <1>3 DEF WholeInv, WholeOK, Answer, Undisturbed

(* A check during which at most one change commits finds what was held       *)
(* before it or what was held after it, for any links, requests and overlap. *)
THEOREM ChangesAreSeenWhole == Spec => []CheckSeesWholeChanges
<1>1. Init => WholeInv
  BY DEF Init, WholeInv, WholeOK
<1>2. IInv /\ WholeInv /\ [Next]_vars => WholeInv'
  <2>1. SUFFICES ASSUME IInv, WholeInv, [Next]_vars
                 PROVE  WholeInv'
    OBVIOUS
  <2>2. CASE rows' = rows /\ check' = check
    <3>1. Stored' = Stored
      BY <2>2 DEF Stored
    <3>. QED  BY <2>1, <2>2, <3>1 DEF WholeInv, WholeOK, Answer, Undisturbed
  <2>3. ASSUME NEW h \in Calls, Commit(h)
        PROVE  WholeInv'
    BY <2>1, <2>3, CommitKeepsWhole DEF WholeInv
  <2>4. ASSUME NEW c \in Checks,
               (\E u \in Users : ReadRoles(c, u)) \/ ReadRolePermissions(c) \/ ReadOverrides(c)
        PROVE  WholeInv'
    BY <2>1, <2>4, ReadKeepsWhole
  <2>5. ASSUME NEW h \in Calls,
               \/ \E r \in Requests : Begin(h, r)
               \/ DeleteSeen(h) \/ InsertNext(h) \/ AbortDeadlock(h) \/ Fail(h)
        PROVE  rows' = rows /\ check' = check
    BY <2>5 DEF Begin, DeleteSeen, InsertNext, AbortDeadlock, Fail, NoCommit
  <2>. QED  BY <2>1, <2>2, <2>3, <2>4, <2>5 DEF Next, Statement, vars
<1>3. WholeInv => CheckSeesWholeChanges
  BY DEF WholeInv, WholeOK, Answer, CheckSeesWholeChanges
<1>. QED  BY <1>1, <1>2, <1>3, LinksInvariant, PTL DEF Spec

-----------------------------------------------------------------------------
(* The amenities of units: UnitAmenities and its scenarios                    *)

Link == [link : Units \X Amenities, by : Edits \cup {"first"}]

Begun == [pc : InFlight \cup {"unfit", "conflict", "done"}, req : Bodies,
          chosen : SUBSET Amenities, seen : SUBSET Link, gone : SUBSET Link, fresh : SUBSET Link]

UnitsType ==
  /\ links \subseteq Link
  /\ active \subseteq Amenities
  /\ data = [u \in Units |-> [f \in Fields |-> data[u][f]]]
  /\ edit = [h \in Edits |-> edit[h]]
  /\ \A h \in Edits : edit[h] = [pc |-> "new"] \/ edit[h] \in Begun

Within(k) == UnitBuilding[k[1]] = AmenityBuilding[k[2]]

(* What has passed assertAmenityIds is of the unit's building                *)
CallWithin(t) ==
  /\ t.pc \in {"writing"} \cup InTransaction =>
       \A a \in t.chosen : AmenityBuilding[a] = UnitBuilding[t.req.unit]
  /\ t.pc = "committing" => \A l \in t.fresh : Within(l.link)

UnitsInv ==
  /\ UnitsType
  /\ \A l \in links : Within(l.link)
  /\ \A h \in Edits : CallWithin(edit[h])
  /\ UpdatesMerge

LEMMA BegunCall ==
  ASSUME UnitsType, NEW h \in Edits, edit[h].pc # "new"
  PROVE  edit[h] \in Begun /\ edit[h].req \in Bodies /\ edit[h].req.unit \in Units
<1>1. edit[h] \in Begun
  BY DEF UnitsType
<1>. QED  BY <1>1, UnitsAssumption DEF Begun

LEMMA UnitsInvInit == UnitsInit => UnitsInv
<1>. SUFFICES ASSUME UnitsInit PROVE UnitsInv
  OBVIOUS
<1>1. /\ links = {[link |-> l, by |-> "first"] : l \in FirstAmenityLinks}
      /\ active = Amenities
      /\ data = [u \in Units |-> [f \in Fields |-> "none"]]
      /\ edit = [h \in Edits |-> [pc |-> "new"]]
  BY DEF UnitsInit
<1>2. \A l \in links : l \in Link /\ Within(l.link)
  BY <1>1, UnitsAssumption DEF Link, Within
<1>3. \A h \in Edits : edit[h] = [pc |-> "new"] /\ edit[h].pc = "new"
  BY <1>1
<1>4. data = [u \in Units |-> [f \in Fields |-> data[u][f]]]
  BY <1>1
<1>5. edit = [h \in Edits |-> edit[h]]
  BY <1>1
<1>6. UnitsType
  BY <1>1, <1>2, <1>3, <1>4, <1>5 DEF UnitsType
<1>. QED  BY <1>2, <1>3, <1>6
             DEF UnitsInv, CallWithin, UpdatesMerge, InTransaction, HoldsLinks

(* One call goes on, and commits nothing.                                    *)
LEMMA OneCallGoes ==
  ASSUME UnitsInv, NEW h \in Edits, NEW t \in Begun, Goes(h, t),
         UNCHANGED unitRows,
         CallWithin(t), t.pc # "done", edit[h].pc # "done"
  PROVE  UnitsInv'
<1>1. /\ edit' = [edit EXCEPT ![h] = t]
      /\ data' = data /\ links' = links /\ active' = active
  BY DEF Goes, unitRows, others
<1>2. edit = [g \in Edits |-> edit[g]]
  BY DEF UnitsInv, UnitsType
<1>3. \A g \in Edits : edit'[g] = IF g = h THEN t ELSE edit[g]
  BY <1>1, <1>2
<1>4. edit' = [g \in Edits |-> edit'[g]]
  BY <1>1, <1>2
<1>5. UnitsType'
  BY <1>1, <1>3, <1>4 DEF UnitsInv, UnitsType
<1>6. (\A g \in Edits : CallWithin(edit[g]))'
  BY <1>3 DEF UnitsInv, CallWithin, Within
<1>7. \A g \in Edits : edit'[g].pc = "done" <=> edit[g].pc = "done"
  BY <1>3
<1>8. \A g \in Edits : edit[g].pc = "done" => edit'[g] = edit[g]
  BY <1>3
<1>9. (UpdatesMerge)'
  BY <1>1, <1>7, <1>8 DEF UnitsInv, UpdatesMerge, Names
<1>. QED  BY <1>1, <1>5, <1>6, <1>9 DEF UnitsInv, Within

LEMMA ReadingGoes ==
  ASSUME UnitsInv, NEW h \in Edits,
         (\E r \in Bodies : Call(h, r)) \/ GetDefaultAmenityIds(h) \/ AssertAmenityIds(h)
  PROVE  UnitsInv'
<1>1. ASSUME NEW r \in Bodies, Call(h, r)
      PROVE  UnitsInv'
  <2> DEFINE t == [pc |-> IF r.amenities # Omitted THEN "checking"
                          ELSE IF r.op = "create" THEN "defaults" ELSE "writing",
                   req |-> r, chosen |-> IF r.amenities = Omitted THEN {} ELSE r.amenities,
                   seen |-> {}, gone |-> {}, fresh |-> {}]
  <2>1. Goes(h, t) /\ UNCHANGED unitRows /\ edit[h].pc = "new"
    BY <1>1 DEF Call
  <2>2. t.pc \in {"checking", "defaults", "writing"} /\ (t.pc = "writing" => t.chosen = {})
    OBVIOUS
  <2>3. t.chosen \subseteq Amenities
    BY UnitsAssumption
  <2>4. t \in Begun
    BY <2>2, <2>3 DEF Begun, InFlight
  <2> HIDE DEF t
  <2>5. CallWithin(t)
    BY <2>2 DEF CallWithin, InTransaction, HoldsLinks
  <2>. QED  BY <2>1, <2>2, <2>4, <2>5, OneCallGoes
<1>2. CASE GetDefaultAmenityIds(h)
  <2> DEFINE ids == {a \in active \cap default :
                       AmenityBuilding[a] = UnitBuilding[edit[h].req.unit]}
             t == [edit[h] EXCEPT !.pc = "checking", !.chosen = ids]
  <2>1. Goes(h, t) /\ UNCHANGED unitRows /\ edit[h].pc = "defaults"
    BY <1>2 DEF GetDefaultAmenityIds
  <2>2. edit[h] \in Begun /\ ids \in SUBSET Amenities
    BY <2>1, BegunCall DEF UnitsInv, UnitsType
  <2> HIDE DEF ids
  <2>3. t \in Begun /\ t.pc = "checking"
    BY <2>2 DEF Begun, InFlight
  <2> HIDE DEF t
  <2>4. CallWithin(t)
    BY <2>3 DEF CallWithin, InTransaction, HoldsLinks
  <2>. QED  BY <2>1, <2>3, <2>4, OneCallGoes
<1>3. CASE AssertAmenityIds(h)
  <2> DEFINE fit == \A a \in edit[h].chosen : Fits(a, UnitBuilding[edit[h].req.unit])
             t == [edit[h] EXCEPT !.pc = IF fit THEN "writing" ELSE "unfit"]
  <2>1. Goes(h, t) /\ UNCHANGED unitRows /\ edit[h].pc = "checking"
    BY <1>3 DEF AssertAmenityIds, To
  <2>2. edit[h] \in Begun
    BY <2>1, BegunCall DEF UnitsInv
  <2>3. /\ t \in Begun /\ t.pc = (IF fit THEN "writing" ELSE "unfit")
        /\ t.chosen = edit[h].chosen /\ t.req = edit[h].req
    BY <2>2 DEF Begun, InFlight
  <2> HIDE DEF t
  <2>4. CallWithin(t)
    BY <2>3 DEF CallWithin, Fits, InTransaction, HoldsLinks
  <2>. QED  BY <2>1, <2>3, <2>4, OneCallGoes
<1>. QED  BY <1>1, <1>2, <1>3

LEMMA TransactionGoes ==
  ASSUME UnitsInv, NEW h \in Edits,
         WriteUnit(h) \/ SnapshotLinks(h) \/ DeleteLinks(h)
  PROVE  UnitsInv'
<1>1. edit[h].pc \in {"writing", "snapshot", "deleting"}
  BY DEF WriteUnit, SnapshotLinks, DeleteLinks
<1>2. edit[h] \in Begun
  BY <1>1, BegunCall DEF UnitsInv
<1>3. \A a \in edit[h].chosen : AmenityBuilding[a] = UnitBuilding[edit[h].req.unit]
  BY <1>1 DEF UnitsInv, CallWithin, InTransaction
<1>4. \A t \in Begun : t.chosen = edit[h].chosen /\ t.req = edit[h].req /\ t.pc # "committing"
                         => CallWithin(t)
  BY <1>3 DEF CallWithin
<1>5. CASE WriteUnit(h)
  <2> DEFINE on(p) == [edit[h] EXCEPT !.pc = p]
  <2>1. /\ UNCHANGED unitRows
        /\ Goes(h, on("conflict")) \/ Goes(h, on("snapshot")) \/ Goes(h, on("inserting"))
    BY <1>5 DEF WriteUnit, To
  <2>2. \A p \in {"conflict", "snapshot", "inserting"} :
          on(p) \in Begun /\ on(p).pc = p /\ on(p).chosen = edit[h].chosen /\ on(p).req = edit[h].req
    BY <1>2 DEF Begun, InFlight, InTransaction, HoldsLinks
  <2> HIDE DEF on
  <2>3. \A p \in {"conflict", "snapshot", "inserting"} : CallWithin(on(p))
    BY <1>4, <2>2
  <2>4. ASSUME NEW p \in {"conflict", "snapshot", "inserting"}, Goes(h, on(p))
        PROVE  UnitsInv'
    BY <1>1, <2>1, <2>2, <2>3, <2>4, OneCallGoes
  <2>. QED  BY <2>1, <2>4
<1>6. CASE SnapshotLinks(h)
  <2> DEFINE t == [edit[h] EXCEPT !.pc = "deleting", !.seen = LinksOf(edit[h].req.unit)]
  <2>1. Goes(h, t) /\ UNCHANGED unitRows
    BY <1>6 DEF SnapshotLinks
  <2>2. LinksOf(edit[h].req.unit) \in SUBSET Link
    BY DEF LinksOf, UnitsInv, UnitsType
  <2>3. t \in Begun /\ t.pc = "deleting" /\ t.chosen = edit[h].chosen /\ t.req = edit[h].req
    BY <1>2, <2>2 DEF Begun, InFlight, InTransaction
  <2> HIDE DEF t
  <2>4. CallWithin(t)
    BY <1>4, <2>3
  <2>. QED  BY <1>1, <2>1, <2>3, <2>4, OneCallGoes
<1>7. CASE DeleteLinks(h)
  <2> DEFINE t == [edit[h] EXCEPT !.pc = "inserting", !.gone = edit[h].seen \cap links]
  <2>1. Goes(h, t) /\ UNCHANGED unitRows
    BY <1>7 DEF DeleteLinks
  <2>2. edit[h].seen \cap links \in SUBSET Link
    BY DEF UnitsInv, UnitsType
  <2>3. t \in Begun /\ t.pc = "inserting" /\ t.chosen = edit[h].chosen /\ t.req = edit[h].req
    BY <1>2, <2>2 DEF Begun, InFlight, InTransaction, HoldsLinks
  <2> HIDE DEF t
  <2>4. CallWithin(t)
    BY <1>4, <2>3
  <2>. QED  BY <1>1, <2>1, <2>3, <2>4, OneCallGoes
<1>. QED  BY <1>5, <1>6, <1>7

(* What a call will insert                                                   *)
Fresh(h) == {[link |-> k, by |-> h] : k \in Desired(h) \ {l.link : l \in links \ edit[h].gone}}

LEMMA InsertGoes ==
  ASSUME UnitsInv, NEW h \in Edits, InsertLinks(h)
  PROVE  UnitsInv'
<1> DEFINE t == [edit[h] EXCEPT !.pc = "committing", !.fresh = Fresh(h)]
<1>1. Goes(h, t) /\ UNCHANGED unitRows /\ edit[h].pc = "inserting"
  BY DEF InsertLinks, Fresh
<1>2. edit[h] \in Begun /\ edit[h].req.unit \in Units
  BY <1>1, BegunCall DEF UnitsInv
<1>3. \A a \in edit[h].chosen : a \in Amenities /\ AmenityBuilding[a] = UnitBuilding[edit[h].req.unit]
  BY <1>1, <1>2 DEF UnitsInv, CallWithin, InTransaction, HoldsLinks, Begun
<1>4. \A k \in Desired(h) : k \in Units \X Amenities /\ Within(k)
  BY <1>2, <1>3 DEF Desired, Within
<1>5. \A l \in Fresh(h) : l \in Link /\ Within(l.link)
  BY <1>4 DEF Fresh, Link
<1>6. /\ t \in Begun /\ t.pc = "committing" /\ t.fresh = Fresh(h)
      /\ t.chosen = edit[h].chosen /\ t.req = edit[h].req
  BY <1>2, <1>5 DEF Begun, InFlight, InTransaction, HoldsLinks
<1> HIDE DEF t
<1>7. CallWithin(t)
  BY <1>3, <1>5, <1>6 DEF CallWithin
<1>. QED  BY <1>1, <1>6, <1>7, OneCallGoes

LEMMA CommitGoes ==
  ASSUME UnitsInv, NEW h \in Edits, CommitUnit(h)
  PROVE  UnitsInv'
<1> DEFINE r == edit[h].req
           t == [edit[h] EXCEPT !.pc = "done"]
<1>1. /\ edit[h].pc = "committing"
      /\ data' = [data EXCEPT ![r.unit] = MapUnitUpdate(@, r.fields)]
      /\ links' = (links \ edit[h].gone) \cup edit[h].fresh
      /\ edit' = [edit EXCEPT ![h] = t] /\ active' = active
  BY DEF CommitUnit, Goes, others
<1>2. /\ edit = [g \in Edits |-> edit[g]] /\ links \subseteq Link /\ active \subseteq Amenities
      /\ data = [u \in Units |-> [f \in Fields |-> data[u][f]]]
      /\ \A g \in Edits : edit[g] = [pc |-> "new"] \/ edit[g] \in Begun
  BY DEF UnitsInv, UnitsType
<1>3. edit[h] \in Begun /\ r.unit \in Units
  BY <1>1, BegunCall DEF UnitsInv
<1>4. t \in Begun /\ t.pc = "done" /\ t.req = r
  BY <1>3 DEF Begun
<1> HIDE DEF t
<1>5. \A g \in Edits : edit'[g] = IF g = h THEN t ELSE edit[g]
  BY <1>1, <1>2
<1>6. \A u \in Units, f \in Fields :
        data'[u][f] = IF u = r.unit /\ Names(r, f) THEN r.fields[f] ELSE data[u][f]
  BY <1>1, <1>2, <1>3 DEF MapUnitUpdate, Names
<1>7. UnitsType'
  <2>1. edit' = [g \in Edits |-> edit'[g]]
    BY <1>1, <1>2
  <2>2. data' = [u \in Units |-> [f \in Fields |-> data'[u][f]]]
    <3>1. data' = [u \in Units |-> data'[u]]
      BY <1>1, <1>2
    <3>2. \A u \in Units : data'[u] = IF u = r.unit THEN MapUnitUpdate(data[u], r.fields) ELSE data[u]
      BY <1>1, <1>2
    <3>3. \A u \in Units : data'[u] = [f \in Fields |-> data'[u][f]]
      BY <1>2, <3>2 DEF MapUnitUpdate
    <3>. QED  BY <3>1, <3>3
  <2>3. links' \subseteq Link
    BY <1>1, <1>2, <1>3 DEF Begun
  <2>. QED  BY <1>1, <1>2, <1>4, <1>5, <2>1, <2>2, <2>3 DEF UnitsType
<1>8. (\A l \in links : Within(l.link))'
  BY <1>1 DEF UnitsInv, CallWithin, Within
<1>9. (\A g \in Edits : CallWithin(edit[g]))'
  <2>1. CallWithin(t)
    BY <1>4 DEF CallWithin, InTransaction, HoldsLinks
  <2>. QED  BY <1>5, <2>1 DEF UnitsInv, CallWithin, Within
<1>10. (UpdatesMerge)'
  <2>. SUFFICES ASSUME NEW g \in Edits, NEW f \in Fields, edit'[g].pc = "done", Names(edit'[g].req, f),
                       \A k \in Edits \ {g} : edit'[k].pc = "done" /\ edit'[k].req.unit = edit'[g].req.unit
                                                => ~Names(edit'[k].req, f)
                PROVE  data'[edit'[g].req.unit][f] = edit'[g].req.fields[f]
    BY DEF UpdatesMerge, Names
  <2>1. CASE g = h
    BY <1>3, <1>4, <1>5, <1>6, <2>1
  <2>2. CASE g # h
    <3>1. edit'[g] = edit[g] /\ edit[g].req.unit \in Units
      BY <1>5, <2>2, BegunCall DEF UnitsInv
    <3>2. ~(edit[g].req.unit = r.unit /\ Names(r, f))
      BY <1>4, <1>5, <2>2, <3>1
    <3>3. data[edit[g].req.unit][f] = edit[g].req.fields[f]
      BY <1>1, <1>5, <3>1, <2>2 DEF UnitsInv, UpdatesMerge
    <3>. QED  BY <1>6, <3>1, <3>2, <3>3
  <2>. QED  BY <2>1, <2>2
<1>. QED  BY <1>7, <1>8, <1>9, <1>10 DEF UnitsInv

LEMMA UnitsInvNext ==
  ASSUME UnitsInv, [UnitsNext]_unitsVars
  PROVE  UnitsInv'
<1>1. ASSUME UNCHANGED <<data, links, edit>>, active' \subseteq Amenities
      PROVE  UnitsInv'
  <2>1. UnitsType'
    BY <1>1 DEF UnitsInv, UnitsType
  <2>2. \A h \in Edits : CallWithin(edit[h])'
    BY <1>1 DEF UnitsInv, CallWithin, Within
  <2>3. (UpdatesMerge)'
    BY <1>1 DEF UnitsInv, UpdatesMerge, Names
  <2>. QED  BY <1>1, <2>1, <2>2, <2>3 DEF UnitsInv, Within
<1>2. active \subseteq Amenities
  BY DEF UnitsInv, UnitsType
<1>3. ASSUME NEW a \in Switched, UpdateAmenity(a)
      PROVE  UnitsInv'
  <2>1. UNCHANGED <<data, links, edit>> /\ active' \in {active \cup {a}, active \ {a}, active}
    BY <1>3 DEF UpdateAmenity, Elsewhere, unitRows
  <2>2. a \in Amenities
    BY UnitsAssumption
  <2>. QED  BY <1>1, <1>2, <2>1, <2>2
<1>4. ASSUME NEW u \in Rented, Occupy(u)
      PROVE  UnitsInv'
  BY <1>1, <1>2, <1>4 DEF Occupy, Elsewhere, unitRows
<1>5. ASSUME NEW c \in Counts,
             (\E b \in Buildings : CountVacant(c, b)) \/ (\E q \in {"total", "vacant"} : CountQuery(c, q))
      PROVE  UnitsInv'
  BY <1>1, <1>2, <1>5 DEF CountVacant, CountQuery, Counting, Elsewhere, unitRows
<1>6. CASE UNCHANGED unitsVars
  BY <1>1, <1>2, <1>6 DEF unitsVars, unitRows, others
<1>7. ASSUME NEW h \in Edits, (\E r \in Bodies : Call(h, r)) \/ Handle(h)
      PROVE  UnitsInv'
  BY <1>7, ReadingGoes, TransactionGoes, InsertGoes, CommitGoes DEF Handle
<1>. QED  BY <1>3, <1>4, <1>5, <1>6, <1>7 DEF UnitsNext

LEMMA UnitsInvariant == UnitsSpec => []UnitsInv
<1>1. UnitsInit => UnitsInv
  BY UnitsInvInit
<1>2. UnitsInv /\ [UnitsNext]_unitsVars => UnitsInv'
  BY UnitsInvNext
<1>. QED  BY <1>1, <1>2, PTL DEF UnitsSpec

(* No link crosses buildings: what a call has checked against the building   *)
(* of its unit stays so, since neither of them ever moves.                   *)
THEOREM LinksStayInTheBuilding == UnitsSpec => []LinkedWithinBuilding
<1>1. UnitsInv => LinkedWithinBuilding
  BY DEF UnitsInv, Within, LinkedWithinBuilding
<1>. QED  BY <1>1, UnitsInvariant, PTL

(* A column that one update only names is as it says, whatever overlaps.     *)
THEOREM UpdatesAreMerged == UnitsSpec => []UpdatesMerge
<1>1. UnitsInv => UpdatesMerge
  BY DEF UnitsInv
<1>. QED  BY <1>1, UnitsInvariant, PTL

-----------------------------------------------------------------------------
(* Updates that lock their unit *)

Replaces(r) == r.op = "update" /\ r.amenities # Omitted

(* Whoever writes links names a column too.                                  *)
WritersLock ==
  \A h \in Edits : edit[h].pc # "new" /\ (edit[h].req.op = "create" \/ Replaces(edit[h].req))
                     => edit[h].req.fields # <<>>

WantedBy(t) == {t.req.unit} \X t.chosen

(* How far a call has come with the links of its unit                        *)
Replacing(t) ==
  /\ t.pc = "defaults" => t.req.op = "create" /\ t.req.amenities = Omitted
  /\ t.pc \in InFlight =>
       /\ t.req.amenities # Omitted => t.chosen = t.req.amenities
       /\ t.req.amenities = Omitted /\ t.req.op = "update" => t.chosen = {}
       /\ t.gone = IF Replaces(t.req) /\ t.pc \in HoldsLinks THEN LinksOf(t.req.unit) ELSE {}
  /\ t.pc \in {"snapshot", "deleting"} => Replaces(t.req)
  /\ t.pc = "deleting" => t.seen = LinksOf(t.req.unit)
  /\ t.pc = "committing" =>
       /\ {l.link : l \in t.fresh} \subseteq WantedBy(t)
       /\ Replaces(t.req) => {l.link : l \in t.fresh} = WantedBy(t)

(* No two transactions have written the row of one unit.                     *)
RowsAreLocked == \A h \in Edits : Writes(h) => RowFree(h, edit[h].req.unit)

ReplaceInv == RowsAreLocked /\ \A h \in Edits : Replacing(edit[h])

LEMMA ReplaceInit == UnitsInit => ReplaceInv
<1>. SUFFICES ASSUME UnitsInit PROVE ReplaceInv
  OBVIOUS
<1>1. \A h \in Edits : edit[h].pc = "new"
  BY DEF UnitsInit
<1>. QED  BY <1>1
             DEF ReplaceInv, RowsAreLocked, Replacing, Writes, InFlight,
                 InTransaction, HoldsLinks

(* One call goes on, and commits nothing.                                    *)
LEMMA OneCallReplaces ==
  ASSUME UnitsInv, ReplaceInv, NEW h \in Edits, NEW t, Goes(h, t),
         UNCHANGED unitRows,
         Replacing(t),
         t.pc \in InTransaction /\ t.req.fields # <<>> => RowFree(h, t.req.unit)
  PROVE  ReplaceInv'
<1>1. /\ edit' = [edit EXCEPT ![h] = t] /\ links' = links
      /\ edit = [g \in Edits |-> edit[g]]
  BY DEF Goes, unitRows, UnitsInv, UnitsType
<1>2. \A g \in Edits : edit'[g] = IF g = h THEN t ELSE edit[g]
  BY <1>1
<1>3. ASSUME NEW g \in Edits
      PROVE  Replacing(edit[g])'
  <2>1. Replacing(edit'[g])
    BY <1>2 DEF ReplaceInv
  <2>2. LinksOf(edit'[g].req.unit) = (LinksOf(edit[g].req.unit))'
    BY <1>1 DEF LinksOf
  <2>. QED  BY <2>1, <2>2 DEF Replacing, WantedBy
<1>4. RowsAreLocked'
  BY <1>2 DEF ReplaceInv, RowsAreLocked, RowFree, Writes
<1>. QED  BY <1>3, <1>4 DEF ReplaceInv

LEMMA ReadingReplaces ==
  ASSUME UnitsInv, ReplaceInv, NEW h \in Edits,
         (\E r \in Bodies : Call(h, r)) \/ GetDefaultAmenityIds(h) \/ AssertAmenityIds(h)
  PROVE  ReplaceInv'
<1>1. ASSUME NEW r \in Bodies, Call(h, r)
      PROVE  ReplaceInv'
  <2> DEFINE t == [pc |-> IF r.amenities # Omitted THEN "checking"
                          ELSE IF r.op = "create" THEN "defaults" ELSE "writing",
                   req |-> r, chosen |-> IF r.amenities = Omitted THEN {} ELSE r.amenities,
                   seen |-> {}, gone |-> {}, fresh |-> {}]
  <2>1. Goes(h, t) /\ UNCHANGED unitRows
    BY <1>1 DEF Call
  <2>2. /\ t.pc \in {"checking", "defaults", "writing"} /\ t.req = r /\ t.gone = {}
        /\ t.pc = "defaults" => r.op = "create" /\ r.amenities = Omitted
        /\ t.chosen = IF r.amenities = Omitted THEN {} ELSE r.amenities
    OBVIOUS
  <2> HIDE DEF t
  <2>3. Replacing(t)
    BY <2>2 DEF Replacing, HoldsLinks
  <2>. QED  BY <2>1, <2>2, <2>3, OneCallReplaces DEF InTransaction, HoldsLinks
<1>2. CASE GetDefaultAmenityIds(h)
  <2> DEFINE ids == {a \in active \cap default :
                       AmenityBuilding[a] = UnitBuilding[edit[h].req.unit]}
             t == [edit[h] EXCEPT !.pc = "checking", !.chosen = ids]
  <2>1. Goes(h, t) /\ UNCHANGED unitRows /\ edit[h].pc = "defaults"
    BY <1>2 DEF GetDefaultAmenityIds
  <2>2. edit[h] \in Begun
    BY <2>1, BegunCall DEF UnitsInv
  <2> HIDE DEF ids
  <2>3. t.pc = "checking" /\ t.req = edit[h].req /\ t.gone = edit[h].gone
    BY <2>2 DEF Begun
  <2> HIDE DEF t
  <2>4. edit[h].req.op = "create" /\ edit[h].req.amenities = Omitted /\ edit[h].gone = {}
    BY <2>1 DEF ReplaceInv, Replacing, InFlight, HoldsLinks
  <2>5. Replacing(t)
    BY <2>3, <2>4 DEF Replacing, HoldsLinks, Replaces
  <2>. QED  BY <2>1, <2>3, <2>5, OneCallReplaces DEF InTransaction, HoldsLinks
<1>3. CASE AssertAmenityIds(h)
  <2> DEFINE on(p) == [edit[h] EXCEPT !.pc = p]
  <2>1. /\ UNCHANGED unitRows /\ edit[h].pc = "checking"
        /\ \E p \in {"writing", "unfit"} : Goes(h, on(p))
    BY <1>3 DEF AssertAmenityIds, To
  <2>2. edit[h] \in Begun
    BY <2>1, BegunCall DEF UnitsInv
  <2>3. \A p : /\ on(p).pc = p /\ on(p).req = edit[h].req /\ on(p).gone = edit[h].gone
               /\ on(p).chosen = edit[h].chosen
    BY <2>2 DEF Begun
  <2> HIDE DEF on
  <2>4. \A p \in {"writing", "unfit"} : Replacing(on(p))
    BY <2>1, <2>3 DEF ReplaceInv, Replacing, InFlight, InTransaction, HoldsLinks
  <2>5. PICK p \in {"writing", "unfit"} : Goes(h, on(p))
    BY <2>1
  <2>. QED  BY <2>1, <2>3, <2>4, <2>5, OneCallReplaces DEF InTransaction, HoldsLinks
<1>. QED  BY <1>1, <1>2, <1>3

LEMMA TransactionReplaces ==
  ASSUME UnitsInv, ReplaceInv, NEW h \in Edits,
         WriteUnit(h) \/ SnapshotLinks(h) \/ DeleteLinks(h)
  PROVE  ReplaceInv'
<1>1. edit[h].pc \in {"writing", "snapshot", "deleting"}
  BY DEF WriteUnit, SnapshotLinks, DeleteLinks
<1>2. edit[h] \in Begun
  BY <1>1, BegunCall DEF UnitsInv
<1>3. /\ edit[h].req.amenities # Omitted => edit[h].chosen = edit[h].req.amenities
      /\ edit[h].req.amenities = Omitted /\ edit[h].req.op = "update" => edit[h].chosen = {}
      /\ edit[h].gone = {}
      /\ edit[h].pc \in {"snapshot", "deleting"} => Replaces(edit[h].req)
      /\ edit[h].pc = "deleting" => edit[h].seen = LinksOf(edit[h].req.unit)
  BY <1>1 DEF ReplaceInv, Replacing, InFlight, InTransaction, HoldsLinks
<1>4. edit[h].pc \in InTransaction /\ edit[h].req.fields # <<>> => RowFree(h, edit[h].req.unit)
  BY DEF ReplaceInv, RowsAreLocked, Writes
<1>5. CASE WriteUnit(h)
  <2> DEFINE on(p) == [edit[h] EXCEPT !.pc = p]
             r == edit[h].req
  <2>1. /\ UNCHANGED unitRows
        /\ r.fields # <<>> => RowFree(h, r.unit)
        /\ \/ Goes(h, on("conflict"))
           \/ Goes(h, on("snapshot")) /\ Replaces(r)
           \/ Goes(h, on("inserting")) /\ ~Replaces(r)
    BY <1>5 DEF WriteUnit, To, Replaces
  <2>2. \A p : /\ on(p).pc = p /\ on(p).req = r /\ on(p).gone = edit[h].gone
               /\ on(p).chosen = edit[h].chosen
    BY <1>2 DEF Begun
  <2> HIDE DEF on
  <2>3. /\ Replacing(on("conflict"))
        /\ Replaces(r) => Replacing(on("snapshot"))
        /\ ~Replaces(r) => Replacing(on("inserting"))
    <3>1. Replacing(on("conflict"))
      BY <2>2 DEF Replacing, InFlight, InTransaction, HoldsLinks
    <3>2. ASSUME Replaces(r) PROVE Replacing(on("snapshot"))
      <4> DEFINE k == on("snapshot")
      <4>1. /\ k.pc = "snapshot" /\ k.req = r /\ k.gone = {} /\ k.chosen = edit[h].chosen
            /\ k.pc \notin HoldsLinks
        BY <1>3, <2>2 DEF HoldsLinks
      <4> HIDE DEF k
      <4>2. Replacing(k)
        BY <1>3, <3>2, <4>1 DEF Replacing
      <4>. QED  BY <4>2 DEF k
    <3>3. ASSUME ~Replaces(r) PROVE Replacing(on("inserting"))
      BY <1>3, <2>2, <3>3 DEF Replacing
    <3>. QED  BY <3>1, <3>2, <3>3
  <2>4. ASSUME NEW p, Goes(h, on(p)), Replacing(on(p))
        PROVE  ReplaceInv'
    BY <2>1, <2>2, <2>4, OneCallReplaces
  <2>. QED  BY <2>1, <2>3, <2>4
<1>6. CASE SnapshotLinks(h)
  <2> DEFINE t == [edit[h] EXCEPT !.pc = "deleting", !.seen = LinksOf(edit[h].req.unit)]
  <2>1. Goes(h, t) /\ UNCHANGED unitRows /\ edit[h].pc = "snapshot"
    BY <1>6 DEF SnapshotLinks
  <2>2. /\ t.pc = "deleting" /\ t.req = edit[h].req /\ t.gone = edit[h].gone
        /\ t.chosen = edit[h].chosen /\ t.seen = LinksOf(edit[h].req.unit)
    BY <1>2 DEF Begun
  <2> HIDE DEF t
  <2>3. Replacing(t)
    BY <1>3, <2>1, <2>2 DEF Replacing, HoldsLinks
  <2>. QED  BY <1>4, <2>1, <2>2, <2>3, OneCallReplaces DEF InTransaction
<1>7. CASE DeleteLinks(h)
  <2> DEFINE t == [edit[h] EXCEPT !.pc = "inserting", !.gone = edit[h].seen \cap links]
  <2>1. Goes(h, t) /\ UNCHANGED unitRows /\ edit[h].pc = "deleting"
    BY <1>7 DEF DeleteLinks
  <2>2. /\ t.pc = "inserting" /\ t.req = edit[h].req /\ t.gone = edit[h].seen \cap links
        /\ t.chosen = edit[h].chosen
    BY <1>2 DEF Begun
  <2> HIDE DEF t
  <2>3. t.gone = LinksOf(t.req.unit)
    BY <1>3, <2>1, <2>2 DEF LinksOf
  <2>4. Replacing(t)
    BY <1>3, <2>1, <2>2, <2>3 DEF Replacing, HoldsLinks
  <2>. QED  BY <1>4, <2>1, <2>2, <2>4, OneCallReplaces DEF InTransaction
<1>. QED  BY <1>5, <1>6, <1>7

LEMMA InsertReplaces ==
  ASSUME UnitsInv, ReplaceInv, NEW h \in Edits, InsertLinks(h)
  PROVE  ReplaceInv'
<1> DEFINE t == [edit[h] EXCEPT !.pc = "committing", !.fresh = Fresh(h)]
           kept == {l.link : l \in links \ edit[h].gone}
<1>1. Goes(h, t) /\ UNCHANGED unitRows /\ edit[h].pc = "inserting"
  BY DEF InsertLinks, Fresh
<1>2. edit[h] \in Begun
  BY <1>1, BegunCall DEF UnitsInv
<1>3. /\ t.pc = "committing" /\ t.fresh = Fresh(h) /\ t.req = edit[h].req
      /\ t.gone = edit[h].gone /\ t.chosen = edit[h].chosen
  BY <1>2 DEF Begun
<1> HIDE DEF t
<1>4. Replacing(edit[h])
  BY DEF ReplaceInv
<1>5. {l.link : l \in Fresh(h)} = Desired(h) \ kept
  <2>1. \A l \in Fresh(h) : l.link \in Desired(h) \ kept
    BY DEF Fresh
  <2>2. ASSUME NEW k \in Desired(h) \ kept
        PROVE  \E l \in Fresh(h) : l.link = k
    <3>1. [link |-> k, by |-> h] \in Fresh(h)
      BY DEF Fresh
    <3>. QED  BY <3>1
  <2>. QED  BY <2>1, <2>2
<1>6. Desired(h) = WantedBy(t)
  BY <1>3 DEF Desired, WantedBy
<1>7. ASSUME Replaces(edit[h].req)
      PROVE  Desired(h) \cap kept = {}
  <2>1. edit[h].gone = LinksOf(edit[h].req.unit)
    BY <1>1, <1>4, <1>7 DEF Replacing, InFlight, InTransaction, HoldsLinks
  <2>2. \A l \in links \ edit[h].gone : l.link[1] # edit[h].req.unit
    BY <2>1 DEF LinksOf
  <2>3. \A k \in Desired(h) : k[1] = edit[h].req.unit
    BY DEF Desired
  <2>. QED  BY <2>2, <2>3
<1> HIDE DEF kept
<1>8. Replacing(t)
  BY <1>1, <1>3, <1>4, <1>5, <1>6, <1>7
     DEF Replacing, InFlight, InTransaction, HoldsLinks
<1>9. t.req.fields # <<>> => RowFree(h, t.req.unit)
  BY <1>1, <1>3 DEF ReplaceInv, RowsAreLocked, Writes, InTransaction, HoldsLinks
<1>. QED  BY <1>1, <1>8, <1>9, OneCallReplaces

(* A commit touches links of the unit it has locked, or none.                *)
LEMMA OthersKeepTheirLinks ==
  ASSUME UnitsInv, ReplaceInv, WritersLock, NEW h \in Edits, CommitUnit(h),
         NEW g \in Edits \ {h}, edit[g].pc \in InTransaction, Replaces(edit[g].req)
  PROVE  (LinksOf(edit[g].req.unit))' = LinksOf(edit[g].req.unit)
<1> DEFINE t == edit[h]
           u == t.req.unit
<1>1. t.pc = "committing" /\ links' = (links \ t.gone) \cup t.fresh /\ edit'[g].req = edit[g].req
  BY DEF CommitUnit, Goes, UnitsInv, UnitsType
<1>2. /\ Replacing(t) /\ \A l \in t.gone : l.link[1] = u
      /\ \A l \in t.fresh : l.link \in {u} \X t.chosen
  <2>1. Replacing(t)
    BY DEF ReplaceInv
  <2>2. t.gone \subseteq LinksOf(u)
    BY <1>1, <2>1 DEF Replacing, InFlight, InTransaction, HoldsLinks
  <2>3. {l.link : l \in t.fresh} \subseteq {u} \X t.chosen
    BY <1>1, <2>1 DEF Replacing, WantedBy
  <2>. QED  BY <2>1, <2>2, <2>3 DEF LinksOf
<1>3. \A l \in t.fresh : l.link[1] = u
  BY <1>2
<1>4. edit[g].pc # "new" /\ edit[g].req.fields # <<>>
  BY DEF WritersLock, InTransaction, HoldsLinks
<1>5. CASE t.req.fields # <<>>
  <2>1. Writes(h) /\ Writes(g)
    BY <1>1, <1>4, <1>5 DEF Writes, InTransaction, HoldsLinks
  <2>2. edit[g].req.unit # u
    BY <2>1 DEF ReplaceInv, RowsAreLocked, RowFree
  <2>. QED  BY <1>1, <1>2, <1>3, <2>2 DEF LinksOf
<1>6. CASE t.req.fields = <<>>
  <2>1. t.req.op # "create" /\ ~Replaces(t.req)
    BY <1>1, <1>6 DEF WritersLock
  <2>2. t.req \in Bodies
    BY <1>1, BegunCall DEF UnitsInv
  <2>3. t.req.op = "update" /\ t.req.amenities = Omitted
    BY <2>1, <2>2, UnitsAssumption DEF Replaces
  <2>4. t.gone = {} /\ t.chosen = {}
    BY <1>1, <1>2, <2>1, <2>3 DEF Replacing, InFlight, InTransaction, HoldsLinks
  <2>5. t.fresh = {}
    BY <1>2, <2>4
  <2>6. links' = links
    BY <1>1, <2>4, <2>5
  <2>. QED  BY <1>1, <2>6 DEF LinksOf
<1>. QED  BY <1>5, <1>6

LEMMA CommitReplaces ==
  ASSUME UnitsInv, ReplaceInv, WritersLock, NEW h \in Edits, CommitUnit(h)
  PROVE  ReplaceInv'
<1> DEFINE t == [edit[h] EXCEPT !.pc = "done"]
<1>1. edit[h].pc = "committing" /\ edit' = [edit EXCEPT ![h] = t] /\ edit = [g \in Edits |-> edit[g]]
  BY DEF CommitUnit, Goes, UnitsInv, UnitsType
<1>2. edit[h] \in Begun
  BY <1>1, BegunCall DEF UnitsInv
<1>3. t.pc = "done"
  BY <1>2 DEF Begun
<1> HIDE DEF t
<1>4. \A g \in Edits : edit'[g] = IF g = h THEN t ELSE edit[g]
  BY <1>1
<1>5. RowsAreLocked'
  BY <1>3, <1>4
     DEF ReplaceInv, RowsAreLocked, RowFree, Writes, InTransaction, HoldsLinks
<1>6. Replacing(edit[h])'
  BY <1>3, <1>4 DEF Replacing, InFlight, InTransaction, HoldsLinks
<1>7. ASSUME NEW g \in Edits \ {h}
      PROVE  Replacing(edit[g])'
  <2>1. edit'[g] = edit[g] /\ Replacing(edit[g])
    BY <1>4 DEF ReplaceInv
  <2>2. edit[g].pc \in InTransaction /\ Replaces(edit[g].req) =>
          (LinksOf(edit[g].req.unit))' = LinksOf(edit[g].req.unit)
    BY <1>7, OthersKeepTheirLinks
  <2>. QED  BY <2>1, <2>2 DEF Replacing, WantedBy, InTransaction, HoldsLinks
<1>. QED  BY <1>5, <1>6, <1>7 DEF ReplaceInv

LEMMA ReplaceNext ==
  ASSUME UnitsInv, ReplaceInv, WritersLock, [UnitsNext]_unitsVars
  PROVE  ReplaceInv'
<1>1. ASSUME UNCHANGED <<links, edit>>
      PROVE  ReplaceInv'
  BY <1>1 DEF ReplaceInv, RowsAreLocked, RowFree, Writes, Replacing, LinksOf, WantedBy
<1>2. ASSUME NEW a \in Switched, UpdateAmenity(a)
      PROVE  ReplaceInv'
  BY <1>1, <1>2 DEF UpdateAmenity, Elsewhere, unitRows
<1>3. ASSUME NEW u \in Rented, Occupy(u)
      PROVE  ReplaceInv'
  BY <1>1, <1>3 DEF Occupy, Elsewhere, unitRows
<1>4. ASSUME NEW c \in Counts,
             (\E b \in Buildings : CountVacant(c, b)) \/ (\E q \in {"total", "vacant"} : CountQuery(c, q))
      PROVE  ReplaceInv'
  BY <1>1, <1>4 DEF CountVacant, CountQuery, Counting, Elsewhere, unitRows
<1>5. CASE UNCHANGED unitsVars
  BY <1>1, <1>5 DEF unitsVars, unitRows
<1>6. ASSUME NEW h \in Edits, (\E r \in Bodies : Call(h, r)) \/ Handle(h)
      PROVE  ReplaceInv'
  BY <1>6, ReadingReplaces, TransactionReplaces, InsertReplaces, CommitReplaces
     DEF Handle
<1>. QED  BY <1>2, <1>3, <1>4, <1>5, <1>6 DEF UnitsNext

(* A call ends well by committing.                                           *)
LEMMA OnlyCommitEnds ==
  ASSUME UnitsInv, [UnitsNext]_unitsVars, NEW h \in Edits,
         edit[h].pc = "committing", edit'[h].pc = "done"
  PROVE  CommitUnit(h)
<1>1. edit = [g \in Edits |-> edit[g]] /\ edit' # edit
  BY DEF UnitsInv, UnitsType
<1>2. PICK g \in Edits : (\E r \in Bodies : Call(g, r)) \/ Handle(g)
  BY <1>1
     DEF UnitsNext, unitsVars, UpdateAmenity, Occupy, CountVacant, CountQuery,
         Counting, Elsewhere
<1>3. CASE g = h
  BY <1>2, <1>3
     DEF Handle, Call, GetDefaultAmenityIds, AssertAmenityIds, WriteUnit,
                    SnapshotLinks, DeleteLinks, InsertLinks
<1>4. CASE g # h
  <2>1. \E t : edit' = [edit EXCEPT ![g] = t]
    BY <1>2
       DEF Handle, Call, GetDefaultAmenityIds, AssertAmenityIds, WriteUnit,
                SnapshotLinks, DeleteLinks, InsertLinks, CommitUnit, To, Goes
  <2>2. edit'[h] = edit[h]
    BY <1>1, <1>4, <2>1
  <2>. QED  BY <2>2
<1>. QED  BY <1>3, <1>4

LEMMA CommitsReplace ==
  ASSUME UnitsInv, ReplaceInv, NEW h \in Edits, CommitUnit(h),
         Replaces(edit[h].req)
  PROVE  {l.link : l \in {k \in links' : k.link[1] = edit[h].req.unit}}
           = {edit[h].req.unit} \X edit[h].req.amenities
<1> DEFINE t == edit[h]
           u == t.req.unit
<1>1. t.pc = "committing" /\ links' = (links \ t.gone) \cup t.fresh
  BY DEF CommitUnit
<1>2. t.gone = LinksOf(u) /\ {l.link : l \in t.fresh} = {u} \X t.req.amenities
  BY <1>1
     DEF ReplaceInv, Replacing, Replaces, WantedBy, InFlight, InTransaction,
         HoldsLinks
<1>3. \A l \in t.fresh : l.link[1] = u
  BY <1>2
<1>4. {k \in links' : k.link[1] = u} = t.fresh
  BY <1>1, <1>2, <1>3 DEF LinksOf
<1>. QED  BY <1>2, <1>4

(* For any calls and requests: as long as whoever writes links also writes a *)
(* column, and so locks its unit, an update that commits leaves the unit the *)
(* amenities it names and no others.                                         *)
ReplacesAll ==
  \A h \in Edits :
    edit[h].pc = "committing" /\ edit'[h].pc = "done" /\ Replaces(edit[h].req) =>
      {l.link : l \in {k \in links' : k.link[1] = edit[h].req.unit}}
        = {edit[h].req.unit} \X edit[h].req.amenities

LEMMA StepReplaces ==
  ASSUME UnitsInv, ReplaceInv, [UnitsNext]_unitsVars
  PROVE  ReplacesAll
BY OnlyCommitEnds, CommitsReplace DEF ReplacesAll

(* No update that locks its unit mixes its list with another's.              *)
THEOREM LockingUpdatesReplace == UnitsSpec /\ []WritersLock => [][ReplacesAll]_unitsVars
<1>1. UnitsInit => ReplaceInv
  BY ReplaceInit
<1>2. UnitsInv /\ ReplaceInv /\ WritersLock /\ [UnitsNext]_unitsVars => ReplaceInv'
  BY ReplaceNext
<1>3. UnitsInv /\ ReplaceInv /\ [UnitsNext]_unitsVars => [ReplacesAll]_unitsVars
  BY StepReplaces
<1>. QED  BY <1>1, <1>2, <1>3, UnitsInvariant, PTL DEF UnitsSpec

(* The scenario whose updates lock their unit is such a one.                 *)
THEOREM LockedUpdatesReplace == MCSpec => ReplacedExactly
<1> DEFINE P == scenario = "locked"
           L == \A h \in Edits : edit[h].pc # "new" => edit[h].req \in Sent["locked"]
           A == \A h \in Edits :
                  scenario = "locked" /\ edit[h].pc = "committing" /\ edit'[h].pc = "done"
                    /\ edit[h].req.op = "update" /\ edit[h].req.amenities # Omitted =>
                      {l.link : l \in {k \in links' : k.link[1] = edit[h].req.unit}}
                        = {edit[h].req.unit} \X edit[h].req.amenities
<1>1. MCInit => UnitsInv /\ ReplaceInv /\ L
  <2>1. UnitsInit => L
    BY DEF UnitsInit
  <2>. QED  BY <2>1, UnitsInvInit, ReplaceInit DEF MCInit
<1>2. [MCNext]_mcvars => [UnitsNext]_unitsVars /\ (P' <=> P)
  BY DEF MCNext, mcvars
<1>3. (P => L) /\ [MCNext]_mcvars => (P => L)'
  BY DEF MCNext, mcvars, unitsVars
<1>4. L => WritersLock
  <2>1. \A r \in Sent["locked"] : r.fields # <<>>
    BY DEF Sent, Request
  <2>. QED  BY <2>1 DEF WritersLock
<1>5. UnitsInv /\ [UnitsNext]_unitsVars => UnitsInv'
  BY UnitsInvNext
<1>6. UnitsInv /\ (P => ReplaceInv) /\ (P => L) /\ [UnitsNext]_unitsVars /\ (P' <=> P) => (P => ReplaceInv)'
  BY <1>4, ReplaceNext
<1>7. UnitsInv /\ (P => ReplaceInv) /\ [MCNext]_mcvars => [A]_mcvars
  BY <1>2, StepReplaces DEF ReplacesAll, Replaces
<1> HIDE DEF P, L
<1>8. MCSpec => []UnitsInv /\ [](P => ReplaceInv)
  BY <1>1, <1>2, <1>3, <1>5, <1>6, PTL DEF MCSpec
<1>. QED  BY <1>7, <1>8, PTL DEF MCSpec, ReplacedExactly
=============================================================================
