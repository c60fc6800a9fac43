-------------------------- MODULE OccupancyProofs --------------------------
(***************************************************************************)
(* Proofs about Occupancy, for any number of users, units, rows and        *)
(* overlapping handlers, and about the scenarios of MCOccupancy.           *)
(***************************************************************************)
EXTENDS MCOccupancy, TLAPS

(* Where a transaction of provisioning is while it holds its unit *)
Held == {"locked", "read", "ending", "ended"}

(* h holds the lock on unit n. *)
Holds(h, n) == /\ txn[h].unit = n
               /\ txn[h].op \in Provisioning
               /\ txn[h].pc \in Held

LockInv == \A n \in Units, h \in Handlers : lock[n] = h <=> Holds(h, n)

CallInv ==
  \A h \in Handlers :
    /\ txn[h].pc # "idle" =>
         txn[h].op \in Calls /\ txn[h].user \in Users /\ txn[h].unit \in Units
    /\ txn[h].pc \in Held => txn[h].op \in Provisioning
    /\ txn[h].reuse => txn[h].pc # "idle"
    /\ txn[h].pc \in {"ending", "ended"} => txn[h].op = "move"
    /\ txn[h].op = "file" => ~txn[h].fresh

(* What provisioning read under the lock stays true until it commits. *)
VacantInv ==
  \A h \in Handlers :
    (/\ txn[h].pc \in {"read", "ending", "ended"}
     /\ ~txn[h].reuse) => Active(txn[h].unit) = {}

EndsInv ==
  \A h \in Handlers : \A i \in txn[h].ends :
    /\ txn[h].op = "move" /\ txn[h].pc \in {"ending", "ended"}
    /\ occupancy[i].user = txn[h].user
    /\ occupancy[i].unit # txn[h].unit
    /\ UnitBuilding[occupancy[i].unit] = UnitBuilding[txn[h].unit]

(* A resident whose request is being filed, or whose occupancy provisioning   *)
(* reuses, has a row for the unit.                                            *)
FileInv ==
  \A h \in Handlers :
    ((txn[h].op = "file" /\ txn[h].pc = "ready") \/ txn[h].reuse) =>
      \E i \in Rows : occupancy[i].user = txn[h].user /\ occupancy[i].unit = txn[h].unit

RowInv == \A i \in Rows : occupancy[i].status = "NONE" => occupancy[i].user = NoUser

IInv == /\ TypeOK /\ LockInv /\ CallInv /\ VacantInv /\ EndsInv /\ FileInv /\ RowInv
        /\ RequestsAreFromResidents /\ NewcomersAreHoused

(* Rows are never reassigned to another user or unit. *)
RowsKept ==
  \A i \in Rows : occupancy[i].user \in Users =>
    /\ occupancy'[i].user = occupancy[i].user
    /\ occupancy'[i].unit = occupancy[i].unit

-----------------------------------------------------------------------------
(* The table after some rows have ended and one may have been inserted *)
LEMMA EndedFacts ==
  ASSUME TypeOK, RowInv, NEW ends \in SUBSET Rows, NEW table, table = Ended(ends),
         \A i \in ends : occupancy[i].user \in Users
  PROVE  /\ table \in [Rows -> Row]
         /\ \A i \in Rows : /\ table[i].user = occupancy[i].user
                            /\ table[i].unit = occupancy[i].unit
                            /\ table[i].status = "NONE" <=> occupancy[i].status = "NONE"
                            /\ table[i].status = "ACTIVE" =>
                                 i \notin ends /\ occupancy[i].status = "ACTIVE"
                            /\ i \notin ends => table[i] = occupancy[i]
<1>1. \A i \in Rows : occupancy[i] \in Row
  BY DEF TypeOK
<1>2. ASSUME NEW i \in Rows, i \in ends
      PROVE  occupancy[i].status # "NONE"
  BY <1>2, OccupancyAssumption DEF RowInv, OccupancyAssumption
<1>. QED  BY <1>1, <1>2 DEF Ended, Row

LEMMA InsertFacts ==
  ASSUME TypeOK, RowInv, NEW h \in Handlers, NEW ends \in SUBSET Rows,
         txn[h].user \in Users, txn[h].unit \in Units,
         \A i \in ends : occupancy[i].user \in Users,
         InsertOccupancy(h, Ended(ends))
  PROVE  /\ occupancy' \in [Rows -> Row] /\ RowInv' /\ RowsKept
         /\ \E i \in Rows :
              /\ occupancy[i].status = "NONE"
              /\ occupancy'[i].user = txn[h].user /\ occupancy'[i].unit = txn[h].unit
              /\ occupancy'[i].status = "ACTIVE"
              /\ \A j \in Rows \ {i} : /\ occupancy'[j].user = occupancy[j].user
                                       /\ occupancy'[j].unit = occupancy[j].unit
                                       /\ occupancy'[j].status = "ACTIVE" =>
                                            occupancy[j].status = "ACTIVE"
                                       /\ j \notin ends => occupancy'[j] = occupancy[j]
<1> DEFINE table == Ended(ends)
<1>1. /\ table \in [Rows -> Row]
      /\ \A i \in Rows : /\ table[i].user = occupancy[i].user
                         /\ table[i].unit = occupancy[i].unit
                         /\ table[i].status = "NONE" <=> occupancy[i].status = "NONE"
                         /\ table[i].status = "ACTIVE" =>
                              i \notin ends /\ occupancy[i].status = "ACTIVE"
                         /\ i \notin ends => table[i] = occupancy[i]
  BY EndedFacts
<1> HIDE DEF table
<1> DEFINE added == [user |-> txn[h].user, unit |-> txn[h].unit, status |-> "ACTIVE"]
<1>2. PICK i \in Rows : /\ occupancy[i].status = "NONE"
                        /\ occupancy' = [table EXCEPT ![i] = added]
  BY DEF InsertOccupancy, table
<1>3. added \in Row
  BY DEF Row
<1>4. /\ occupancy' \in [Rows -> Row]
      /\ occupancy'[i] = added
      /\ \A j \in Rows \ {i} : occupancy'[j] = table[j]
  BY <1>1, <1>2, <1>3
<1>5. occupancy[i].user \notin Users
  BY <1>2, OccupancyAssumption DEF RowInv, OccupancyAssumption
<1>6. RowInv'
  <2>1. ASSUME NEW j \in Rows, occupancy'[j].status = "NONE"
        PROVE  occupancy'[j].user = NoUser
    <3>1. j # i
      BY <2>1, <1>4
    <3>. QED  BY <2>1, <3>1, <1>1, <1>4 DEF RowInv
  <2>. QED  BY <2>1 DEF RowInv
<1>7. RowsKept
  BY <1>1, <1>4, <1>5 DEF RowsKept
<1>. QED  BY <1>1, <1>2, <1>4, <1>6, <1>7

(* Inserting without ending anything is the same with no rows to end. *)
LEMMA NothingEnded ==
  ASSUME TypeOK
  PROVE  Ended({}) = occupancy
BY DEF TypeOK, Ended

(* A transaction that ends releases its own lock and nothing else. *)
LEMMA EndFacts ==
  ASSUME IInv, NEW h \in Handlers, End(h)
  PROVE  /\ txn' \in [Handlers -> Txn]
         /\ lock' \in [Units -> Handlers \cup {NoHandler}]
         /\ txn'[h] = Idle
         /\ \A k \in Handlers \ {h} : txn'[k] = txn[k]
         /\ LockInv' /\ CallInv'
<1>1. Idle \in Txn
  BY DEF Idle, Txn
<1>2. /\ txn' \in [Handlers -> Txn]
      /\ txn'[h] = Idle
      /\ \A k \in Handlers \ {h} : txn'[k] = txn[k]
  BY <1>1 DEF IInv, TypeOK, End
<1>3. /\ lock' \in [Units -> Handlers \cup {NoHandler}]
      /\ \A n \in Units : lock'[n] = IF lock[n] = h THEN NoHandler ELSE lock[n]
  BY DEF IInv, TypeOK, End
<1>4. LockInv'
  <2>1. ASSUME NEW n \in Units, NEW k \in Handlers
        PROVE  lock'[n] = k <=> Holds(k, n)'
    <3>1. CASE k = h
      BY <1>2, <1>3, <3>1, OccupancyAssumption DEF Holds, Idle, OccupancyAssumption
    <3>2. CASE k # h
      <4>1. lock'[n] = k <=> lock[n] = k
        BY <1>3, <3>2, OccupancyAssumption DEF OccupancyAssumption
      <4>2. Holds(k, n)' <=> Holds(k, n)
        BY <1>2, <3>2 DEF Holds
      <4>. QED  BY <4>1, <4>2 DEF IInv, LockInv
    <3>. QED  BY <3>1, <3>2
  <2>. QED  BY <2>1 DEF LockInv
<1>5. CallInv'
  BY <1>2 DEF IInv, CallInv, Idle, Held
<1>. QED  BY <1>2, <1>3, <1>4, <1>5

(* What other handlers rely on survives a commit: rows keep their user and   *)
(* unit, and a row appears only in a unit no other transaction has locked.   *)
LEMMA CommitKeeps ==
  ASSUME IInv, NEW h \in Handlers, End(h), RowsKept,
         \A i \in Rows : occupancy'[i].status = "ACTIVE" =>
           \/ occupancy[i].status = "ACTIVE" /\ occupancy'[i].unit = occupancy[i].unit
           \/ /\ occupancy'[i].unit = txn[h].unit
              /\ txn[h].unit \in Units /\ lock[txn[h].unit] \in {h, NoHandler}
  PROVE  VacantInv' /\ EndsInv' /\ FileInv'
<1>1. /\ txn'[h] = Idle
      /\ \A k \in Handlers \ {h} : txn'[k] = txn[k]
  BY EndFacts
<1>2. VacantInv'
  <2>1. SUFFICES ASSUME NEW k \in Handlers,
                        txn'[k].pc \in {"read", "ending", "ended"},
                        ~txn'[k].reuse, NEW i \in Rows,
                        occupancy'[i].status = "ACTIVE", occupancy'[i].unit = txn'[k].unit
                 PROVE  FALSE
    BY DEF VacantInv, Active
  <2>2. k # h /\ txn'[k] = txn[k]
    BY <1>1, <2>1 DEF Idle
  <2>3. Active(txn[k].unit) = {}
    BY <2>1, <2>2 DEF IInv, VacantInv
  <2>4. txn[k].unit \in Units
    BY <2>1, <2>2 DEF IInv, CallInv
  <2>5. lock[txn[k].unit] = k
    BY <2>1, <2>2, <2>4 DEF IInv, LockInv, CallInv, Holds, Held
  <2>6. CASE occupancy[i].status = "ACTIVE" /\ occupancy'[i].unit = occupancy[i].unit
    BY <2>1, <2>2, <2>3, <2>6 DEF Active
  <2>7. CASE /\ occupancy'[i].unit = txn[h].unit
             /\ lock[txn[h].unit] \in {h, NoHandler}
    BY <2>1, <2>2, <2>5, <2>7, OccupancyAssumption DEF OccupancyAssumption
  <2>. QED  BY <2>1, <2>6, <2>7
<1>3. EndsInv'
  <2>1. SUFFICES ASSUME NEW k \in Handlers, NEW i \in txn'[k].ends
                 PROVE  /\ txn'[k].op = "move" /\ txn'[k].pc \in {"ending", "ended"}
                        /\ occupancy'[i].user = txn'[k].user
                        /\ occupancy'[i].unit # txn'[k].unit
                        /\ UnitBuilding[occupancy'[i].unit] = UnitBuilding[txn'[k].unit]
    BY DEF EndsInv
  <2>2. k # h /\ txn'[k] = txn[k]
    BY <1>1, <2>1 DEF Idle
  <2>3. /\ txn[k].op = "move" /\ txn[k].pc \in {"ending", "ended"}
        /\ occupancy[i].user = txn[k].user
        /\ occupancy[i].unit # txn[k].unit
        /\ UnitBuilding[occupancy[i].unit] = UnitBuilding[txn[k].unit]
    BY <2>2 DEF IInv, EndsInv
  <2>4. txn[k].user \in Users /\ i \in Rows
    BY <2>2, <2>3 DEF IInv, CallInv, TypeOK, Txn
  <2>. QED  BY <2>2, <2>3, <2>4 DEF RowsKept
<1>4. FileInv'
  <2>1. SUFFICES ASSUME NEW k \in Handlers,
                        \/ txn'[k].op = "file" /\ txn'[k].pc = "ready"
                        \/ txn'[k].reuse
                 PROVE  \E i \in Rows : /\ occupancy'[i].user = txn'[k].user
                                        /\ occupancy'[i].unit = txn'[k].unit
    BY DEF FileInv
  <2>2. k # h /\ txn'[k] = txn[k]
    BY <1>1, <2>1 DEF Idle
  <2>3. PICK i \in Rows : occupancy[i].user = txn[k].user /\ occupancy[i].unit = txn[k].unit
    BY <2>1, <2>2 DEF IInv, FileInv
  <2>4. txn[k].user \in Users
    BY <2>1, <2>2 DEF IInv, CallInv
  <2>. QED  BY <2>2, <2>3, <2>4 DEF RowsKept
<1>. QED  BY <1>2, <1>3, <1>4

(* What is known of requests and accounts survives when rows are kept. *)
LEMMA HistoryKeeps ==
  ASSUME IInv, RowsKept
  PROVE  /\ \A q \in requests : \E i \in Rows : /\ occupancy'[i].user = q.user
                                                /\ occupancy'[i].unit = q.unit
         /\ \A u \in accounts \ Residents : \E i \in Rows : occupancy'[i].user = u
<1>1. ASSUME NEW q \in requests
      PROVE  \E i \in Rows : occupancy'[i].user = q.user /\ occupancy'[i].unit = q.unit
  <2>1. PICK i \in Rows : occupancy[i].user = q.user /\ occupancy[i].unit = q.unit
    BY DEF IInv, RequestsAreFromResidents
  <2>2. q.user \in Users
    BY DEF IInv, TypeOK
  <2>. QED  BY <2>1, <2>2 DEF RowsKept
<1>2. ASSUME NEW u \in accounts \ Residents
      PROVE  \E i \in Rows : occupancy'[i].user = u
  BY DEF IInv, NewcomersAreHoused, TypeOK, RowsKept
<1>. QED  BY <1>1, <1>2

-----------------------------------------------------------------------------
(* The inductive step, one lemma per kind of step *)

(* A call begins; a filed request starts from an occupancy that was read. *)
LEMMA BeginKeeps ==
  ASSUME IInv, NEW h \in Handlers, NEW u \in Users, NEW n \in Units, Call(h, u, n)
  PROVE  IInv'
<1>1. PICK op \in Calls, pc \in {"called", "ready"} :
        /\ Begin(h, op, u, n, pc)
        /\ op = "file" => u \in accounts
        /\ op = "file" => \E i \in Rows : occupancy[i].user = u /\ occupancy[i].unit = n
  BY DEF Call, CallCreate, CallOnboard, CallProvision, FindAssignedActiveOccupancy,
         Begin, Provisioning, Active
<1> DEFINE t == [Idle EXCEPT !.pc = pc, !.op = op, !.user = u, !.unit = n,
                             !.fresh = u \notin accounts]
<1>2. /\ t \in Txn /\ t.pc = pc /\ t.op = op /\ t.user = u /\ t.unit = n
      /\ t.ends = {} /\ t.reuse = FALSE /\ t.fresh = (u \notin accounts)
  BY OccupancyAssumption DEF Txn, Idle, OccupancyAssumption
<1>3. /\ txn[h].pc = "idle"
      /\ txn' = [txn EXCEPT ![h] = t]
      /\ UNCHANGED <<accounts, occupancy, lock, requests>>
  BY <1>1 DEF Begin
<1> HIDE DEF t
<1>4. /\ txn' \in [Handlers -> Txn]
      /\ txn'[h] = t
      /\ \A k \in Handlers \ {h} : txn'[k] = txn[k]
  BY <1>2, <1>3 DEF IInv, TypeOK
<1>5. TypeOK'
  BY <1>3, <1>4 DEF IInv, TypeOK
<1>6. LockInv'
  <2>1. ASSUME NEW m \in Units, NEW k \in Handlers
        PROVE  Holds(k, m)' <=> Holds(k, m)
    BY <1>1, <1>2, <1>3, <1>4, <2>1 DEF Holds, Held
  <2>. QED  BY <1>3, <2>1 DEF IInv, LockInv
<1>7. CallInv'
  BY <1>1, <1>2, <1>4 DEF IInv, CallInv, Held
<1>8. VacantInv'
  BY <1>1, <1>2, <1>3, <1>4 DEF IInv, VacantInv, Active
<1>9. EndsInv'
  BY <1>2, <1>3, <1>4 DEF IInv, EndsInv
<1>10. FileInv'
  BY <1>1, <1>2, <1>3, <1>4 DEF IInv, FileInv
<1>11. RowInv' /\ RequestsAreFromResidents' /\ NewcomersAreHoused'
  BY <1>3 DEF IInv, RowInv, RequestsAreFromResidents, NewcomersAreHoused
<1>. QED  BY <1>5, <1>6, <1>7, <1>8, <1>9, <1>10, <1>11 DEF IInv

(* A handler gives up and nothing else changes. *)
LEMMA RefuseKeeps ==
  ASSUME IInv, NEW h \in Handlers, End(h), UNCHANGED <<accounts, occupancy, requests>>
  PROVE  IInv'
<1>1. RowsKept
  BY DEF RowsKept
<1>2. VacantInv' /\ EndsInv' /\ FileInv'
  BY <1>1, CommitKeeps
<1>3. TypeOK' /\ LockInv' /\ CallInv'
  BY EndFacts DEF IInv, TypeOK
<1>4. RowInv' /\ RequestsAreFromResidents' /\ NewcomersAreHoused'
  BY DEF IInv, RowInv, RequestsAreFromResidents, NewcomersAreHoused
<1>. QED  BY <1>2, <1>3, <1>4 DEF IInv

(* A transaction commits an occupancy or ends some, or both. *)
LEMMA CommitOccupancyKeeps ==
  ASSUME IInv, NEW h \in Handlers, End(h), NEW ends \in SUBSET Rows,
         txn[h].user \in Users, txn[h].unit \in Units,
         \A i \in ends : occupancy[i].user \in Users,
         lock[txn[h].unit] \in {h, NoHandler},
         InsertOccupancy(h, Ended(ends)),
         accounts' \in {accounts, accounts \cup {txn[h].user}},
         UNCHANGED requests
  PROVE  IInv'
<1>1. /\ occupancy' \in [Rows -> Row] /\ RowInv' /\ RowsKept
      /\ \E i \in Rows :
           /\ occupancy[i].status = "NONE"
           /\ occupancy'[i].user = txn[h].user /\ occupancy'[i].unit = txn[h].unit
           /\ occupancy'[i].status = "ACTIVE"
           /\ \A j \in Rows \ {i} : /\ occupancy'[j].user = occupancy[j].user
                                    /\ occupancy'[j].unit = occupancy[j].unit
                                    /\ occupancy'[j].status = "ACTIVE" =>
                                         occupancy[j].status = "ACTIVE"
                                    /\ j \notin ends => occupancy'[j] = occupancy[j]
  BY InsertFacts DEF IInv
<1>2. VacantInv' /\ EndsInv' /\ FileInv'
  BY <1>1, CommitKeeps
<1>3. TypeOK' /\ LockInv' /\ CallInv'
  BY <1>1, EndFacts DEF IInv, TypeOK
<1>4. RequestsAreFromResidents' /\ NewcomersAreHoused'
  BY <1>1, HistoryKeeps DEF RequestsAreFromResidents, NewcomersAreHoused
<1>. QED  BY <1>1, <1>2, <1>3, <1>4 DEF IInv

(* Rows end and nothing is inserted: the user lived in the unit already. *)
LEMMA CommitEndsKeeps ==
  ASSUME IInv, NEW h \in Handlers, End(h), NEW ends \in SUBSET Rows,
         \A i \in ends : occupancy[i].user \in Users,
         occupancy' = Ended(ends),
         \A u \in accounts' : u \in accounts \/ \E i \in Rows : occupancy[i].user = u,
         accounts' \subseteq Users,
         UNCHANGED requests
  PROVE  IInv'
<1>1. /\ occupancy' \in [Rows -> Row]
      /\ \A i \in Rows : /\ occupancy'[i].user = occupancy[i].user
                         /\ occupancy'[i].unit = occupancy[i].unit
                         /\ occupancy'[i].status = "NONE" <=> occupancy[i].status = "NONE"
                         /\ occupancy'[i].status = "ACTIVE" =>
                              occupancy[i].status = "ACTIVE"
  BY EndedFacts DEF IInv
<1>2. RowInv' /\ RowsKept
  BY <1>1 DEF IInv, RowInv, RowsKept
<1>3. VacantInv' /\ EndsInv' /\ FileInv'
  BY <1>1, <1>2, CommitKeeps
<1>4. TypeOK' /\ LockInv' /\ CallInv'
  BY <1>1, EndFacts DEF IInv, TypeOK
<1>5. RequestsAreFromResidents' /\ NewcomersAreHoused'
  BY <1>1, <1>2, HistoryKeeps DEF RequestsAreFromResidents, NewcomersAreHoused
<1>. QED  BY <1>2, <1>3, <1>4, <1>5 DEF IInv

-----------------------------------------------------------------------------
(* Provisioning under the lock of the unit *)

(* Whoever needs a unit and is not blocked finds it free or holds it.        *)
LEMMA UnitIsFree ==
  ASSUME IInv, NEW h \in Handlers, NeedsUnit(h), ~Blocked(h), txn[h].unit \in Units
  PROVE  lock[txn[h].unit] \in {h, NoHandler}
BY DEF Blocked, Waits, WaitsForUnit, IInv, TypeOK

LEMMA LockKeeps ==
  ASSUME IInv, NEW h \in Handlers, LockUnit(h)
  PROVE  IInv'
<1> DEFINE n == txn[h].unit
<1>1. /\ txn[h].op \in Provisioning /\ txn[h].pc \in {"ready", "created"} /\ n \in Units
      /\ lock[n] = NoHandler
      /\ lock' = [lock EXCEPT ![n] = h]
      /\ txn' = [txn EXCEPT ![h].pc = "locked"]
      /\ UNCHANGED <<accounts, occupancy, requests>>
  <2>1. /\ txn[h].op \in Provisioning /\ txn[h].pc \in {"ready", "created"} /\ n \in Units
    BY DEF LockUnit, NeedsUnit, IInv, CallInv
  <2>2. lock[n] # h
    BY <2>1 DEF IInv, LockInv, Holds, Held
  <2>3. lock[n] = NoHandler
    BY <2>1, <2>2, UnitIsFree DEF LockUnit
  <2>. QED  BY <2>1, <2>3 DEF LockUnit
<1>2. /\ txn' \in [Handlers -> Txn]
      /\ txn'[h].pc = "locked" /\ txn'[h].op = txn[h].op /\ txn'[h].user = txn[h].user
      /\ txn'[h].unit = n /\ txn'[h].ends = txn[h].ends /\ txn'[h].reuse = txn[h].reuse
      /\ txn'[h].fresh = txn[h].fresh
      /\ \A k \in Handlers \ {h} : txn'[k] = txn[k]
  BY <1>1 DEF IInv, TypeOK, Txn
<1>3. /\ lock' \in [Units -> Handlers \cup {NoHandler}]
      /\ lock'[n] = h
      /\ \A m \in Units \ {n} : lock'[m] = lock[m]
  BY <1>1 DEF IInv, TypeOK
<1>4. TypeOK'
  BY <1>1, <1>2, <1>3 DEF IInv, TypeOK
<1>5. LockInv'
  <2>1. ASSUME NEW m \in Units, NEW k \in Handlers
        PROVE  lock'[m] = k <=> Holds(k, m)'
    <3>1. lock[m] = k <=> Holds(k, m)
      BY DEF IInv, LockInv
    <3>2. CASE k = h
      BY <1>1, <1>2, <1>3, <3>1, <3>2 DEF Holds, Held
    <3>3. CASE k # h
      <4>1. Holds(k, m)' <=> Holds(k, m)
        BY <1>2, <3>3 DEF Holds
      <4>2. CASE m = n
        BY <1>1, <1>3, <3>1, <3>3, <4>1, <4>2, OccupancyAssumption
           DEF OccupancyAssumption
      <4>3. CASE m # n
        BY <1>3, <3>1, <4>1, <4>3
      <4>. QED  BY <4>2, <4>3
    <3>. QED  BY <3>2, <3>3
  <2>. QED  BY <2>1 DEF LockInv
<1>6. CallInv'
  BY <1>1, <1>2 DEF IInv, CallInv, Held
<1>7. VacantInv'
  BY <1>1, <1>2 DEF IInv, VacantInv, Active
<1>8. EndsInv'
  BY <1>1, <1>2 DEF IInv, EndsInv
<1>9. FileInv'
  BY <1>1, <1>2 DEF IInv, FileInv
<1>10. RowInv' /\ RequestsAreFromResidents' /\ NewcomersAreHoused'
  BY <1>1 DEF IInv, RowInv, RequestsAreFromResidents, NewcomersAreHoused
<1>. QED  BY <1>4, <1>5, <1>6, <1>7, <1>8, <1>9, <1>10 DEF IInv

(* A statement after which no lock of a unit and no table is another: the    *)
(* transaction goes on, with what it saw.                                    *)
LEMMA StatementKeeps ==
  ASSUME IInv, NEW h \in Handlers, NEW t \in Txn,
         txn[h].pc # "idle", txn' = [txn EXCEPT ![h] = t],
         t.op = txn[h].op, t.user = txn[h].user, t.unit = txn[h].unit,
         t.fresh = txn[h].fresh,
         t.pc # "idle", t.pc \in Held <=> txn[h].pc \in Held,
         t.pc \in {"ending", "ended"} => t.op = "move",
         t.pc \in {"read", "ending", "ended"} /\ ~t.reuse => Active(t.unit) = {},
         (t.op = "file" /\ t.pc = "ready") \/ t.reuse =>
           \E i \in Rows : occupancy[i].user = t.user /\ occupancy[i].unit = t.unit,
         \A i \in t.ends : /\ t.pc \in {"ending", "ended"}
                           /\ i \in Elsewhere(h) \cup txn[h].ends,
         UNCHANGED <<accounts, occupancy, lock, requests>>
  PROVE  IInv'
<1>1. /\ txn' \in [Handlers -> Txn]
      /\ txn'[h] = t
      /\ \A k \in Handlers \ {h} : txn'[k] = txn[k]
  BY DEF IInv, TypeOK
<1>2. TypeOK'
  BY <1>1 DEF IInv, TypeOK
<1>3. LockInv'
  <2>1. ASSUME NEW n \in Units, NEW k \in Handlers
        PROVE  Holds(k, n)' <=> Holds(k, n)
    BY <1>1, <2>1 DEF Holds
  <2>. QED  BY <2>1 DEF IInv, LockInv
<1>4. CallInv'
  BY <1>1 DEF IInv, CallInv
<1>5. VacantInv'
  BY <1>1 DEF IInv, VacantInv, Active
<1>6. EndsInv'
  BY <1>1 DEF IInv, EndsInv, Elsewhere
<1>7. FileInv'
  BY <1>1 DEF IInv, FileInv
<1>8. RowInv' /\ RequestsAreFromResidents' /\ NewcomersAreHoused'
  BY DEF IInv, RowInv, RequestsAreFromResidents, NewcomersAreHoused
<1>. QED  BY <1>2, <1>3, <1>4, <1>5, <1>6, <1>7, <1>8 DEF IInv

-----------------------------------------------------------------------------
(* The rows a MOVE has chosen belong to its user, who has an account.        *)
LEMMA EndsAreOwn ==
  ASSUME IInv, NEW h \in Handlers
  PROVE  /\ txn[h].ends \in SUBSET Rows
         /\ \A i \in txn[h].ends : occupancy[i].user \in Users
BY DEF IInv, TypeOK, Txn, EndsInv, CallInv

LEMMA ServeKeeps ==
  ASSUME IInv, NEW h \in Handlers, Serve(h)
  PROVE  IInv'
<1>1. /\ txn[h] \in Txn
      /\ txn[h].pc # "idle" =>
           txn[h].op \in Calls /\ txn[h].user \in Users /\ txn[h].unit \in Units
      /\ txn[h].pc \in {"read", "ended"} => lock[txn[h].unit] = h
      /\ NeedsUnit(h) /\ ~Blocked(h) =>
           txn[h].pc # "idle" /\ lock[txn[h].unit] \in {h, NoHandler}
  BY UnitIsFree DEF IInv, TypeOK, CallInv, LockInv, Holds, Held, NeedsUnit
<1>2. occupancy = Ended({})
  BY NothingEnded DEF IInv
<1>3. CASE FindVacant(h)
  <2>1. CASE End(h)
    BY <1>3, <2>1, RefuseKeeps DEF FindVacant
  <2>2. CASE txn' = [txn EXCEPT ![h].pc = "ready"] /\ UNCHANGED lock
    <3> DEFINE t == [txn[h] EXCEPT !.pc = "ready"]
    <3>1. /\ t \in Txn /\ txn' = [txn EXCEPT ![h] = t]
          /\ t.op = txn[h].op /\ t.user = txn[h].user /\ t.unit = txn[h].unit
          /\ t.fresh = txn[h].fresh /\ t.pc = "ready" /\ t.reuse = txn[h].reuse /\ t.ends = txn[h].ends
      BY <1>1, <2>2 DEF IInv, TypeOK, Txn
    <3>2. /\ txn[h].pc = "called" /\ t.op \in {"create", "onboard"}
          /\ UNCHANGED <<accounts, occupancy, lock, requests>>
      BY <1>3, <2>2, <3>1 DEF FindVacant
    <3>3. t.ends = {}
      BY <3>1, <3>2 DEF IInv, EndsInv
    <3>4. t.reuse =>
            \E i \in Rows : occupancy[i].user = t.user /\ occupancy[i].unit = t.unit
      BY <3>1 DEF IInv, FileInv
    <3> HIDE DEF t
    <3>. QED  BY <3>1, <3>2, <3>3, <3>4, StatementKeeps DEF Held
  <2>. QED  BY <1>3, <2>1, <2>2 DEF FindVacant
<1>4. CASE CreateActive(h)
  BY <1>1, <1>2, <1>4, CommitOccupancyKeeps DEF CreateActive
<1>5. CASE Onboard(h)
  BY <1>1, <1>2, <1>5, CommitOccupancyKeeps DEF Onboard
<1>6. CASE CreateUser(h)
  <2>1. CASE End(h)
    BY <1>6, <2>1, RefuseKeeps DEF CreateUser
  <2>2. CASE txn' = [txn EXCEPT ![h].pc = "created"] /\ UNCHANGED lock
    <3> DEFINE t == [txn[h] EXCEPT !.pc = "created"]
    <3>1. /\ t \in Txn /\ txn' = [txn EXCEPT ![h] = t]
          /\ t.op = txn[h].op /\ t.user = txn[h].user /\ t.unit = txn[h].unit
          /\ t.fresh = txn[h].fresh /\ t.pc = "created" /\ t.reuse = txn[h].reuse /\ t.ends = txn[h].ends
      BY <1>1, <2>2 DEF IInv, TypeOK, Txn
    <3>2. /\ txn[h].pc = "ready"
          /\ UNCHANGED <<accounts, occupancy, lock, requests>>
      BY <1>6, <2>2, <3>1 DEF CreateUser
    <3>3. t.ends = {}
      BY <3>1, <3>2 DEF IInv, EndsInv
    <3>4. t.reuse =>
            \E i \in Rows : occupancy[i].user = t.user /\ occupancy[i].unit = t.unit
      BY <3>1 DEF IInv, FileInv
    <3> HIDE DEF t
    <3>. QED  BY <3>1, <3>2, <3>3, <3>4, StatementKeeps DEF Held
  <2>. QED  BY <1>6, <2>1, <2>2 DEF CreateUser
<1>7. CASE LockUnit(h)
  BY <1>7, LockKeeps
<1>8. CASE FindExistingForUnit(h)
  <2>1. CASE End(h)
    BY <1>8, <2>1, RefuseKeeps DEF FindExistingForUnit
  <2>2. /\ txn[h].pc = "locked"
        /\ UNCHANGED <<accounts, occupancy, requests>>
        /\ txn[h].ends = {}
    BY <1>8 DEF FindExistingForUnit, IInv, EndsInv
  <2>3. CASE /\ Active(txn[h].unit) = {}
             /\ txn' = [txn EXCEPT ![h].pc = "read"]
             /\ UNCHANGED lock
    <3> DEFINE t == [txn[h] EXCEPT !.pc = "read"]
    <3>1. /\ t \in Txn /\ txn' = [txn EXCEPT ![h] = t]
          /\ t.op = txn[h].op /\ t.user = txn[h].user /\ t.unit = txn[h].unit
          /\ t.fresh = txn[h].fresh /\ t.pc = "read" /\ t.reuse = txn[h].reuse /\ t.ends = {}
      BY <1>1, <2>2, <2>3 DEF IInv, TypeOK, Txn
    <3>2. t.reuse =>
            \E i \in Rows : occupancy[i].user = t.user /\ occupancy[i].unit = t.unit
      BY <3>1 DEF IInv, FileInv
    <3> HIDE DEF t
    <3>. QED  BY <2>2, <2>3, <3>1, <3>2, StatementKeeps DEF Held
  <2>4. ASSUME NEW i \in Active(txn[h].unit), occupancy[i].user = txn[h].user,
               txn' = [txn EXCEPT ![h].pc = "read", ![h].reuse = TRUE], UNCHANGED lock
        PROVE  IInv'
    <3> DEFINE t == [txn[h] EXCEPT !.pc = "read", !.reuse = TRUE]
    <3>1. /\ t \in Txn /\ txn' = [txn EXCEPT ![h] = t]
          /\ t.op = txn[h].op /\ t.user = txn[h].user /\ t.unit = txn[h].unit
          /\ t.fresh = txn[h].fresh /\ t.pc = "read" /\ t.reuse = TRUE /\ t.ends = {}
      BY <1>1, <2>2, <2>4 DEF IInv, TypeOK, Txn
    <3>2. \E j \in Rows : occupancy[j].user = t.user /\ occupancy[j].unit = t.unit
      BY <2>4, <3>1 DEF Active
    <3> HIDE DEF t
    <3>. QED  BY <2>2, <2>4, <3>1, <3>2, StatementKeeps DEF Held
  <2>. QED  BY <1>8, <2>1, <2>3, <2>4 DEF FindExistingForUnit
<1>9. CASE FindOthers(h)
  <2> DEFINE t == [txn[h] EXCEPT !.pc = "ending", !.ends = Elsewhere(h)]
  <2>1. /\ t \in Txn /\ txn' = [txn EXCEPT ![h] = t]
        /\ t.op = txn[h].op /\ t.user = txn[h].user /\ t.unit = txn[h].unit
        /\ t.fresh = txn[h].fresh /\ t.pc = "ending" /\ t.reuse = txn[h].reuse /\ t.ends = Elsewhere(h)
    BY <1>1, <1>9 DEF IInv, TypeOK, Txn, FindOthers, Elsewhere
  <2>2. /\ txn[h].op = "move" /\ txn[h].pc = "read"
        /\ UNCHANGED <<accounts, occupancy, lock, requests>>
    BY <1>9 DEF FindOthers
  <2>3. /\ ~t.reuse => Active(t.unit) = {}
        /\ t.reuse =>
             \E i \in Rows : occupancy[i].user = t.user /\ occupancy[i].unit = t.unit
    BY <2>1, <2>2 DEF IInv, VacantInv, FileInv
  <2> HIDE DEF t
  <2>. QED  BY <2>1, <2>2, <2>3, StatementKeeps DEF Held
<1>12. CASE EndOthers(h)
  <2> DEFINE t == [txn[h] EXCEPT !.pc = "ended"]
  <2>1. /\ t \in Txn /\ txn' = [txn EXCEPT ![h] = t]
        /\ t.op = txn[h].op /\ t.user = txn[h].user /\ t.unit = txn[h].unit
        /\ t.fresh = txn[h].fresh /\ t.pc = "ended" /\ t.reuse = txn[h].reuse /\ t.ends = txn[h].ends
    BY <1>1, <1>12 DEF IInv, TypeOK, Txn, EndOthers
  <2>2. /\ txn[h].op = "move" /\ txn[h].pc = "ending"
        /\ UNCHANGED <<accounts, occupancy, lock, requests>>
    BY <1>12 DEF EndOthers, IInv, CallInv
  <2>3. /\ ~t.reuse => Active(t.unit) = {}
        /\ t.reuse =>
             \E i \in Rows : occupancy[i].user = t.user /\ occupancy[i].unit = t.unit
    BY <2>1, <2>2 DEF IInv, VacantInv, FileInv
  <2> HIDE DEF t
  <2>. QED  BY <2>1, <2>2, <2>3, StatementKeeps DEF Held
<1>10. CASE CommitProvision(h)
  <2>1. /\ txn[h].op \in Provisioning /\ txn[h].pc \in {"read", "ended"}
        /\ accounts' = accounts \cup {txn[h].user}
        /\ End(h) /\ UNCHANGED requests
    BY <1>10 DEF CommitProvision, Provisioning
  <2>2. CASE txn[h].reuse /\ occupancy' = Ended(txn[h].ends)
    <3>1. \E i \in Rows : occupancy[i].user = txn[h].user
      BY <2>2 DEF IInv, FileInv
    <3>2. accounts' \subseteq Users
      BY <1>1, <2>1 DEF IInv, TypeOK
    <3>. QED  BY <2>1, <2>2, <3>1, <3>2, EndsAreOwn, CommitEndsKeeps
  <2>3. CASE InsertOccupancy(h, Ended(txn[h].ends))
    BY <1>1, <2>1, <2>3, EndsAreOwn, CommitOccupancyKeeps
  <2>. QED  BY <1>10, <2>2, <2>3 DEF CommitProvision
<1>11. CASE FileRequest(h)
  <2>1. /\ txn[h].op = "file" /\ txn[h].pc # "idle" /\ End(h)
        /\ txn[h].pc = "ready"
        /\ requests' = requests \cup {[user |-> txn[h].user, unit |-> txn[h].unit]}
        /\ UNCHANGED <<accounts, occupancy>>
    BY <1>11 DEF FileRequest, NeedsUnit, IInv, CallInv
  <2>2. VacantInv' /\ EndsInv' /\ FileInv'
    <3>1. RowsKept
      BY <2>1 DEF RowsKept
    <3>. QED  BY <2>1, <3>1, CommitKeeps
  <2>3. TypeOK' /\ LockInv' /\ CallInv'
    BY <1>1, <2>1, EndFacts DEF IInv, TypeOK
  <2>4. RequestsAreFromResidents'
    BY <2>1 DEF IInv, RequestsAreFromResidents, FileInv
  <2>5. RowInv' /\ NewcomersAreHoused'
    BY <2>1 DEF IInv, RowInv, NewcomersAreHoused
  <2>. QED  BY <2>2, <2>3, <2>4, <2>5 DEF IInv
<1>. QED  BY <1>3, <1>4, <1>5, <1>6, <1>7, <1>8, <1>9, <1>10, <1>11, <1>12 DEF Serve

(* Everything a handler relies on between its statements stays true. *)
THEOREM OccupancyInvariant == Spec => []IInv
<1>1. Init => IInv
  <2>1. ASSUME Init
        PROVE  TypeOK /\ \A i \in Rows : occupancy[i].status = "NONE"
    BY <2>1, OccupancyAssumption
       DEF Init, TypeOK, Row, NoRow, Txn, Idle, OccupancyAssumption
  <2>2. ASSUME Init
        PROVE  LockInv /\ CallInv /\ VacantInv /\ EndsInv /\ FileInv
    BY <2>2, OccupancyAssumption
       DEF Init, Idle, LockInv, Holds, Held, CallInv, VacantInv, EndsInv, FileInv,
           OccupancyAssumption
  <2>3. ASSUME Init
        PROVE  RowInv /\ RequestsAreFromResidents /\ NewcomersAreHoused
    BY <2>3 DEF Init, NoRow, RowInv, RequestsAreFromResidents, NewcomersAreHoused
  <2>. QED  BY <2>1, <2>2, <2>3 DEF IInv
<1>2. IInv /\ [Next]_vars => IInv'
  <2>1. SUFFICES ASSUME IInv, [Next]_vars
                 PROVE  IInv'
    OBVIOUS
  <2>2. ASSUME NEW h \in Handlers, NEW u \in Users, NEW n \in Units, Call(h, u, n)
        PROVE  IInv'
    BY <2>1, <2>2, BeginKeeps
  <2>3. ASSUME NEW h \in Handlers, Serve(h)
        PROVE  IInv'
    BY <2>1, <2>3, ServeKeeps
  <2>4. ASSUME NEW h \in Handlers, Abort(h)
        PROVE  IInv'
    BY <2>1, <2>4, RefuseKeeps DEF Abort
  <2>5. CASE UNCHANGED vars
    BY <2>1, <2>5 DEF vars, IInv, TypeOK, LockInv, Holds, Held, CallInv, VacantInv, Active,
                      EndsInv, FileInv, RowInv, RequestsAreFromResidents,
                      NewcomersAreHoused
  <2>. QED  BY <2>1, <2>2, <2>3, <2>4, <2>5 DEF Next
<1>. QED  BY <1>1, <1>2, PTL DEF Spec

-----------------------------------------------------------------------------
(* Every variable keeps its type, whatever calls overlap. *)
THEOREM OccupancyTypes == Spec => []TypeOK
<1>1. IInv => TypeOK
  BY DEF IInv
<1>. QED  BY <1>1, OccupancyInvariant, PTL

(* Onboarding and provisioning never leave an account without an occupancy.  *)
THEOREM NewcomersAlwaysHoused == Spec => []NewcomersAreHoused
<1>1. IInv => NewcomersAreHoused
  BY DEF IInv
<1>. QED  BY <1>1, OccupancyInvariant, PTL

(* Requests name units their authors live or have lived in, even when a MOVE *)
(* overtakes them.                                                           *)
THEOREM RequestsComeFromResidents == Spec => []RequestsAreFromResidents
<1>1. IInv => RequestsAreFromResidents
  BY DEF IInv
<1>. QED  BY <1>1, OccupancyInvariant, PTL

-----------------------------------------------------------------------------
(* Emails are locked before units, units before the rows of a MOVE: whoever  *)
(* waits is further back than whoever it waits for.                          *)
LEMMA WaitsForOneAhead ==
  ASSUME IInv, NEW h \in Handlers, NEW k \in Handlers, Waits(h, k)
  PROVE  \/ txn[h].pc = "ready" /\ txn[k].pc \in {"created"} \cup Held
         \/ txn[h].pc = "created" /\ txn[k].pc \in Held
         \/ txn[h].pc = "ending" /\ txn[k].pc = "ended"
<1>1. CASE WaitsForEmail(h, k)
  BY <1>1 DEF WaitsForEmail, HoldsEmail, Held
<1>2. CASE WaitsForUnit(h, k)
  <2>1. txn[h].pc \in {"ready", "created"} /\ lock[txn[h].unit] = k
    BY <1>2 DEF WaitsForUnit, NeedsUnit
  <2>2. txn[h].unit \in Units
    BY <2>1 DEF IInv, CallInv
  <2>3. txn[k].pc \in Held
    BY <2>1, <2>2 DEF IInv, LockInv, Holds
  <2>. QED  BY <2>1, <2>3
<1>3. CASE WaitsForRows(h, k)
  BY <1>3 DEF WaitsForRows
<1>. QED  BY <1>1, <1>2, <1>3 DEF Waits

(* Of any calls that overlap one waits for none of the others: provisioning, *)
(* onboarding and MOVEs never stop each other for good.                      *)
THEOREM NobodyDeadlocks == Spec => []NoDeadlock
<1>1. IInv => NoDeadlock
  <2>1. SUFFICES ASSUME IInv, NEW S \in SUBSET Handlers, S # {}
                 PROVE  \E h \in S : \A k \in S : ~Waits(h, k)
    BY DEF NoDeadlock
  <2> DEFINE Far == {"ended", "idle", "called", "locked", "read"}
  <2>2. CASE \E h \in S : txn[h].pc \in Far
    BY <2>1, <2>2, WaitsForOneAhead
  <2>3. CASE (\A h \in S : txn[h].pc \notin Far) /\ \E h \in S : txn[h].pc = "ending"
    BY <2>1, <2>3, WaitsForOneAhead
  <2>4. CASE /\ \A h \in S : txn[h].pc \notin Far \cup {"ending"}
             /\ \E h \in S : txn[h].pc = "created"
    BY <2>1, <2>4, WaitsForOneAhead DEF Held
  <2>5. CASE \A h \in S : txn[h].pc \notin Far \cup {"ending", "created"}
    BY <2>1, <2>5, WaitsForOneAhead DEF Held
  <2>. QED  BY <2>2, <2>3, <2>4, <2>5
<1>. QED  BY <1>1, OccupancyInvariant, PTL

-----------------------------------------------------------------------------
(* An occupancy ends in a step of its resident's MOVE, under the lock. *)
EndedByOwnMove(i) ==
  (occupancy[i].status = "ACTIVE" /\ occupancy'[i].status # "ACTIVE") =>
    \E h \in Handlers :
      /\ txn[h].op = "move" /\ txn[h].user = occupancy[i].user
      /\ txn[h].unit # occupancy[i].unit
      /\ UnitBuilding[txn[h].unit] = UnitBuilding[occupancy[i].unit]
      /\ lock[txn[h].unit] = h /\ h \in Busy

LEMMA OnlyMoveEnds ==
  ASSUME IInv, [Next]_vars, NEW i \in Rows
  PROVE  EndedByOwnMove(i)
<1> USE DEF EndedByOwnMove
<1>1. CASE UNCHANGED occupancy
  BY <1>1
<1>2. ASSUME NEW h \in Handlers, CreateActive(h) \/ Onboard(h), ~UNCHANGED occupancy
      PROVE  EndedByOwnMove(i)
  <2>1. InsertOccupancy(h, occupancy)
    BY <1>2 DEF CreateActive, Onboard
  <2>. QED  BY <2>1 DEF InsertOccupancy, IInv, TypeOK
<1>3. ASSUME NEW h \in Handlers, CommitProvision(h)
      PROVE  EndedByOwnMove(i)
  <2>1. CASE i \notin txn[h].ends
    <3>1. Ended(txn[h].ends) \in [Rows -> Row] /\ Ended(txn[h].ends)[i] = occupancy[i]
      BY <2>1, EndsAreOwn, EndedFacts DEF IInv
    <3>2. occupancy'[i] = occupancy[i] \/ occupancy'[i].status = "ACTIVE"
      BY <1>3, <3>1 DEF CommitProvision, InsertOccupancy
    <3>. QED  BY <3>2
  <2>2. CASE i \in txn[h].ends
    <3>1. /\ txn[h].op = "move" /\ txn[h].pc \in {"ending", "ended"}
          /\ occupancy[i].user = txn[h].user /\ occupancy[i].unit # txn[h].unit
          /\ UnitBuilding[occupancy[i].unit] = UnitBuilding[txn[h].unit]
          /\ h \in Busy
      BY <2>2 DEF IInv, EndsInv, Busy
    <3>2. lock[txn[h].unit] = h
      BY <3>1 DEF IInv, LockInv, Holds, Held, CallInv, Provisioning
    <3>. QED  BY <3>1, <3>2
  <2>. QED  BY <2>1, <2>2
<1>4. ASSUME NEW h \in Handlers, NEW u \in Users, NEW n \in Units, Call(h, u, n)
      PROVE  UNCHANGED occupancy
  BY <1>4 DEF Call, CallCreate, CallOnboard, CallProvision,
              FindAssignedActiveOccupancy, Begin
<1>5. ASSUME NEW h \in Handlers,
             \/ FindVacant(h) \/ CreateUser(h) \/ LockUnit(h) \/ FindExistingForUnit(h)
             \/ FindOthers(h) \/ EndOthers(h) \/ FileRequest(h) \/ Abort(h)
      PROVE  UNCHANGED occupancy
  BY <1>5 DEF FindVacant, CreateUser, LockUnit, FindExistingForUnit, FindOthers,
              EndOthers, FileRequest, Abort
<1>. QED  BY <1>1, <1>2, <1>3, <1>4, <1>5 DEF Next, Serve, vars

(* Only a MOVE of the resident, under the lock of the new unit, ends an      *)
(* occupancy.                                                                *)
THEOREM OnlyOwnMoveEnds == Spec => MoveEndsOwnOnly
<1> DEFINE Own(i) ==
      (occupancy[i].status = "ACTIVE" /\ occupancy'[i].status # "ACTIVE") =>
        \E h \in Handlers :
          /\ txn[h].op = "move" /\ txn[h].user = occupancy[i].user
          /\ txn[h].unit # occupancy[i].unit
          /\ UnitBuilding[txn[h].unit] = UnitBuilding[occupancy[i].unit]
          /\ lock[txn[h].unit] = h
<1>1. IInv /\ [Next]_vars => [\A i \in Rows : Own(i)]_vars
  BY OnlyMoveEnds DEF EndedByOwnMove
<1>. QED  BY <1>1, OccupancyInvariant, PTL DEF Spec, MoveEndsOwnOnly

(* When every writer takes the lock of the unit, no unit ever has two ACTIVE *)
(* occupancies, however many calls overlap.                                  *)
THEOREM LockingWritersExclude ==
  Spec /\ []LocksOnly => []OneActivePerUnit
<1>1. Init => OneActivePerUnit
  BY DEF Init, NoRow, OneActivePerUnit, Active
<1>2. IInv /\ LocksOnly /\ OneActivePerUnit /\ [Next]_vars => OneActivePerUnit'
  <2>1. SUFFICES ASSUME IInv, LocksOnly, OneActivePerUnit, [Next]_vars
                 PROVE  OneActivePerUnit'
    OBVIOUS
  <2>2. CASE UNCHANGED occupancy
    BY <2>1, <2>2 DEF OneActivePerUnit, Active
  <2>3. ASSUME NEW h \in Handlers, CommitProvision(h)
        PROVE  OneActivePerUnit'
    <3>1. /\ txn[h].op \in Provisioning /\ txn[h].pc \in {"read", "ended"}
          /\ txn[h].user \in Users /\ txn[h].unit \in Units
          /\ ~txn[h].reuse => Active(txn[h].unit) = {}
      BY <2>1, <2>3 DEF CommitProvision, Provisioning, IInv, CallInv, VacantInv
    <3>2. /\ txn[h].ends \in SUBSET Rows
          /\ \A i \in txn[h].ends : occupancy[i].user \in Users
      BY <2>1, EndsAreOwn
    <3>3. CASE occupancy' = Ended(txn[h].ends)
      <4>1. \A i \in Rows : occupancy'[i].status = "ACTIVE" =>
              occupancy[i].status = "ACTIVE" /\ occupancy'[i].unit = occupancy[i].unit
        BY <2>1, <3>2, <3>3, EndedFacts DEF IInv
      <4>. QED  BY <2>1, <4>1 DEF OneActivePerUnit, Active
    <3>4. CASE InsertOccupancy(h, Ended(txn[h].ends)) /\ ~txn[h].reuse
      <4>1. \E i \in Rows :
              /\ occupancy'[i].unit = txn[h].unit
              /\ \A j \in Rows \ {i} : /\ occupancy'[j].unit = occupancy[j].unit
                                       /\ occupancy'[j].status = "ACTIVE" =>
                                            occupancy[j].status = "ACTIVE"
        BY <2>1, <3>1, <3>2, <3>4, InsertFacts DEF IInv
      <4>. QED  BY <2>1, <3>1, <3>4, <4>1 DEF OneActivePerUnit, Active
    <3>. QED  BY <2>3, <3>3, <3>4 DEF CommitProvision
  <2>4. ASSUME NEW h \in Handlers
        PROVE  ~CreateActive(h) /\ ~Onboard(h) /\ ~FindVacant(h)
    BY <2>1 DEF CreateActive, Onboard, FindVacant, NeedsUnit, LocksOnly, Busy, LockingCalls
  <2>5. ASSUME NEW h \in Handlers, NEW u \in Users, NEW n \in Units, Call(h, u, n)
        PROVE  UNCHANGED occupancy
    BY <2>5 DEF Call, CallCreate, CallOnboard, CallProvision,
                FindAssignedActiveOccupancy, Begin
  <2>6. ASSUME NEW h \in Handlers,
               \/ CreateUser(h) \/ LockUnit(h) \/ FindExistingForUnit(h)
               \/ FindOthers(h) \/ EndOthers(h) \/ FileRequest(h) \/ Abort(h)
        PROVE  UNCHANGED occupancy
    BY <2>6 DEF CreateUser, LockUnit, FindExistingForUnit, FindOthers, EndOthers,
                FileRequest, Abort
  <2>. QED  BY <2>1, <2>2, <2>3, <2>4, <2>5, <2>6 DEF Next, Serve, vars
<1>. QED  BY <1>1, <1>2, OccupancyInvariant, PTL DEF Spec

-----------------------------------------------------------------------------
(* Requests are filed from home *)

(* Nobody moves while a request is on its way. *)
NoMoveBesideFile ==
  \A g, h \in Busy : txn[g].op = "file" => txn[h].op # "move"

HomeInv ==
  \A h \in Handlers :
    (txn[h].op = "file" /\ txn[h].pc = "ready") =>
      \E i \in Active(txn[h].unit) : occupancy[i].user = txn[h].user

LEMMA RowsAreKept ==
  ASSUME IInv, [Next]_vars
  PROVE  RowsKept
<1>1. CASE UNCHANGED occupancy
  BY <1>1 DEF RowsKept
<1>2. ASSUME NEW h \in Handlers, NEW ends \in SUBSET Rows, h \in Busy,
             \A i \in ends : occupancy[i].user \in Users,
             InsertOccupancy(h, Ended(ends))
      PROVE  RowsKept
  <2>1. txn[h].user \in Users /\ txn[h].unit \in Units
    BY <1>2 DEF IInv, CallInv, Busy
  <2>. QED  BY <1>2, <2>1, InsertFacts DEF IInv
<1>3. ASSUME NEW h \in Handlers, CreateActive(h) \/ Onboard(h), ~UNCHANGED occupancy
      PROVE  RowsKept
  <2>1. InsertOccupancy(h, Ended({})) /\ h \in Busy
    BY <1>3, NothingEnded DEF CreateActive, Onboard, NeedsUnit, Busy, IInv
  <2>. QED  BY <1>2, <2>1
<1>4. ASSUME NEW h \in Handlers, CommitProvision(h)
      PROVE  RowsKept
  <2>1. h \in Busy
    BY <1>4 DEF CommitProvision, Busy
  <2>2. /\ txn[h].ends \in SUBSET Rows
        /\ \A i \in txn[h].ends : occupancy[i].user \in Users
    BY <2>1, EndsAreOwn
  <2>3. CASE occupancy' = Ended(txn[h].ends)
    BY <2>2, <2>3, EndedFacts DEF IInv, RowsKept
  <2>. QED  BY <1>2, <1>4, <2>1, <2>2, <2>3 DEF CommitProvision
<1>5. ASSUME NEW h \in Handlers, NEW u \in Users, NEW n \in Units, Call(h, u, n)
      PROVE  UNCHANGED occupancy
  BY <1>5 DEF Call, CallCreate, CallOnboard, CallProvision,
              FindAssignedActiveOccupancy, Begin
<1>6. ASSUME NEW h \in Handlers,
             \/ FindVacant(h) \/ CreateUser(h) \/ LockUnit(h) \/ FindExistingForUnit(h)
             \/ FindOthers(h) \/ EndOthers(h) \/ FileRequest(h) \/ Abort(h)
      PROVE  UNCHANGED occupancy
  BY <1>6 DEF FindVacant, CreateUser, LockUnit, FindExistingForUnit, FindOthers,
              EndOthers, FileRequest, Abort
<1>. QED  BY <1>1, <1>3, <1>4, <1>5, <1>6 DEF Next, Serve, vars

(* Only the read of the occupancy brings a request to where it is filed. *)
LEMMA ReadyToFile ==
  ASSUME IInv, [Next]_vars, NEW k \in Handlers,
         txn'[k].op = "file", txn'[k].pc = "ready"
  PROVE  \/ txn'[k] = txn[k]
         \/ /\ UNCHANGED occupancy
            /\ \E u \in Users, n \in Units :
                 /\ txn'[k].user = u /\ txn'[k].unit = n
                 /\ \E i \in Active(n) : occupancy[i].user = u
<1>1. CASE UNCHANGED vars
  BY <1>1 DEF vars
<1>2. ASSUME NEW h \in Handlers, NEW u \in Users, NEW n \in Units, Call(h, u, n)
      PROVE  \/ txn'[k] = txn[k]
             \/ /\ UNCHANGED occupancy /\ txn'[k].user = u /\ txn'[k].unit = n
                /\ \E i \in Active(n) : occupancy[i].user = u
  <2>1. ASSUME NEW op, NEW pc, Begin(h, op, u, n, pc)
        PROVE  /\ UNCHANGED occupancy
               /\ txn'[h].op = op /\ txn'[h].user = u /\ txn'[h].unit = n
               /\ \A g \in Handlers \ {h} : txn'[g] = txn[g]
    BY <2>1 DEF Begin, Idle, IInv, TypeOK
  <2>2. CASE FindAssignedActiveOccupancy(h, u, n)
    BY <2>1, <2>2 DEF FindAssignedActiveOccupancy
  <2>3. ASSUME NEW op \in Provisioning \cup {"create", "onboard"}, NEW pc,
               Begin(h, op, u, n, pc)
        PROVE  txn'[k] = txn[k]
    BY <2>1, <2>3 DEF Provisioning
  <2>. QED  BY <1>2, <2>2, <2>3 DEF Call, CallCreate, CallOnboard, CallProvision
<1>3. ASSUME NEW h \in Handlers, Serve(h) \/ Abort(h)
      PROVE  txn'[k] = txn[k]
  <2>1. CASE End(h)
    <3>1. k # h
      BY <2>1 DEF End, Idle, IInv, TypeOK
    <3>. QED  BY <2>1, <3>1, EndFacts
  <2>2. CASE ~End(h)
    <3>1. /\ txn[h].op # "file" /\ txn'[h].op = txn[h].op
          /\ \A g \in Handlers \ {h} : txn'[g] = txn[g]
      <4>1. CASE FindVacant(h)
        BY <2>2, <4>1 DEF FindVacant, IInv, TypeOK, Txn
      <4>2. CASE LockUnit(h)
        BY <2>2, <4>2 DEF LockUnit, IInv, TypeOK, Txn, Provisioning
      <4>3. CASE FindExistingForUnit(h)
        BY <2>2, <4>3 DEF FindExistingForUnit, IInv, TypeOK, Txn, CallInv, Held, Provisioning
      <4>4. CASE FindOthers(h) \/ EndOthers(h)
        BY <4>4 DEF FindOthers, EndOthers, IInv, TypeOK, Txn, CallInv
      <4>5. CASE CreateUser(h)
        BY <2>2, <4>5 DEF CreateUser, IInv, TypeOK, Txn, CallInv
      <4>. QED  BY <1>3, <2>2, <4>1, <4>2, <4>3, <4>4, <4>5
                DEF Serve, Abort, CreateActive, Onboard, CommitProvision, FileRequest
    <3>. QED  BY <3>1
  <2>. QED  BY <2>1, <2>2
<1>. QED  BY <1>1, <1>2, <1>3 DEF Next

(* A request that overlaps no MOVE is filed for a unit its author lives in.  *)
THEOREM RequestsComeFromHome ==
  Spec /\ []NoMoveBesideFile => [][FiledFrom]_vars
<1>1. Init => HomeInv
  BY DEF Init, Idle, HomeInv
<1>2. IInv /\ NoMoveBesideFile' /\ NoMoveBesideFile /\ HomeInv /\ [Next]_vars => HomeInv'
  <2>1. SUFFICES ASSUME IInv, NoMoveBesideFile, HomeInv, [Next]_vars,
                        NEW k \in Handlers, txn'[k].op = "file", txn'[k].pc = "ready"
                 PROVE  \E i \in Active(txn[k].unit)' : occupancy'[i].user = txn'[k].user
    BY DEF HomeInv
  <2>2. CASE txn'[k] = txn[k]
    <3>1. PICK i \in Active(txn[k].unit) : occupancy[i].user = txn[k].user
      BY <2>1, <2>2 DEF HomeInv
    <3>2. i \in Rows /\ occupancy[i].status = "ACTIVE" /\ occupancy[i].user \in Users
      BY <2>1, <2>2, <3>1 DEF Active, IInv, CallInv
    <3>3. occupancy'[i].status = "ACTIVE"
      BY <2>1, <2>2, <3>2, OnlyMoveEnds
         DEF EndedByOwnMove, NoMoveBesideFile, Busy
    <3>. QED  BY <2>1, <2>2, <3>1, <3>2, <3>3, RowsAreKept DEF RowsKept, Active
  <2>3. CASE txn'[k] # txn[k]
    BY <2>1, <2>3, ReadyToFile DEF Active
  <2>. QED  BY <2>2, <2>3
<1>3. IInv /\ HomeInv /\ [Next]_vars => [FiledFrom]_vars
  <2>1. SUFFICES ASSUME IInv, HomeInv, [Next]_vars, NEW q \in requests', q \notin requests
                 PROVE  q.unit \in Homes(q.user, UnitBuilding[q.unit])
    BY DEF FiledFrom
  <2>2. PICK h \in Handlers : FileRequest(h)
    <3>1. ASSUME NEW h \in Handlers, NEW u \in Users, NEW n \in Units, Call(h, u, n)
          PROVE  requests' = requests
      BY <3>1 DEF Call, CallCreate, CallOnboard, CallProvision, FindAssignedActiveOccupancy, Begin
    <3>2. ASSUME NEW h \in Handlers, FindVacant(h) \/ CreateActive(h) \/ Onboard(h) \/ CreateUser(h)
          PROVE  requests' = requests
      BY <3>2 DEF FindVacant, CreateActive, Onboard, CreateUser
    <3>3. ASSUME NEW h \in Handlers, LockUnit(h) \/ FindExistingForUnit(h) \/ FindOthers(h)
                                      \/ EndOthers(h) \/ CommitProvision(h) \/ Abort(h)
          PROVE  requests' = requests
      BY <3>3 DEF LockUnit, FindExistingForUnit, FindOthers, EndOthers, CommitProvision, Abort
    <3>. QED  BY <2>1, <3>1, <3>2, <3>3 DEF Next, Serve, vars
  <2>3. /\ q = [user |-> txn[h].user, unit |-> txn[h].unit]
        /\ \E i \in Active(txn[h].unit) : occupancy[i].user = txn[h].user
    BY <2>1, <2>2 DEF FileRequest, NeedsUnit, HomeInv, IInv, CallInv
  <2>4. txn[h].unit \in Units
    BY <2>1, <2>2 DEF FileRequest, NeedsUnit, IInv, CallInv
  <2>. QED  BY <2>3, <2>4 DEF Homes
<1>. QED  BY <1>1, <1>2, <1>3, OccupancyInvariant, PTL DEF Spec

-----------------------------------------------------------------------------
(* The scenarios that TLC runs *)

Locked == scenario = "locked"

Serial == scenario = "serial"

LEMMA ScenarioIsKept ==
  MCSpec => /\ Spec /\ ([]Locked \/ []~Locked) /\ ([]Serial \/ []~Serial)
            /\ (Locked => []LocksOnly) /\ (Serial => []OneAtATime)
            /\ [][UNCHANGED scenario]_mcvars
<1>1. MCInit => Init /\ LocksOnly /\ OneAtATime
  BY DEF MCInit, Init, Idle, LocksOnly, OneAtATime, Busy
<1>2. [MCNext]_mcvars => /\ [Next]_vars
                         /\ (Locked => Locked') /\ (~Locked => ~Locked')
                         /\ (Serial => Serial') /\ (~Serial => ~Serial')
                         /\ [UNCHANGED scenario]_mcvars
  BY DEF MCNext, mcvars, Locked, Serial
<1>3. [MCNext]_mcvars /\ Locked /\ LocksOnly => LocksOnly'
  BY DEF MCNext, mcvars, vars, Locked, LocksOnly, Busy
<1>4. [MCNext]_mcvars /\ Serial /\ OneAtATime => OneAtATime'
  BY DEF MCNext, mcvars, vars, Serial, OneAtATime, Busy
<1>. QED  BY <1>1, <1>2, <1>3, <1>4, PTL DEF MCSpec, Spec

(* In the scenario where every writer locks the unit, no unit has two ACTIVE *)
(* occupancies.                                                              *)
THEOREM LockedScenarioIsExclusive == MCSpec => []LockedUnitsAreExclusive
<1>1. LockedUnitsAreExclusive <=> (Locked => OneActivePerUnit)
  BY DEF LockedUnitsAreExclusive, Locked
<1>. QED  BY <1>1, ScenarioIsKept, LockingWritersExclude, PTL

(* In the scenario where calls do not overlap, every request is filed for a  *)
(* unit its author lives in.                                                 *)
THEOREM SerialRequestsComeFromHome == MCSpec => FiledFromHome
<1>1. OneAtATime => NoMoveBesideFile
  BY DEF OneAtATime, NoMoveBesideFile
<1>2. [FiledFrom]_vars /\ [MCNext]_mcvars => [Serial => FiledFrom]_mcvars
  BY DEF MCNext, mcvars, vars, FiledFrom
<1>3. (~Serial) => [Serial => FiledFrom]_mcvars
  OBVIOUS
<1>. QED  BY <1>1, <1>2, <1>3, ScenarioIsKept, RequestsComeFromHome, PTL
             DEF FiledFromHome, Serial, MCSpec
=============================================================================
