----------------------------- MODULE Occupancy -----------------------------
(***************************************************************************)
(* Who lives where: the writers of the Occupancy table                     *)
(* (occupancies.repo.ts, residents.service.ts,                             *)
(* org-users-provision.service.ts) and the resident's request, which is    *)
(* filed for the unit the table names.                                     *)
(*                                                                         *)
(* A transaction is one step per statement that meets other transactions.  *)
(* At READ COMMITTED a read sees what was committed before it.  Only       *)
(* provisioning locks the unit (SELECT ... FOR UPDATE); the foreign key of *)
(* an inserted row takes the KEY SHARE lock on its unit, so an insert      *)
(* waits for that lock but two inserts do not wait for each other.  The    *)
(* table has no unique index on ACTIVE rows.  The last insert of a         *)
(* transaction and its commit are one step: in between nobody sees the     *)
(* row, and whoever needs a lock the transaction holds waits.  The rows    *)
(* that a MOVE ends are locked together: two updates of the same rows find *)
(* them in the same order.  A call refused before it writes anything is    *)
(* left out.                                                               *)
(***************************************************************************)
EXTENDS FiniteSets, Naturals

CONSTANTS
  Users,         \* people, each with one email address
  Residents,     \* those with an account from the start
  Units,         \* units of one organisation
  UnitBuilding,  \* the building of a unit
  Rows,          \* identifiers of occupancy rows; their number is a bound
  Handlers,      \* HTTP calls that may be in flight at once
  Calls,         \* the operations clients use
  NoUser,        \* the resident of a row that does not exist
  NoUnit,        \* the unit of a row that does not exist
  NoHandler      \* nobody holds the lock

VARIABLES
  accounts,      \* users with a User row
  occupancy,     \* Occupancy rows
  lock,          \* the transaction that holds FOR UPDATE on a unit
  txn,           \* the call each handler is serving
  requests       \* whose requests were filed for which units

vars == <<accounts, occupancy, lock, txn, requests>>

(* create: POST occupancies.  onboard: POST residents.  add, move: POST      *)
(* provision with a resident grant.  file: POST resident/requests.           *)
Provisioning == {"add", "move"}
Ops == Provisioning \cup {"create", "onboard", "file"}

ASSUME OccupancyAssumption ==
  /\ Residents \subseteq Users
  /\ Calls \subseteq Ops
  /\ NoUser \notin Users
  /\ NoUnit \notin Units
  /\ NoHandler \notin Handlers

Row == [user: Users \cup {NoUser}, unit: Units \cup {NoUnit},
        status: {"NONE", "ACTIVE", "ENDED"}]

NoRow == [user |-> NoUser, unit |-> NoUnit, status |-> "NONE"]

Txn == [pc: {"idle", "called", "ready", "created", "locked", "read", "ending", "ended"},
        op: Ops \cup {"none"},
        user: Users \cup {NoUser},
        unit: Units \cup {NoUnit},
        fresh: BOOLEAN,      \* the transaction inserts the account
        reuse: BOOLEAN,      \* the user already lives in the unit
        ends: SUBSET Rows]   \* rows that the UPDATE of a MOVE has found

Idle == [pc |-> "idle", op |-> "none", user |-> NoUser, unit |-> NoUnit,
         fresh |-> FALSE, reuse |-> FALSE, ends |-> {}]

TypeOK ==
  /\ accounts \subseteq Users
  /\ occupancy \in [Rows -> Row]
  /\ lock \in [Units -> Handlers \cup {NoHandler}]
  /\ txn \in [Handlers -> Txn]
  /\ requests \subseteq [user: Users, unit: Units]

Init ==
  /\ accounts = Residents
  /\ occupancy = [i \in Rows |-> NoRow]
  /\ lock = [n \in Units |-> NoHandler]
  /\ txn = [h \in Handlers |-> Idle]
  /\ requests = {}

Active(n) == {i \in Rows : occupancy[i].status = "ACTIVE" /\ occupancy[i].unit = n}

(* Where u lives in building b *)
Homes(u, b) == {n \in Units : /\ UnitBuilding[n] = b
                              /\ \E i \in Active(n) : occupancy[i].user = u}

-----------------------------------------------------------------------------
(* Calls and the checks before their transactions.  A call starts only while *)
(* the bound leaves a row for every call in flight.                          *)

Busy == {h \in Handlers : txn[h].pc # "idle"}

Room == Cardinality({i \in Rows : occupancy[i].status # "NONE"}) + Cardinality(Busy)
          < Cardinality(Rows)

Begin(h, op, u, n, pc) ==
  /\ op \in Calls
  /\ txn[h].pc = "idle" /\ Room
  /\ txn' = [txn EXCEPT ![h] = [Idle EXCEPT !.pc = pc, !.op = op, !.user = u,
                                            !.unit = n, !.fresh = u \notin accounts]]
  /\ UNCHANGED <<accounts, occupancy, lock, requests>>

(* OccupanciesService.create: the resident must have an account. *)
CallCreate(h, u, n) ==
  /\ u \in accounts
  /\ Begin(h, "create", u, n, "called")

(* ResidentsService.onboard: the email must be free. *)
CallOnboard(h, u, n) ==
  /\ u \notin accounts
  /\ Begin(h, "onboard", u, n, "called")

(* provision: finds the account, or is about to insert it *)
CallProvision(h, op, u, n) ==
  /\ op \in Provisioning
  /\ Begin(h, op, u, n, "ready")

(* Mutant of FindAssignedActiveOccupancy: ended occupancies count. *)
FindEndedOccupancy(h, u, n) ==
  /\ \E i \in Rows : occupancy[i].user = u /\ occupancy[i].unit = n
  /\ u \in accounts
  /\ Begin(h, "file", u, n, "ready")

(* createResidentRequest reads any ACTIVE occupancy of the caller. *)
FindAssignedActiveOccupancy(h, u, n) ==
  /\ \E i \in Active(n) : occupancy[i].user = u
  /\ u \in accounts
  /\ Begin(h, "file", u, n, "ready")

-----------------------------------------------------------------------------
(* Statements of the transactions *)

(* Commit or rollback: the handler is done and its lock is released. *)
End(h) ==
  /\ txn' = [txn EXCEPT ![h] = Idle]
  /\ lock' = [n \in Units |-> IF lock[n] = h THEN NoHandler ELSE lock[n]]

(* The transaction has inserted the account: nobody else sees it, but the    *)
(* entry of the email in the unique index is taken.                          *)
HoldsEmail(h) ==
  txn[h].fresh /\ txn[h].pc \in {"created", "locked", "read", "ending", "ended"}

WaitsForEmail(h, k) ==
  /\ txn[h].pc = "ready" /\ txn[h].fresh
  /\ HoldsEmail(k) /\ txn[k].user = txn[h].user

(* The next statement locks the unit, or inserts a row that refers to it.    *)
NeedsUnit(h) ==
  txn[h].pc = IF txn[h].fresh THEN "created" ELSE "ready"

WaitsForUnit(h, k) == NeedsUnit(h) /\ lock[txn[h].unit] = k

WaitsForRows(h, k) ==
  txn[h].pc = "ending" /\ txn[k].pc = "ended" /\ txn[h].ends \cap txn[k].ends # {}

(* h cannot go on before the transaction of k has ended. *)
Waits(h, k) == h # k /\ (WaitsForEmail(h, k) \/ WaitsForUnit(h, k) \/ WaitsForRows(h, k))

Blocked(h) == \E k \in Handlers : Waits(h, k)

InsertOccupancy(h, table) ==
  \E i \in Rows : /\ occupancy[i].status = "NONE"
                  /\ occupancy' = [table EXCEPT ![i] =
                       [user |-> txn[h].user, unit |-> txn[h].unit,
                        status |-> "ACTIVE"]]

(* Mutant of FindVacant: the unit is locked first, as in provision. *)
LockAndFindVacant(h) ==
  /\ txn[h].op \in {"create", "onboard"} /\ txn[h].pc = "called"
  /\ lock[txn[h].unit] = NoHandler
  /\ \/ /\ Active(txn[h].unit) = {}
        /\ txn' = [txn EXCEPT ![h].pc = "ready"]
        /\ lock' = [lock EXCEPT ![txn[h].unit] = h]
     \/ /\ Active(txn[h].unit) # {}
        /\ End(h)
  /\ UNCHANGED <<accounts, occupancy, requests>>

(* The first statement of createActiveIfVacant and of onboard *)
FindVacant(h) ==
  /\ txn[h].op \in {"create", "onboard"} /\ txn[h].pc = "called"
  /\ \/ /\ Active(txn[h].unit) = {}
        /\ txn' = [txn EXCEPT ![h].pc = "ready"]
        /\ UNCHANGED lock
     \/ /\ Active(txn[h].unit) # {}
        /\ End(h)
  /\ UNCHANGED <<accounts, occupancy, requests>>

CreateActive(h) ==
  /\ txn[h].op = "create" /\ NeedsUnit(h) /\ ~Blocked(h)
  /\ InsertOccupancy(h, occupancy)
  /\ End(h)
  /\ UNCHANGED <<accounts, requests>>

(* Mutant of CreateUser: outside the transaction *)
CreateUserApart(h) ==
  /\ txn[h].pc = "ready" /\ txn[h].fresh /\ ~Blocked(h)
  /\ txn[h].user \notin accounts
  /\ accounts' = accounts \cup {txn[h].user}
  /\ txn' = [txn EXCEPT ![h].pc = "created"]
  /\ UNCHANGED <<occupancy, lock, requests>>

(* tx.user.create of provision and of onboard; the email may be taken. *)
CreateUser(h) ==
  /\ txn[h].pc = "ready" /\ txn[h].fresh /\ ~Blocked(h)
  /\ \/ /\ txn[h].user \in accounts
        /\ End(h)
     \/ /\ txn[h].user \notin accounts
        /\ txn' = [txn EXCEPT ![h].pc = "created"]
        /\ UNCHANGED lock
  /\ UNCHANGED <<accounts, occupancy, requests>>

(* The occupancy of a new resident, which completes onboard *)
Onboard(h) ==
  /\ txn[h].op = "onboard" /\ NeedsUnit(h) /\ ~Blocked(h)
  /\ accounts' = accounts \cup {txn[h].user}
  /\ InsertOccupancy(h, occupancy)
  /\ End(h)
  /\ UNCHANGED requests

(* Mutant of LockUnit: the unit is only read. *)
ReadUnit(h) ==
  /\ txn[h].op \in Provisioning /\ NeedsUnit(h)
  /\ txn' = [txn EXCEPT ![h].pc = "locked"]
  /\ UNCHANGED <<accounts, occupancy, lock, requests>>

(* lockUnit, after the account is found or inserted *)
LockUnit(h) ==
  /\ txn[h].op \in Provisioning /\ NeedsUnit(h) /\ ~Blocked(h)
  /\ lock' = [lock EXCEPT ![txn[h].unit] = h]
  /\ txn' = [txn EXCEPT ![h].pc = "locked"]
  /\ UNCHANGED <<accounts, occupancy, requests>>

(* applyResidentGrant under the lock: findFirst returns any ACTIVE row. *)
FindExistingForUnit(h) ==
  /\ txn[h].pc = "locked"
  /\ \/ /\ Active(txn[h].unit) = {}
        /\ txn' = [txn EXCEPT ![h].pc = "read"]
        /\ UNCHANGED lock
     \/ \E i \in Active(txn[h].unit) :
          \/ /\ occupancy[i].user = txn[h].user
             /\ txn' = [txn EXCEPT ![h].pc = "read", ![h].reuse = TRUE]
             /\ UNCHANGED lock
          \/ /\ occupancy[i].user # txn[h].user
             /\ End(h)
  /\ UNCHANGED <<accounts, occupancy, requests>>

(* Mutant of Elsewhere: the rows of whoever lives there *)
EverybodyElsewhere(h) ==
  {i \in Rows : /\ occupancy[i].status = "ACTIVE"
                /\ occupancy[i].unit # txn[h].unit
                /\ UnitBuilding[occupancy[i].unit] = UnitBuilding[txn[h].unit]}

(* The rows a MOVE ends: the user's other units in the building *)
Elsewhere(h) ==
  {i \in Rows : /\ occupancy[i].status = "ACTIVE"
                /\ occupancy[i].user = txn[h].user
                /\ occupancy[i].unit # txn[h].unit
                /\ UnitBuilding[occupancy[i].unit] = UnitBuilding[txn[h].unit]}

(* updateMany finds its rows, and then locks them; one that another MOVE has *)
(* ended meanwhile stays ended.                                              *)
FindOthers(h) ==
  /\ txn[h].op = "move" /\ txn[h].pc = "read"
  /\ txn' = [txn EXCEPT ![h].pc = "ending", ![h].ends = Elsewhere(h)]
  /\ UNCHANGED <<accounts, occupancy, lock, requests>>

EndOthers(h) ==
  /\ txn[h].pc = "ending" /\ ~Blocked(h)
  /\ txn' = [txn EXCEPT ![h].pc = "ended"]
  /\ UNCHANGED <<accounts, occupancy, lock, requests>>

(* The table after the rows of a MOVE have ended *)
Ended(ends) == [i \in Rows |-> IF i \in ends
                                 THEN [occupancy[i] EXCEPT !.status = "ENDED"]
                                 ELSE occupancy[i]]

(* The row is created unless the user lived there, and all is committed. *)
CommitProvision(h) ==
  /\ \/ txn[h].op = "add" /\ txn[h].pc = "read"
     \/ txn[h].op = "move" /\ txn[h].pc = "ended"
  /\ accounts' = accounts \cup {txn[h].user}
  /\ \/ /\ txn[h].reuse
        /\ occupancy' = Ended(txn[h].ends)
     \/ /\ ~txn[h].reuse
        /\ InsertOccupancy(h, Ended(txn[h].ends))
  /\ End(h)
  /\ UNCHANGED requests

(* createRequestWithAttachments: the request names the unit that was read. *)
FileRequest(h) ==
  /\ txn[h].op = "file" /\ NeedsUnit(h) /\ ~Blocked(h)
  /\ requests' = requests \cup {[user |-> txn[h].user, unit |-> txn[h].unit]}
  /\ End(h)
  /\ UNCHANGED <<accounts, occupancy>>

(* A crash, a lost connection or Prisma's transaction timeout rolls back. *)
Abort(h) ==
  /\ txn[h].pc # "idle"
  /\ End(h)
  /\ UNCHANGED <<accounts, occupancy, requests>>

-----------------------------------------------------------------------------
Call(h, u, n) ==
  \/ CallCreate(h, u, n) \/ CallOnboard(h, u, n)
  \/ \E op \in Provisioning : CallProvision(h, op, u, n)
  \/ FindAssignedActiveOccupancy(h, u, n)

Serve(h) ==
  \/ FindVacant(h) \/ CreateActive(h) \/ Onboard(h)
  \/ CreateUser(h) \/ LockUnit(h) \/ FindExistingForUnit(h)
  \/ FindOthers(h) \/ EndOthers(h) \/ CommitProvision(h) \/ FileRequest(h)

Next ==
  \E h \in Handlers :
    \/ \E u \in Users, n \in Units : Call(h, u, n)
    \/ Serve(h)
    \/ Abort(h)

Spec == Init /\ [][Next]_vars

-----------------------------------------------------------------------------
(* Properties *)

(* A unit has at most one ACTIVE occupancy, whichever of the three writers   *)
(* made it (Instructions/Phase4.md, "Only one ACTIVE occupancy per unit").   *)
OneActivePerUnit ==
  \A n \in Units : \A i, j \in Active(n) : i = j

(* An account made by onboarding or by provisioning a resident comes with an *)
(* occupancy, even when the call fails half way: one transaction holds both. *)
NewcomersAreHoused ==
  \A u \in accounts \ Residents : \E i \in Rows : occupancy[i].user = u

(* A request names a unit its author lives or has lived in, even when a MOVE *)
(* commits between the read of the occupancy and the insert of the request.  *)
RequestsAreFromResidents ==
  \A q \in requests : \E i \in Rows : /\ occupancy[i].user = q.user
                                      /\ occupancy[i].unit = q.unit

(* An occupancy ends only by its own resident's MOVE to another unit of the  *)
(* building, never by anyone else's, however transactions interleave.        *)
MoveEndsOwnOnly ==
  [][\A i \in Rows :
       (occupancy[i].status = "ACTIVE" /\ occupancy'[i].status # "ACTIVE") =>
         \E h \in Handlers :
           /\ txn[h].op = "move" /\ txn[h].user = occupancy[i].user
           /\ txn[h].unit # occupancy[i].unit
           /\ UnitBuilding[txn[h].unit] = UnitBuilding[occupancy[i].unit]
           /\ lock[txn[h].unit] = h]_vars

(* No transactions wait for each other in a circle: of any set of calls, one *)
(* waits for none of them.  provision and onboard both hold the email while  *)
(* they wait for the unit, and a MOVE the unit while it waits for rows.      *)
NoDeadlock ==
  \A S \in (SUBSET Handlers) \ {{}} : \E h \in S : \A k \in S : ~Waits(h, k)

(* "MOVE ends other ACTIVE occupancies in the same building": when a MOVE    *)
(* commits, its unit is the user's only home in the building, other MOVEs    *)
(* that were under way or not.                                               *)
MoveLeavesOneHome ==
  [][\A h \in Handlers, u \in Users, n \in Units :
       (/\ txn[h].op = "move" /\ txn[h].pc = "ended"
        /\ txn[h].user = u /\ txn[h].unit = n
        /\ txn'[h].pc = "idle" /\ occupancy' # occupancy) =>
         Homes(u, UnitBuilding[n])' = {n}]_vars

(* What a step keeps while calls do not overlap. *)

(* A request is filed for a unit its author lives in at that moment. *)
FiledFrom ==
  \A q \in requests' \ requests : q.unit \in Homes(q.user, UnitBuilding[q.unit])
=============================================================================
