--------------------- MODULE MaintenanceRequestsProofs ---------------------
(***************************************************************************)
(* Proofs about MaintenanceRequests, for every number of requests, users   *)
(* and overlapping handlers; then of documented bodies and of handlers in  *)
(* turn, which implement RequestWorkflow; at last of the run's scenarios.  *)
(***************************************************************************)
EXTENDS MCMaintenanceRequests, TLAPS

(***************************************************************************)
(* The inductive invariant.  The invariants of interest speak of the       *)
(* current row, while a handler decides on the row it read; the link       *)
(* between the two is the history: what a handler saw is something the     *)
(* request really was, and a request's past is never undone.               *)
(***************************************************************************)
ActiveStaff(s, b) == s \notin Inactive /\ Assigned(s, b, "STAFF")

RowInv(r) ==
  /\ row[r].status = "NONE" => row[r] = NoRow /\ history[r] = {}
  /\ row[r].status # "NONE" =>
       /\ row[r].building \in Buildings
       /\ row[r].creator \in Users
       /\ UserOrg[row[r].creator] = BuildingOrg[row[r].building]
       /\ row[r].status \in history[r]
  /\ row[r].assignee # NoUser =>
       /\ ActiveStaff(row[r].assignee, row[r].building)
       /\ UserOrg[row[r].assignee] = BuildingOrg[row[r].building]

TxnInv(h) ==
  LET t == txn[h]
  IN  t.pc # "idle" =>
        /\ t.user \in Users
        /\ row[t.request].status # "NONE"
        /\ BuildingOrg[row[t.request].building] = UserOrg[t.user]
        /\ t.seen.status \in history[t.request]
        /\ t.pc = "checked" /\ t.op = "status" =>
             <<t.seen.status, t.body>> \in Transitions
        /\ t.pc = "checked" /\ t.op = "assign" =>
             /\ t.staff \in Users
             /\ ActiveStaff(t.staff, row[t.request].building)
             /\ UserOrg[t.staff] = BuildingOrg[row[t.request].building]

IInv ==
  /\ TypeOK
  /\ \A r \in Requests : RowInv(r)
  /\ \A h \in Handlers : TxnInv(h)
  /\ ProgressOrder
  /\ NeverReopened
  /\ ClosedIsStamped
  /\ AnnouncedHappened

-----------------------------------------------------------------------------
(* Constants and records used throughout *)

LEMMA ConstantTypes ==
  /\ NoRow \in Row
  /\ Idle \in Txn
  /\ NoEdit \in [Fields -> Texts \cup {NoText}]
<1>1. NoRow \in Row /\ NoEdit \in [Fields -> Texts \cup {NoText}]
  BY DEF NoRow, Row, NoEdit
<1>2. (CHOOSE r \in Requests : TRUE) \in Requests
  BY RequestAssumption DEF RequestAssumption
<1>3. Idle \in Txn
  BY <1>1, <1>2 DEF Idle, Txn, Status
<1>. QED  BY <1>1, <1>3

(* A row that a write may leave behind: it stays the same request, and its   *)
(* status is one the request may take given its past.                        *)
Admissible(r, new) ==
  /\ new \in Row
  /\ new.status \in Status
  /\ new.building = row[r].building
  /\ new.creator = row[r].creator
  /\ new.assignee # NoUser =>
       /\ ActiveStaff(new.assignee, row[r].building)
       /\ UserOrg[new.assignee] = BuildingOrg[row[r].building]
  /\ new.status = "OPEN" => row[r].status = "OPEN" /\ new.assignee = row[r].assignee
  /\ new.status = "IN_PROGRESS" => "ASSIGNED" \in history[r]
  /\ new.status = "COMPLETED" => "IN_PROGRESS" \in history[r] /\ new.completedAt
  /\ new.status = "CANCELED" => new.canceledAt

(* Entering a handler: the row read is the current one. *)
LEMMA CheckedPreserves ==
  ASSUME IInv,
         NEW h \in Handlers, NEW op \in Ops, NEW u \in Users, NEW r \in Requests,
         NEW staff \in Users \cup {NoUser}, NEW body \in Status,
         NEW edit \in [Fields -> Texts \cup {NoText}],
         Checked(h, op, u, r, staff, body, edit),
         row[r].status # "NONE",
         BuildingOrg[row[r].building] = UserOrg[u],
         op = "status" => <<row[r].status, body>> \in Transitions,
         op = "assign" => /\ staff \in Users
                          /\ ActiveStaff(staff, row[r].building)
                          /\ UserOrg[staff] = BuildingOrg[row[r].building]
  PROVE  IInv'
<1> DEFINE t == [pc |-> "checked", op |-> op, user |-> u, request |-> r,
                 staff |-> staff, body |-> body, edit |-> edit, seen |-> row[r]]
<1>1. /\ TypeOK /\ ProgressOrder /\ NeverReopened /\ ClosedIsStamped /\ AnnouncedHappened
      /\ \A q \in Requests : RowInv(q)
      /\ \A k \in Handlers : TxnInv(k)
  BY DEF IInv
<1>2. /\ txn' = [txn EXCEPT ![h] = t]
      /\ UNCHANGED <<row, comments, attachments, announced, history>>
  BY DEF Checked
<1>3. t \in Txn
  BY <1>1 DEF Txn, TypeOK
<1>4. TypeOK'
  <2>1. txn' \in [Handlers -> Txn]
    BY <1>1, <1>2, <1>3 DEF TypeOK
  <2>. QED  BY <1>1, <1>2, <2>1 DEF TypeOK
<1>5. (\A q \in Requests : RowInv(q))'
  BY <1>1, <1>2 DEF RowInv
<1>6. (\A k \in Handlers : TxnInv(k))'
  <2> SUFFICES ASSUME NEW k \in Handlers
               PROVE  TxnInv(k)'
    OBVIOUS
  <2>1. CASE k = h
    <3>1. txn'[h] = t
      BY <1>1, <1>2 DEF TypeOK
    <3>2. row[r].status \in history[r]
      BY <1>1 DEF RowInv
    <3>. QED  BY <1>2, <2>1, <3>1, <3>2 DEF TxnInv
  <2>2. CASE k # h
    <3>1. txn'[k] = txn[k]
      BY <1>1, <1>2, <2>2 DEF TypeOK
    <3>. QED  BY <1>1, <1>2, <3>1 DEF TxnInv
  <2>. QED  BY <2>1, <2>2
<1>7. (ProgressOrder /\ NeverReopened /\ ClosedIsStamped /\ AnnouncedHappened)'
  BY <1>1, <1>2 DEF ProgressOrder, NeverReopened, ClosedIsStamped, AnnouncedHappened
<1>. QED  BY <1>4, <1>5, <1>6, <1>7 DEF IInv

(* Committing an UPDATE of an admissible row. *)
LEMMA UpdatePreserves ==
  ASSUME IInv,
         NEW h \in Handlers, NEW op \in Ops, NEW new,
         Admissible(txn[h].request, new),
         UpdateById(h, op, new)
  PROVE  IInv'
<1> DEFINE r == txn[h].request
           t == [txn[h] EXCEPT !.pc = "committed", !.seen = new]
<1>1. /\ TypeOK /\ ProgressOrder /\ NeverReopened /\ ClosedIsStamped /\ AnnouncedHappened
      /\ \A q \in Requests : RowInv(q)
      /\ \A k \in Handlers : TxnInv(k)
  BY DEF IInv
<1>2. /\ txn[h].pc = "checked"
      /\ row' = [row EXCEPT ![r] = new]
      /\ history' = [history EXCEPT ![r] = @ \cup {new.status}]
      /\ txn' = [txn EXCEPT ![h] = t]
      /\ UNCHANGED <<comments, attachments, announced>>
  BY DEF UpdateById
<1>3. r \in Requests /\ row[r].status # "NONE" /\ txn[h].user \in Users
  <2>1. TxnInv(h) /\ txn[h] \in Txn
    BY <1>1 DEF TypeOK
  <2>. QED  BY <1>2, <2>1 DEF Txn, TxnInv
<1>4. /\ row'[r] = new
      /\ \A q \in Requests : q # r => row'[q] = row[q] /\ history'[q] = history[q]
      /\ history'[r] = history[r] \cup {new.status}
  <2>1. row \in [Requests -> Row] /\ history \in [Requests -> SUBSET Status]
    BY <1>1 DEF TypeOK
  <2>. QED  BY <1>2, <1>3, <2>1
<1>t. /\ t \in Txn
      /\ t.pc = "committed" /\ t.user = txn[h].user
      /\ t.request = r /\ t.seen = new
  <2>1. txn[h] \in Txn
    BY <1>1 DEF TypeOK
  <2>2. new \in Row
    BY DEF Admissible
  <2>. QED  BY <2>1, <2>2 DEF Txn
<1> HIDE DEF t
<1>5. /\ txn'[h] \in Txn
      /\ txn'[h].pc = "committed"
      /\ txn'[h].user = txn[h].user
      /\ txn'[h].request = r
      /\ txn'[h].seen = new
  <2>1. txn \in [Handlers -> Txn]
    BY <1>1 DEF TypeOK
  <2>2. txn'[h] = t
    BY <1>2, <2>1
  <2>. QED  BY <1>t, <2>2
<1>6. \A k \in Handlers : k # h => txn'[k] = txn[k]
  BY <1>1, <1>2 DEF TypeOK
<1>7. TypeOK'
  <2>1. txn' \in [Handlers -> Txn]
    BY <1>1, <1>2, <1>5, <1>6 DEF TypeOK
  <2>2. row' \in [Requests -> Row] /\ history' \in [Requests -> SUBSET Status]
    BY <1>1, <1>2, <1>3 DEF TypeOK, Admissible
  <2>. QED  BY <1>1, <1>2, <2>1, <2>2 DEF TypeOK
<1>8. (\A q \in Requests : RowInv(q))'
  <2> SUFFICES ASSUME NEW q \in Requests
               PROVE  RowInv(q)'
    OBVIOUS
  <2>1. CASE q = r
    <3>1. /\ new.status # "NONE"
          /\ new.building = row[r].building /\ new.creator = row[r].creator
      BY DEF Admissible, Status
    <3>2. /\ new.building \in Buildings /\ new.creator \in Users
          /\ UserOrg[new.creator] = BuildingOrg[new.building]
      <4>1. RowInv(r)
        BY <1>1, <1>3
      <4>. QED  BY <1>3, <3>1, <4>1 DEF RowInv
    <3>3. new.status \in history'[r]
      BY <1>4
    <3>4. new.assignee # NoUser =>
            /\ ActiveStaff(new.assignee, new.building)
            /\ UserOrg[new.assignee] = BuildingOrg[new.building]
      BY <3>1 DEF Admissible
    <3>. QED  BY <1>4, <2>1, <3>1, <3>2, <3>3, <3>4 DEF RowInv, Assigned
  <2>2. CASE q # r
    BY <1>1, <1>4, <2>2 DEF RowInv, Assigned
  <2>. QED  BY <2>1, <2>2
<1>9. (\A k \in Handlers : TxnInv(k))'
  <2> SUFFICES ASSUME NEW k \in Handlers
               PROVE  TxnInv(k)'
    OBVIOUS
  <2>1. \A q \in Requests :
          /\ history[q] \subseteq history'[q]
          /\ row[q].status # "NONE" => row'[q].status # "NONE"
          /\ row'[q].building = row[q].building
    BY <1>3, <1>4 DEF Admissible, Status
  <2>2. CASE k = h
    <3>1. BuildingOrg[row[r].building] = UserOrg[txn[h].user]
      BY <1>1, <1>2 DEF TxnInv
    <3>2. /\ row'[r].status # "NONE"
          /\ BuildingOrg[row'[r].building] = UserOrg[txn[h].user]
          /\ new.status \in history'[r]
      BY <1>3, <1>4, <2>1, <3>1
    <3>. QED  BY <1>3, <1>5, <2>2, <3>2 DEF TxnInv
  <2>3. CASE k # h
    <3>1. txn'[k] = txn[k] /\ txn[k].request \in Requests
      BY <1>1, <1>6, <2>3 DEF TypeOK, Txn
    <3>. QED  BY <1>1, <2>1, <3>1 DEF TxnInv, Assigned
  <2>. QED  BY <2>2, <2>3
<1>10. (ProgressOrder /\ NeverReopened /\ ClosedIsStamped /\ AnnouncedHappened)'
  <2>1. ProgressOrder'
    BY <1>1, <1>4 DEF ProgressOrder, Admissible
  <2>2. NeverReopened'
    BY <1>1, <1>4 DEF NeverReopened, Admissible
  <2>3. ClosedIsStamped'
    BY <1>1, <1>4 DEF ClosedIsStamped, Admissible
  <2>4. AnnouncedHappened'
    BY <1>1, <1>2, <1>4 DEF AnnouncedHappened
  <2>. QED  BY <2>1, <2>2, <2>3, <2>4
<1>. QED  BY <1>7, <1>8, <1>9, <1>10 DEF IInv

(* Committing a comment or attachments leaves every row alone. *)
LEMMA InsertPreserves ==
  ASSUME IInv,
         NEW h \in Handlers, NEW op \in Ops,
         Insert(h, op),
         comments' \in [Requests -> SUBSET {"resident", "building"}],
         attachments' \in [Requests -> BOOLEAN]
  PROVE  IInv'
<1> DEFINE t == [txn[h] EXCEPT !.pc = "committed"]
<1>1. /\ TypeOK /\ ProgressOrder /\ NeverReopened /\ ClosedIsStamped /\ AnnouncedHappened
      /\ \A q \in Requests : RowInv(q)
      /\ \A k \in Handlers : TxnInv(k)
  BY DEF IInv
<1>2. /\ txn[h].pc = "checked"
      /\ txn' = [txn EXCEPT ![h] = t]
      /\ UNCHANGED <<row, announced, history>>
  BY DEF Insert
<1>t. /\ t \in Txn
      /\ t.pc = "committed" /\ t.user = txn[h].user
      /\ t.request = txn[h].request /\ t.seen = txn[h].seen
  <2>1. txn[h] \in Txn
    BY <1>1 DEF TypeOK
  <2>. QED  BY <2>1 DEF Txn
<1> HIDE DEF t
<1>3. /\ txn'[h] \in Txn
      /\ txn'[h].pc = "committed"
      /\ txn'[h].user = txn[h].user
      /\ txn'[h].request = txn[h].request
      /\ txn'[h].seen = txn[h].seen
  <2>1. txn \in [Handlers -> Txn]
    BY <1>1 DEF TypeOK
  <2>2. txn'[h] = t
    BY <1>2, <2>1
  <2>. QED  BY <1>t, <2>2
<1>4. \A k \in Handlers : k # h => txn'[k] = txn[k]
  BY <1>1, <1>2 DEF TypeOK
<1>5. TypeOK'
  <2>1. txn' \in [Handlers -> Txn]
    BY <1>1, <1>2, <1>3, <1>4 DEF TypeOK
  <2>. QED  BY <1>1, <1>2, <2>1 DEF TypeOK
<1>6. (\A q \in Requests : RowInv(q))'
  BY <1>1, <1>2 DEF RowInv
<1>7. (\A k \in Handlers : TxnInv(k))'
  <2> SUFFICES ASSUME NEW k \in Handlers
               PROVE  TxnInv(k)'
    OBVIOUS
  <2>1. CASE k = h
    <3>1. /\ txn[h].user \in Users
          /\ row[txn[h].request].status # "NONE"
          /\ BuildingOrg[row[txn[h].request].building] = UserOrg[txn[h].user]
          /\ txn[h].seen.status \in history[txn[h].request]
      BY <1>1, <1>2 DEF TxnInv
    <3>. QED  BY <1>2, <1>3, <2>1, <3>1 DEF TxnInv
  <2>2. CASE k # h
    <3>1. TxnInv(k) /\ txn'[k] = txn[k]
      BY <1>1, <1>4, <2>2
    <3>. QED  BY <1>2, <3>1 DEF TxnInv
  <2>. QED  BY <2>1, <2>2
<1>8. (ProgressOrder /\ NeverReopened /\ ClosedIsStamped /\ AnnouncedHappened)'
  BY <1>1, <1>2 DEF ProgressOrder, NeverReopened, ClosedIsStamped, AnnouncedHappened
<1>. QED  BY <1>5, <1>6, <1>7, <1>8 DEF IInv

(* A handler that goes away, having answered or with the process. *)
LEMMA IdlePreserves ==
  ASSUME IInv,
         txn' \in [Handlers -> Txn],
         \A k \in Handlers : txn'[k] = txn[k] \/ txn'[k] = Idle,
         announced' \in [Requests -> Status \cup {"NONE"}],
         AnnouncedHappened',
         UNCHANGED <<row, comments, attachments, history>>
  PROVE  IInv'
<1>1. /\ TypeOK /\ ProgressOrder /\ NeverReopened /\ ClosedIsStamped
      /\ \A q \in Requests : RowInv(q)
      /\ \A k \in Handlers : TxnInv(k)
  BY DEF IInv
<1>2. TypeOK'
  BY <1>1 DEF TypeOK
<1>3. (\A q \in Requests : RowInv(q))'
  BY <1>1 DEF RowInv
<1>4. (\A k \in Handlers : TxnInv(k))'
  <2> SUFFICES ASSUME NEW k \in Handlers
               PROVE  TxnInv(k)'
    OBVIOUS
  <2>1. CASE txn'[k] = txn[k]
    BY <1>1, <2>1 DEF TxnInv
  <2>2. CASE txn'[k] = Idle
    BY <2>2 DEF TxnInv, Idle
  <2>. QED  BY <2>1, <2>2
<1>5. (ProgressOrder /\ NeverReopened /\ ClosedIsStamped)'
  BY <1>1 DEF ProgressOrder, NeverReopened, ClosedIsStamped
<1>. QED  BY <1>2, <1>3, <1>4, <1>5 DEF IInv

-----------------------------------------------------------------------------
(* Each action *)

LEMMA ResidentCallPreserves ==
  ASSUME IInv, NEW h \in Handlers, NEW u \in Users, NEW r \in Requests,
         ResidentCall(h, u, r)
  PROVE  IInv'
<1> USE ConstantTypes
<1>1. ASSUME NEW b \in Buildings, NEW t \in Texts, CreateResidentRequest(h, u, r, b, t)
      PROVE  IInv'
  <2> DEFINE new == [status |-> "OPEN", building |-> b, creator |-> u,
                     assignee |-> NoUser, completedAt |-> FALSE,
                     canceledAt |-> FALSE, text |-> [f \in Fields |-> t]]
             call == [pc |-> "committed", op |-> "create", user |-> u, request |-> r,
                      staff |-> NoUser, body |-> "OPEN", edit |-> NoEdit, seen |-> new]
  <2>1. /\ TypeOK /\ ProgressOrder /\ NeverReopened /\ ClosedIsStamped /\ AnnouncedHappened
        /\ \A q \in Requests : RowInv(q)
        /\ \A k \in Handlers : TxnInv(k)
    BY DEF IInv
  <2>2. /\ BuildingOrg[b] = UserOrg[u]
        /\ row[r] = NoRow
        /\ row' = [row EXCEPT ![r] = new]
        /\ history' = [history EXCEPT ![r] = {"OPEN"}]
        /\ txn' = [txn EXCEPT ![h] = call]
        /\ UNCHANGED <<comments, attachments, announced>>
    BY <1>1 DEF CreateResidentRequest, AssertBuildingInOrg
  <2>3. new \in Row /\ call \in Txn
    BY DEF Row, Txn, Status, Ops
  <2>4. history[r] = {} /\ row[r].status = "NONE"
    BY <2>1, <2>2 DEF RowInv, NoRow
  <2>5. /\ row'[r] = new /\ history'[r] = {"OPEN"} /\ txn'[h] = call
        /\ \A q \in Requests : q # r => row'[q] = row[q] /\ history'[q] = history[q]
        /\ \A k \in Handlers : k # h => txn'[k] = txn[k]
    BY <2>1, <2>2 DEF TypeOK
  <2>6. TypeOK'
    <3>1. row' \in [Requests -> Row] /\ txn' \in [Handlers -> Txn]
      BY <2>1, <2>2, <2>3 DEF TypeOK
    <3>2. history' \in [Requests -> SUBSET Status]
      BY <2>1, <2>2 DEF TypeOK, Status
    <3>. QED  BY <2>1, <2>2, <3>1, <3>2 DEF TypeOK
  <2>7. (\A q \in Requests : RowInv(q))'
    <3> SUFFICES ASSUME NEW q \in Requests
                 PROVE  RowInv(q)'
      OBVIOUS
    <3>1. CASE q = r
      BY <2>2, <2>5, <3>1 DEF RowInv
    <3>2. CASE q # r
      BY <2>1, <2>5, <3>2 DEF RowInv, Assigned
    <3>. QED  BY <3>1, <3>2
  <2>8. (\A k \in Handlers : TxnInv(k))'
    <3> SUFFICES ASSUME NEW k \in Handlers
                 PROVE  TxnInv(k)'
      OBVIOUS
    <3>1. CASE k = h
      BY <2>2, <2>5, <3>1 DEF TxnInv
    <3>2. CASE k # h
      <4>1. txn'[k] = txn[k] /\ txn[k].request \in Requests
        BY <2>1, <2>5, <3>2 DEF TypeOK, Txn
      <4>2. txn[k].pc # "idle" => txn[k].request # r
        <5>1. TxnInv(k)
          BY <2>1
        <5>. QED  BY <2>4, <5>1 DEF TxnInv
      <4>3. TxnInv(k)
        BY <2>1
      <4>4. txn[k].pc # "idle" => row'[txn[k].request] = row[txn[k].request]
                               /\ history'[txn[k].request] = history[txn[k].request]
        BY <2>5, <4>1, <4>2
      <4>. QED  BY <4>1, <4>3, <4>4 DEF TxnInv, Assigned
    <3>. QED  BY <3>1, <3>2
  <2>9. (ProgressOrder /\ NeverReopened /\ ClosedIsStamped /\ AnnouncedHappened)'
    BY <2>1, <2>2, <2>4, <2>5
       DEF ProgressOrder, NeverReopened, ClosedIsStamped, AnnouncedHappened
  <2>. QED  BY <2>6, <2>7, <2>8, <2>9 DEF IInv
<1>2. ASSUME NEW edit \in [Fields -> Texts \cup {NoText}], CheckEdit(h, u, r, edit)
      PROVE  IInv'
  BY <1>2, CheckedPreserves DEF CheckEdit, FindByIdForCreator, Ops, Status
<1>3. CASE CheckResidentCancel(h, u, r)
  BY <1>3, CheckedPreserves DEF CheckResidentCancel, FindByIdForCreator, Ops, Status
<1>4. CASE CheckResidentComment(h, u, r)
  BY <1>4, CheckedPreserves DEF CheckResidentComment, FindByIdForCreator, Ops, Status
<1>. QED  BY <1>1, <1>2, <1>3, <1>4 DEF ResidentCall

LEMMA BuildingCallPreserves ==
  ASSUME IInv, NEW h \in Handlers, NEW u \in Users, NEW b \in Buildings,
         NEW r \in Requests, BuildingCall(h, u, b, r)
  PROVE  IInv'
<1> USE ConstantTypes
<1>1. ASSUME NEW s \in Users, CheckAssign(h, u, b, r, s)
      PROVE  IInv'
  BY <1>1, CheckedPreserves DEF CheckAssign, MayWork, ActiveStaff, FindByIdForBuilding, Ops, Status
<1>2. ASSUME NEW body \in StatusBodies, CheckStatus(h, u, b, r, body)
      PROVE  IInv'
  <2>1. body \in Status
    BY RequestAssumption DEF RequestAssumption
  <2>. QED
    BY <1>2, <2>1, CheckedPreserves DEF CheckStatus, FindByIdForBuilding, Ops
<1>3. CASE CheckBuildingCancel(h, u, b, r)
  BY <1>3, CheckedPreserves DEF CheckBuildingCancel, FindByIdForBuilding, Ops, Status
<1>4. CASE CheckBuildingComment(h, u, b, r)
  BY <1>4, CheckedPreserves DEF CheckBuildingComment, FindByIdForBuilding, Ops, Status
<1>5. CASE CheckAttach(h, u, b, r)
  BY <1>5, CheckedPreserves DEF CheckAttach, FindByIdForBuilding, Ops, Status
<1>. QED  BY <1>1, <1>2, <1>3, <1>4, <1>5 DEF BuildingCall

LEMMA FinishPreserves ==
  ASSUME IInv, NEW h \in Handlers, Finish(h)
  PROVE  IInv'
<1> DEFINE r == txn[h].request
<1>1. /\ TypeOK /\ ProgressOrder /\ NeverReopened /\ ClosedIsStamped /\ AnnouncedHappened
      /\ \A q \in Requests : RowInv(q)
      /\ \A k \in Handlers : TxnInv(k)
  BY DEF IInv
<1>2. /\ r \in Requests
      /\ txn[h] \in Txn
      /\ row[r] \in Row
      /\ txn[h].seen \in Row
  BY <1>1 DEF TypeOK, Txn
<1>3. /\ txn[h].pc # "idle" => row[r].status \in Status
      /\ txn[h].pc # "idle" => row[r].status \in history[r]
  BY <1>1, <1>2 DEF TxnInv, RowInv, Row
(* The row as it is now is admissible: only its status can make it not so. *)
<1>4. txn[h].pc # "idle" => Admissible(r, row[r])
  BY <1>1, <1>2, <1>3
     DEF Admissible, RowInv, ProgressOrder, ClosedIsStamped
<1>5. CASE CommitEdit(h)
  <2> DEFINE text == [f \in Fields |-> IF txn[h].edit[f] = NoText
                                         THEN txn[h].seen.text[f]
                                         ELSE txn[h].edit[f]]
             new == [row[r] EXCEPT !.text = text]
  <2>1. txn[h].pc = "checked" /\ UpdateById(h, "edit", new)
    BY <1>5 DEF CommitEdit, Current, UpdateById
  <2>2. text \in [Fields -> Texts \cup {NoText}]
    BY <1>2 DEF Txn, Row
  <2>3. Admissible(r, new)
    <3> HIDE DEF text
    <3>1. /\ new \in Row
          /\ new.status = row[r].status /\ new.assignee = row[r].assignee
          /\ new.building = row[r].building /\ new.creator = row[r].creator
          /\ new.completedAt = row[r].completedAt
          /\ new.canceledAt = row[r].canceledAt
      BY <1>2, <2>2 DEF Row
    <3>2. Admissible(r, row[r])
      BY <1>4, <2>1
    <3> HIDE DEF new
    <3>. QED  BY <3>1, <3>2 DEF Admissible
  <2>. QED  BY <2>1, <2>3, UpdatePreserves DEF Ops
<1>6. CASE CommitCancel(h)
  <2> DEFINE new == [row[r] EXCEPT !.status = "CANCELED", !.canceledAt = TRUE]
  <2>1. txn[h].pc = "checked" /\ UpdateById(h, "cancel", new)
    BY <1>6 DEF CommitCancel, Current, UpdateById
  <2>2. Admissible(r, new)
    <3>1. /\ new \in Row
          /\ new.status = "CANCELED" /\ new.canceledAt /\ new.assignee = row[r].assignee
          /\ new.building = row[r].building /\ new.creator = row[r].creator
      BY <1>2 DEF Row, Status
    <3>2. Admissible(r, row[r])
      BY <1>4, <2>1
    <3> HIDE DEF new
    <3>. QED  BY <3>1, <3>2 DEF Admissible, Status
  <2>. QED  BY <2>1, <2>2, UpdatePreserves DEF Ops
<1>7. CASE CommitAssign(h)
  <2> DEFINE new == [row[r] EXCEPT !.status = "ASSIGNED", !.assignee = txn[h].staff]
  <2>1. /\ txn[h].pc = "checked" /\ txn[h].op = "assign"
        /\ UpdateById(h, "assign", new)
    BY <1>7 DEF CommitAssign, Current, UpdateById
  <2>2. /\ txn[h].staff \in Users
        /\ ActiveStaff(txn[h].staff, row[r].building)
        /\ UserOrg[txn[h].staff] = BuildingOrg[row[r].building]
    BY <1>1, <2>1 DEF TxnInv
  <2>3. new \in Row /\ new.assignee = txn[h].staff /\ new.status = "ASSIGNED"
        /\ new.building = row[r].building /\ new.creator = row[r].creator
    BY <1>2, <2>2 DEF Row, Status
  <2>4. Admissible(r, new)
    BY <2>2, <2>3 DEF Admissible, Status
  <2>. QED  BY <2>1, <2>4, UpdatePreserves DEF Ops
<1>8. CASE CommitStatus(h)
  <2> DEFINE stamp == txn[h].body = "COMPLETED" \/ txn[h].seen.completedAt
             new == [row[r] EXCEPT !.status = txn[h].body, !.completedAt = stamp]
  <2>1. /\ txn[h].pc = "checked" /\ txn[h].op = "status"
        /\ UpdateById(h, "status", new)
    BY <1>8 DEF CommitStatus, Current, UpdateById
  <2>2. /\ <<txn[h].seen.status, txn[h].body>> \in Transitions
        /\ txn[h].seen.status \in history[r]
    BY <1>1, <2>1 DEF TxnInv
  <2>3. /\ txn[h].body \in {"ASSIGNED", "IN_PROGRESS", "COMPLETED"}
        /\ txn[h].body = "IN_PROGRESS" => "ASSIGNED" \in history[r]
        /\ txn[h].body = "COMPLETED" => "IN_PROGRESS" \in history[r]
    BY <2>2 DEF Transitions
  <2>4. /\ stamp \in BOOLEAN
        /\ txn[h].body = "COMPLETED" => stamp
    BY <1>2 DEF Row
  <2> HIDE DEF stamp
  <2>5. /\ new \in Row /\ new.status = txn[h].body /\ new.completedAt = stamp
        /\ new.building = row[r].building /\ new.creator = row[r].creator
        /\ new.assignee = row[r].assignee
    BY <1>2, <2>3, <2>4 DEF Row, Status
  <2>6. Admissible(r, new)
    BY <1>4, <2>1, <2>3, <2>4, <2>5 DEF Admissible, Status
  <2>. QED  BY <2>1, <2>6, UpdatePreserves DEF Ops, stamp
<1>9. CASE CommitResidentComment(h)
  <2>1. /\ comments' \in [Requests -> SUBSET {"resident", "building"}]
        /\ attachments' \in [Requests -> BOOLEAN]
    BY <1>1, <1>2, <1>9 DEF CommitResidentComment, TypeOK
  <2>. QED  BY <1>9, <2>1, InsertPreserves DEF CommitResidentComment, Ops
<1>10. CASE CommitBuildingComment(h)
  <2>1. /\ comments' \in [Requests -> SUBSET {"resident", "building"}]
        /\ attachments' \in [Requests -> BOOLEAN]
    BY <1>1, <1>2, <1>10 DEF CommitBuildingComment, TypeOK
  <2>. QED  BY <1>10, <2>1, InsertPreserves DEF CommitBuildingComment, Ops
<1>11. CASE CommitAttach(h)
  <2>1. /\ comments' \in [Requests -> SUBSET {"resident", "building"}]
        /\ attachments' \in [Requests -> BOOLEAN]
    BY <1>1, <1>2, <1>11 DEF CommitAttach, TypeOK
  <2>. QED  BY <1>11, <2>1, InsertPreserves DEF CommitAttach, Ops
<1>12. CASE EmitEvent(h)
  <2>1. /\ txn' \in [Handlers -> Txn]
        /\ \A k \in Handlers : txn'[k] = txn[k] \/ txn'[k] = Idle
    BY <1>1, <1>12, ConstantTypes DEF EmitEvent, TypeOK
  <2>2. txn[h].seen.status \in history[r] /\ history[r] \subseteq Status
    BY <1>1, <1>2, <1>12 DEF EmitEvent, TxnInv, TypeOK
  <2>3. /\ announced' = [announced EXCEPT ![r] = txn[h].seen.status]
        /\ UNCHANGED <<row, comments, attachments, history>>
    BY <1>12 DEF EmitEvent
  <2>4. announced' \in [Requests -> Status \cup {"NONE"}] /\ AnnouncedHappened'
    BY <1>1, <1>2, <2>2, <2>3 DEF TypeOK, AnnouncedHappened
  <2>. QED  BY <2>1, <2>3, <2>4, IdlePreserves
<1>13. CASE Respond(h)
  <2>1. /\ txn' \in [Handlers -> Txn]
        /\ \A k \in Handlers : txn'[k] = txn[k] \/ txn'[k] = Idle
    BY <1>1, <1>13, ConstantTypes DEF Respond, TypeOK
  <2>2. UNCHANGED <<row, comments, attachments, announced, history>>
    BY <1>13 DEF Respond
  <2>3. announced' \in [Requests -> Status \cup {"NONE"}] /\ AnnouncedHappened'
    BY <1>1, <2>2 DEF TypeOK, AnnouncedHappened
  <2>. QED  BY <2>1, <2>2, <2>3, IdlePreserves
<1>. QED  BY <1>5, <1>6, <1>7, <1>8, <1>9, <1>10, <1>11, <1>12, <1>13 DEF Finish

LEMMA CrashPreserves ==
  ASSUME IInv, Crash
  PROVE  IInv'
<1>1. /\ txn' \in [Handlers -> Txn]
      /\ \A k \in Handlers : txn'[k] = Idle
      /\ UNCHANGED <<row, comments, attachments, announced, history>>
  BY ConstantTypes DEF Crash
<1>2. announced' \in [Requests -> Status \cup {"NONE"}] /\ AnnouncedHappened'
  BY <1>1 DEF IInv, TypeOK, AnnouncedHappened
<1>. QED  BY <1>1, <1>2, IdlePreserves

-----------------------------------------------------------------------------
(* The invariant is inductive: it holds in every reachable state, whatever   *)
(* the number of handlers and however they overlap or crash.                 *)
THEOREM InductiveInvariant == Spec => []IInv
<1>1. Init => IInv
  <2> SUFFICES ASSUME Init
               PROVE  IInv
    OBVIOUS
  <2>1. TypeOK
    BY ConstantTypes DEF Init, TypeOK
  <2>2. \A r \in Requests : row[r] = NoRow /\ history[r] = {} /\ announced[r] = "NONE"
    BY DEF Init
  <2>3. \A r \in Requests : RowInv(r)
    <3>1. NoRow.status = "NONE" /\ NoRow.assignee = NoUser
      BY DEF NoRow
    <3>. QED  BY <2>2, <3>1 DEF RowInv
  <2>4. \A h \in Handlers : TxnInv(h)
    BY DEF Init, TxnInv, Idle
  <2>5. ProgressOrder /\ NeverReopened /\ ClosedIsStamped /\ AnnouncedHappened
    BY <2>2 DEF ProgressOrder, NeverReopened, ClosedIsStamped, AnnouncedHappened, NoRow
  <2>. QED  BY <2>1, <2>3, <2>4, <2>5 DEF IInv
<1>2. IInv /\ [Next]_vars => IInv'
  <2> SUFFICES ASSUME IInv, [Next]_vars
               PROVE  IInv'
    OBVIOUS
  <2>1. ASSUME NEW h \in Handlers, NEW u \in Users, NEW r \in Requests,
               ResidentCall(h, u, r)
        PROVE  IInv'
    BY <2>1, ResidentCallPreserves
  <2>2. ASSUME NEW h \in Handlers, NEW u \in Users, NEW b \in Buildings,
               NEW r \in Requests, BuildingCall(h, u, b, r)
        PROVE  IInv'
    BY <2>2, BuildingCallPreserves
  <2>3. ASSUME NEW h \in Handlers, Finish(h)
        PROVE  IInv'
    BY <2>3, FinishPreserves
  <2>4. CASE Crash
    BY <2>4, CrashPreserves
  <2>5. CASE UNCHANGED vars
    BY <2>5 DEF vars, IInv, TypeOK, RowInv, TxnInv, ProgressOrder, NeverReopened,
                ClosedIsStamped, AnnouncedHappened
  <2>. QED  BY <2>1, <2>2, <2>3, <2>4, <2>5 DEF Next, Serve
<1>. QED  BY <1>1, <1>2, PTL DEF Spec

(* Every variable keeps its type. *)
THEOREM TypeCorrect == Spec => []TypeOK
<1>1. IInv => TypeOK
  BY DEF IInv
<1>. QED  BY <1>1, InductiveInvariant, PTL

(* No interleaving reports work that was not under way before. *)
THEOREM ProgressIsOrdered == Spec => []ProgressOrder
<1>1. IInv => ProgressOrder
  BY DEF IInv
<1>. QED  BY <1>1, InductiveInvariant, PTL

(* A stale handler may overwrite a status, but never back to OPEN. *)
THEOREM RequestsAreNeverReopened == Spec => []NeverReopened
<1>1. IInv => NeverReopened
  BY DEF IInv
<1>. QED  BY <1>1, InductiveInvariant, PTL

(* A closed request carries the timestamp of its closing. *)
THEOREM ClosedRequestsAreStamped == Spec => []ClosedIsStamped
<1>1. IInv => ClosedIsStamped
  BY DEF IInv
<1>. QED  BY <1>1, InductiveInvariant, PTL

(* Events never tell of a status that was not committed. *)
THEOREM EventsTellTheTruth == Spec => []AnnouncedHappened
<1>1. IInv => AnnouncedHappened
  BY DEF IInv
<1>. QED  BY <1>1, InductiveInvariant, PTL

(* Requests are assigned to STAFF of their building and organisation only. *)
THEOREM AssigneesAreStaff == Spec => []AssigneeIsBuildingStaff
<1>1. IInv => AssigneeIsBuildingStaff
  <2> SUFFICES ASSUME IInv, NEW r \in Requests, row[r].assignee # NoUser
               PROVE  MayWork(row[r].assignee, row[r].building, row[r].creator)
    BY DEF AssigneeIsBuildingStaff
  <2>1. RowInv(r)
    BY DEF IInv
  <2>2. row[r].status # "NONE"
    BY <2>1 DEF RowInv, NoRow
  <2>. QED  BY <2>1, <2>2 DEF RowInv, MayWork, ActiveStaff
<1>. QED  BY <1>1, InductiveInvariant, PTL

(* Tenant isolation holds for any set of permissions. *)
THEOREM TenantsAreIsolated == Spec => []SameOrganisation
<1>1. IInv => SameOrganisation
  BY DEF IInv, TxnInv, SameOrganisation
<1>. QED  BY <1>1, InductiveInvariant, PTL

-----------------------------------------------------------------------------
(* What documented bodies on the status endpoint guarantee, however handlers *)
(* overlap: once a request was ASSIGNED somebody is assigned to it for good. *)
AssigneeIsKept ==
  \A r \in Requests : "ASSIGNED" \in history[r] => row[r].assignee # NoUser

LEMMA AssigneeInvariant == Spec /\ []BodiesAreDocumented => []AssigneeIsKept
<1>1. Init => AssigneeIsKept
  BY DEF Init, AssigneeIsKept
<1>2. IInv /\ AssigneeIsKept /\ BodiesAreDocumented /\ [Next]_vars => AssigneeIsKept'
  <2> SUFFICES ASSUME IInv, AssigneeIsKept, BodiesAreDocumented, [Next]_vars
               PROVE  AssigneeIsKept'
    OBVIOUS
  <2>1. /\ txn \in [Handlers -> Txn]
        /\ row \in [Requests -> Row]
        /\ history \in [Requests -> SUBSET Status]
    BY DEF IInv, TypeOK
  (* Steps that leave the rows alone *)
  <2>2. ASSUME UNCHANGED <<row, history>>
        PROVE  AssigneeIsKept'
    BY <2>2 DEF AssigneeIsKept
  <2>3. ASSUME NEW h \in Handlers, NEW op, NEW new \in Row,
               UpdateById(h, op, new),
               new.status \in history[txn[h].request] \cup (Status \ {"ASSIGNED"})
                 \/ new.assignee # NoUser,
               new.assignee = row[txn[h].request].assignee \/ new.assignee # NoUser
        PROVE  AssigneeIsKept'
    <3> DEFINE r == txn[h].request
    <3>1. r \in Requests
      BY <2>1 DEF Txn
    <3>2. /\ row'[r] = new /\ history'[r] = history[r] \cup {new.status}
          /\ \A q \in Requests : q # r => row'[q] = row[q] /\ history'[q] = history[q]
      BY <2>1, <2>3, <3>1 DEF UpdateById
    <3>. QED  BY <2>3, <3>1, <3>2 DEF AssigneeIsKept
  <2>4. ASSUME NEW h \in Handlers, NEW u \in Users, NEW r \in Requests,
               ResidentCall(h, u, r)
        PROVE  AssigneeIsKept'
    <3>1. ASSUME NEW b \in Buildings, NEW t \in Texts, CreateResidentRequest(h, u, r, b, t)
          PROVE  AssigneeIsKept'
      <4>1. /\ history'[r] = {"OPEN"}
            /\ \A q \in Requests : q # r => row'[q] = row[q] /\ history'[q] = history[q]
        BY <2>1, <3>1 DEF CreateResidentRequest
      <4>. QED  BY <4>1 DEF AssigneeIsKept
    <3>2. ASSUME NEW edit \in [Fields -> Texts \cup {NoText}], CheckEdit(h, u, r, edit)
          PROVE  AssigneeIsKept'
      BY <2>2, <3>2 DEF CheckEdit, Checked
    <3>3. CASE CheckResidentCancel(h, u, r) \/ CheckResidentComment(h, u, r)
      BY <2>2, <3>3 DEF CheckResidentCancel, CheckResidentComment, Checked
    <3>. QED  BY <2>4, <3>1, <3>2, <3>3 DEF ResidentCall
  <2>5. ASSUME NEW h \in Handlers, NEW u \in Users, NEW b \in Buildings,
               NEW r \in Requests, BuildingCall(h, u, b, r)
        PROVE  AssigneeIsKept'
    BY <2>2, <2>5 DEF BuildingCall, CheckAssign, CheckStatus, CheckBuildingCancel,
                      CheckBuildingComment, CheckAttach, Checked
  <2>6. ASSUME NEW h \in Handlers, Finish(h)
        PROVE  AssigneeIsKept'
    <3> DEFINE r == txn[h].request
    <3>1. /\ r \in Requests /\ row[r] \in Row /\ txn[h] \in Txn
      BY <2>1 DEF Txn
    <3>2. CASE CommitEdit(h)
      <4> DEFINE text == [f \in Fields |-> IF txn[h].edit[f] = NoText
                                             THEN txn[h].seen.text[f]
                                             ELSE txn[h].edit[f]]
                 new == [row[r] EXCEPT !.text = text]
      <4>1. txn[h].pc = "checked" /\ UpdateById(h, "edit", new)
        BY <3>2 DEF CommitEdit, Current, UpdateById
      <4>2. /\ new \in Row
            /\ new.status = row[r].status /\ new.assignee = row[r].assignee
        BY <3>1 DEF Row, Txn
      <4>3. new.status \in history[r]
        BY <3>1, <4>1, <4>2 DEF IInv, TxnInv, RowInv
      <4> HIDE DEF new
      <4>. QED  BY <2>3, <4>1, <4>2, <4>3
    <3>3. CASE CommitCancel(h)
      <4> DEFINE new == [row[r] EXCEPT !.status = "CANCELED", !.canceledAt = TRUE]
      <4>1. UpdateById(h, "cancel", new)
        BY <3>3 DEF CommitCancel, Current
      <4>2. /\ new \in Row
            /\ new.status \in Status \ {"ASSIGNED"} /\ new.assignee = row[r].assignee
        BY <3>1 DEF Row, Status
      <4> HIDE DEF new
      <4>. QED  BY <2>3, <4>1, <4>2
    <3>4. CASE CommitAssign(h)
      <4> DEFINE new == [row[r] EXCEPT !.status = "ASSIGNED", !.assignee = txn[h].staff]
      <4>1. txn[h].pc = "checked" /\ txn[h].op = "assign" /\ UpdateById(h, "assign", new)
        BY <3>4 DEF CommitAssign, Current, UpdateById
      <4>2. txn[h].staff \in Users
        BY <4>1 DEF IInv, TxnInv
      <4>3. /\ new \in Row
            /\ new.assignee # NoUser
        BY <3>1, <4>2, RequestAssumption DEF Row, Status, RequestAssumption
      <4> HIDE DEF new
      <4>. QED  BY <2>3, <4>1, <4>3
    <3>5. CASE CommitStatus(h)
      <4> DEFINE new == [row[r] EXCEPT !.status = txn[h].body,
                           !.completedAt = txn[h].body = "COMPLETED"
                                             \/ txn[h].seen.completedAt]
      <4>1. txn[h].pc = "checked" /\ txn[h].op = "status" /\ UpdateById(h, "status", new)
        BY <3>5 DEF CommitStatus, Current, UpdateById
      <4>2. txn[h].body \in Status \ {"ASSIGNED"}
        BY <4>1 DEF BodiesAreDocumented, DocumentedBodies, InFlight, Status
      <4>3. /\ new \in Row
            /\ new.status = txn[h].body /\ new.assignee = row[r].assignee
        BY <3>1 DEF Row, Txn
      <4> HIDE DEF new
      <4>. QED  BY <2>3, <4>1, <4>2, <4>3
    <3>6. CASE \/ CommitResidentComment(h) \/ CommitBuildingComment(h) \/ CommitAttach(h)
               \/ EmitEvent(h) \/ Respond(h)
      BY <2>2, <3>6 DEF CommitResidentComment, CommitBuildingComment, CommitAttach,
                        Insert, EmitEvent, Respond
    <3>. QED  BY <2>6, <3>2, <3>3, <3>4, <3>5, <3>6 DEF Finish
  <2>7. CASE Crash
    BY <2>2, <2>7 DEF Crash
  <2>8. CASE UNCHANGED vars
    BY <2>2, <2>8 DEF vars
  <2>. QED  BY <2>4, <2>5, <2>6, <2>7, <2>8 DEF Next, Serve
<1>. QED  BY <1>1, <1>2, InductiveInvariant, PTL DEF Spec

(* With the documented bodies no interleaving puts work under way without an *)
(* assignee.                                                                 *)
THEOREM WorkIsAssigned == Spec /\ []BodiesAreDocumented => []WorkHasAssignee
<1>1. IInv /\ AssigneeIsKept => WorkHasAssignee
  <2> SUFFICES ASSUME IInv, AssigneeIsKept, NEW r \in Requests,
                      row[r].status \in {"ASSIGNED", "IN_PROGRESS", "COMPLETED"}
               PROVE  row[r].assignee # NoUser
    BY DEF WorkHasAssignee
  <2>1. row[r].status \in history[r] /\ ProgressOrder
    BY DEF IInv, RowInv
  <2>. QED  BY <2>1 DEF ProgressOrder, AssigneeIsKept
<1>. QED  BY <1>1, AssigneeInvariant, InductiveInvariant, PTL

-----------------------------------------------------------------------------
(* With one call at a time what a handler read is still the row it writes,   *)
(* what it checked still holds of the row, and what it wrote stays until its *)
(* event is out.                                                             *)
ReadIsCurrent ==
  \A h \in Handlers :
    /\ txn[h].pc = "checked" =>
         /\ txn[h].seen = row[txn[h].request]
         /\ txn[h].op = "cancel" => txn[h].seen.status \notin Terminal
         /\ txn[h].op = "assign" => txn[h].seen.status \in {"OPEN", "ASSIGNED"}
    /\ txn[h].pc = "committed" => txn[h].seen = row[txn[h].request]

LEMMA ReadStaysCurrent == Spec /\ []OneAtATime => []ReadIsCurrent
<1>1. Init => ReadIsCurrent
  BY DEF Init, ReadIsCurrent, Idle
<1>2. IInv /\ ReadIsCurrent /\ OneAtATime /\ OneAtATime' /\ [Next]_vars => ReadIsCurrent'
  <2> SUFFICES ASSUME IInv, ReadIsCurrent, OneAtATime, OneAtATime', [Next]_vars
               PROVE  ReadIsCurrent'
    OBVIOUS
  <2>1. txn \in [Handlers -> Txn] /\ row \in [Requests -> Row]
    BY DEF IInv, TypeOK
  (* The one call in flight afterwards *)
  <2>2. ASSUME NEW h \in Handlers, txn'[h].pc # "idle",
               txn'[h].pc = "checked" =>
                 /\ txn'[h].seen = row'[txn'[h].request]
                 /\ txn'[h].op = "cancel" => txn'[h].seen.status \notin Terminal
                 /\ txn'[h].op = "assign" => txn'[h].seen.status \in {"OPEN", "ASSIGNED"},
               txn'[h].pc = "committed" => txn'[h].seen = row'[txn'[h].request]
        PROVE  ReadIsCurrent'
    BY <2>2 DEF OneAtATime, InFlight, ReadIsCurrent
  <2>3. ASSUME NEW h \in Handlers, NEW op, NEW u, NEW r, NEW s, NEW body, NEW edit,
               Checked(h, op, u, r, s, body, edit),
               op = "cancel" => row[r].status \notin Terminal,
               op = "assign" => row[r].status \in {"OPEN", "ASSIGNED"}
        PROVE  ReadIsCurrent'
    BY <2>1, <2>2, <2>3 DEF Checked
  <2>4. ASSUME NEW h \in Handlers, NEW u \in Users, NEW r \in Requests,
               ResidentCall(h, u, r)
        PROVE  ReadIsCurrent'
    <3>1. ASSUME NEW b \in Buildings, NEW t \in Texts, CreateResidentRequest(h, u, r, b, t)
          PROVE  ReadIsCurrent'
      <4>1. /\ txn'[h].pc = "committed" /\ txn'[h].request = r
            /\ txn'[h].seen = row'[r]
        BY <2>1, <3>1 DEF CreateResidentRequest
      <4>. QED  BY <2>2, <4>1
    <3>2. ASSUME NEW edit \in [Fields -> Texts \cup {NoText}], CheckEdit(h, u, r, edit)
          PROVE  ReadIsCurrent'
      BY <2>3, <3>2 DEF CheckEdit
    <3>3. CASE CheckResidentCancel(h, u, r)
      BY <2>3, <3>3 DEF CheckResidentCancel, Live
    <3>4. CASE CheckResidentComment(h, u, r)
      BY <2>3, <3>4 DEF CheckResidentComment
    <3>. QED  BY <2>4, <3>1, <3>2, <3>3, <3>4 DEF ResidentCall
  <2>5. ASSUME NEW h \in Handlers, NEW u \in Users, NEW b \in Buildings,
               NEW r \in Requests, BuildingCall(h, u, b, r)
        PROVE  ReadIsCurrent'
    <3>1. ASSUME NEW s \in Users, CheckAssign(h, u, b, r, s)
          PROVE  ReadIsCurrent'
      BY <2>3, <3>1 DEF CheckAssign, Assignable
    <3>2. ASSUME NEW body \in StatusBodies, CheckStatus(h, u, b, r, body)
          PROVE  ReadIsCurrent'
      BY <2>3, <3>2 DEF CheckStatus
    <3>3. CASE CheckBuildingCancel(h, u, b, r)
      BY <2>3, <3>3 DEF CheckBuildingCancel, Live
    <3>4. CASE CheckBuildingComment(h, u, b, r)
      BY <2>3, <3>4 DEF CheckBuildingComment
    <3>5. CASE CheckAttach(h, u, b, r)
      BY <2>3, <3>5 DEF CheckAttach
    <3>. QED  BY <2>5, <3>1, <3>2, <3>3, <3>4, <3>5 DEF BuildingCall
  <2>6. ASSUME NEW h \in Handlers, Finish(h)
        PROVE  ReadIsCurrent'
    <3>1. ASSUME NEW op, NEW new, UpdateById(h, op, new)
          PROVE  ReadIsCurrent'
      <4>1. txn[h].request \in Requests
        BY <2>1 DEF Txn
      <4>2. /\ txn'[h].pc = "committed" /\ txn'[h].request = txn[h].request
            /\ txn'[h].seen = row'[txn[h].request]
        BY <2>1, <3>1, <4>1 DEF UpdateById, Txn
      <4>. QED  BY <2>2, <4>2
    <3>2. ASSUME NEW op, Insert(h, op)
          PROVE  ReadIsCurrent'
      <4>1. /\ txn'[h].pc = "committed" /\ txn'[h].request = txn[h].request
            /\ txn'[h].seen = txn[h].seen /\ row' = row
        BY <2>1, <3>2 DEF Insert, Txn
      <4>2. txn[h].seen = row[txn[h].request]
        BY <3>2 DEF Insert, ReadIsCurrent
      <4>. QED  BY <2>2, <4>1, <4>2
    <3>3. CASE EmitEvent(h) \/ Respond(h)
      <4>1. \A k \in Handlers : txn'[k].pc = "idle"
        <5> SUFFICES ASSUME NEW k \in Handlers
                     PROVE  txn'[k].pc = "idle"
          OBVIOUS
        <5>1. txn[h].pc = "committed" /\ txn' = [txn EXCEPT ![h] = Idle]
          BY <3>3 DEF EmitEvent, Respond
        <5>2. CASE k = h
          BY <2>1, <5>1, <5>2 DEF Idle
        <5>3. CASE k # h
          BY <2>1, <5>1, <5>3 DEF OneAtATime, InFlight
        <5>. QED  BY <5>2, <5>3
      <4>. QED  BY <4>1 DEF ReadIsCurrent
    <3>4. CASE CommitEdit(h) \/ CommitCancel(h) \/ CommitAssign(h) \/ CommitStatus(h)
      BY <3>1, <3>4 DEF CommitEdit, CommitCancel, CommitAssign, CommitStatus
    <3>5. CASE CommitResidentComment(h) \/ CommitBuildingComment(h) \/ CommitAttach(h)
      BY <3>2, <3>5 DEF CommitResidentComment, CommitBuildingComment, CommitAttach
    <3>. QED  BY <2>6, <3>3, <3>4, <3>5 DEF Finish
  <2>7. CASE Crash
    BY <2>7 DEF Crash, ReadIsCurrent, Idle
  <2>8. CASE UNCHANGED vars
    BY <2>8 DEF vars, ReadIsCurrent
  <2>. QED  BY <2>4, <2>5, <2>6, <2>7, <2>8 DEF Next, Serve
<1>. QED  BY <1>1, <1>2, InductiveInvariant, PTL DEF Spec

(* Until its event is out, only the call that wrote a request knows better   *)
(* than the subscribers; a call that has ended owes none.                    *)
EventsCatchUp ==
  \A r \in Requests :
    \/ announced[r] = row[r].status
    \/ \E h \in Handlers : txn[h].pc = "committed" /\ txn[h].op \in Announcing
                             /\ txn[h].request = r

LEMMA EventsFollow ==
  Spec /\ []OneAtATime /\ [][Serve]_vars => []EventsCatchUp
<1>1. Init => EventsCatchUp
  BY DEF Init, EventsCatchUp, NoRow
<1>2. IInv /\ ReadIsCurrent /\ EventsCatchUp /\ OneAtATime /\ OneAtATime' /\ [Serve]_vars
        => EventsCatchUp'
  <2> SUFFICES ASSUME IInv, ReadIsCurrent, EventsCatchUp, OneAtATime, OneAtATime',
                      [Serve]_vars
               PROVE  EventsCatchUp'
    OBVIOUS
  <2>1. /\ txn \in [Handlers -> Txn] /\ row \in [Requests -> Row]
        /\ announced \in [Requests -> Status \cup {"NONE"}]
    BY DEF IInv, TypeOK
  (* Before a call has written, and before one begins, subscribers know all. *)
  <2>2. ASSUME NEW h \in Handlers, txn'[h].pc # "idle",
               txn[h].pc \in {"idle", "checked"} \/ txn[h].op \notin Announcing,
               \A k \in Handlers : k # h => txn'[k] = txn[k]
        PROVE  \A r \in Requests : announced[r] = row[r].status
    <3> SUFFICES ASSUME NEW k \in Handlers, txn[k].pc = "committed",
                        txn[k].op \in Announcing
                 PROVE  FALSE
      BY DEF EventsCatchUp
    <3>1. k # h
      BY <2>2
    <3>2. txn'[k].pc = "committed"
      BY <2>2, <3>1
    <3>. QED  BY <2>2, <3>1, <3>2 DEF OneAtATime, InFlight
  <2>3. ASSUME NEW h \in Handlers, NEW op, NEW u, NEW r, NEW s, NEW body, NEW edit,
               Checked(h, op, u, r, s, body, edit)
        PROVE  EventsCatchUp'
    <3>1. /\ txn[h].pc = "idle" /\ txn'[h].pc = "checked"
          /\ \A k \in Handlers : k # h => txn'[k] = txn[k]
      BY <2>1, <2>3 DEF Checked
    <3>2. UNCHANGED <<row, announced>>
      BY <2>3 DEF Checked
    <3>. QED  BY <2>2, <3>1, <3>2 DEF EventsCatchUp
  <2>4. ASSUME NEW h \in Handlers, NEW u \in Users, NEW r \in Requests,
               ResidentCall(h, u, r)
        PROVE  EventsCatchUp'
    <3>1. ASSUME NEW b \in Buildings, NEW t \in Texts, CreateResidentRequest(h, u, r, b, t)
          PROVE  EventsCatchUp'
      <4>1. /\ txn[h].pc = "idle" /\ txn'[h].pc = "committed" /\ txn'[h].request = r
            /\ txn'[h].op = "create"
            /\ \A k \in Handlers : k # h => txn'[k] = txn[k]
            /\ \A q \in Requests : q # r => row'[q] = row[q]
            /\ announced' = announced
        BY <2>1, <3>1 DEF CreateResidentRequest
      <4>2. "create" \in Announcing
        BY DEF Announcing, Ops
      <4>. QED  BY <2>2, <4>1, <4>2 DEF EventsCatchUp
    <3>. QED  BY <2>3, <2>4, <3>1
              DEF ResidentCall, CheckEdit, CheckResidentCancel, CheckResidentComment
  <2>5. ASSUME NEW h \in Handlers, NEW u \in Users, NEW b \in Buildings,
               NEW r \in Requests, BuildingCall(h, u, b, r)
        PROVE  EventsCatchUp'
    BY <2>3, <2>5 DEF BuildingCall, CheckAssign, CheckStatus, CheckBuildingCancel,
                      CheckBuildingComment, CheckAttach
  <2>6. ASSUME NEW h \in Handlers, Finish(h)
        PROVE  EventsCatchUp'
    <3> DEFINE r == txn[h].request
    <3>1. /\ r \in Requests /\ txn[h] \in Txn
      BY <2>1 DEF Txn
    <3>2. ASSUME NEW op, NEW new, UpdateById(h, op, new),
                 op \in Announcing \/ new.status = row[r].status
          PROVE  EventsCatchUp'
      <4>1. /\ txn[h].pc = "checked" /\ txn'[h].pc = "committed" /\ txn'[h].request = r
            /\ txn'[h].op = op
            /\ \A k \in Handlers : k # h => txn'[k] = txn[k]
            /\ announced' = announced
        BY <2>1, <3>1, <3>2 DEF UpdateById, Txn
      <4>2. row'[r] = new /\ \A q \in Requests : q # r => row'[q] = row[q]
        BY <2>1, <3>1, <3>2 DEF UpdateById
      <4>. QED  BY <2>2, <3>2, <4>1, <4>2 DEF EventsCatchUp
    <3>3. ASSUME NEW op, Insert(h, op)
          PROVE  EventsCatchUp'
      <4>1. /\ txn[h].pc = "checked" /\ txn'[h].pc = "committed"
            /\ \A k \in Handlers : k # h => txn'[k] = txn[k]
            /\ UNCHANGED <<row, announced>>
        BY <2>1, <3>3 DEF Insert, Txn
      <4>. QED  BY <2>2, <4>1 DEF EventsCatchUp
    <3>4. ASSUME txn[h].pc = "committed", NEW k \in Handlers, txn[k].pc = "committed"
          PROVE  k = h
      BY <3>4 DEF OneAtATime, InFlight
    <3>5. CASE EmitEvent(h)
      <4>1. /\ txn[h].pc = "committed" /\ row' = row
            /\ announced'[r] = txn[h].seen.status
            /\ \A q \in Requests : q # r => announced'[q] = announced[q]
        BY <2>1, <3>1, <3>5 DEF EmitEvent
      <4>2. txn[h].seen = row[r]
        BY <4>1 DEF ReadIsCurrent
      <4>3. \A q \in Requests : q # r => announced[q] = row[q].status
        BY <3>4, <4>1 DEF EventsCatchUp
      <4>. QED  BY <4>1, <4>2, <4>3 DEF EventsCatchUp
    <3>6. CASE Respond(h)
      <4>1. \A q \in Requests : announced[q] = row[q].status
        BY <3>4, <3>6 DEF Respond, EventsCatchUp
      <4>. QED  BY <3>6, <4>1 DEF Respond, EventsCatchUp
    <3>7. CASE CommitEdit(h)
      <4> DEFINE text == [f \in Fields |-> IF txn[h].edit[f] = NoText
                                             THEN txn[h].seen.text[f]
                                             ELSE txn[h].edit[f]]
                 new == [row[r] EXCEPT !.text = text]
      <4>1. UpdateById(h, "edit", new)
        BY <3>7 DEF CommitEdit, Current
      <4>2. new.status = row[r].status
        BY <2>1, <3>1 DEF Row
      <4> HIDE DEF new
      <4>. QED  BY <3>2, <4>1, <4>2
    <3>8. CASE CommitCancel(h) \/ CommitAssign(h) \/ CommitStatus(h)
      <4>1. {"cancel", "assign", "status"} \subseteq Announcing
        BY DEF Announcing, Ops
      <4>. QED  BY <3>2, <3>8, <4>1 DEF CommitCancel, CommitAssign, CommitStatus
    <3>9. CASE CommitResidentComment(h) \/ CommitBuildingComment(h) \/ CommitAttach(h)
      BY <3>3, <3>9 DEF CommitResidentComment, CommitBuildingComment, CommitAttach
    <3>. QED  BY <2>6, <3>5, <3>6, <3>7, <3>8, <3>9 DEF Finish
  <2>7. CASE UNCHANGED vars
    BY <2>7 DEF vars, EventsCatchUp
  <2>. QED  BY <2>4, <2>5, <2>6, <2>7 DEF Serve
<1>. QED  BY <1>1, <1>2, ReadStaysCurrent, InductiveInvariant, PTL DEF Spec

(* After calls that do not overlap, in a process that stays up, subscribers  *)
(* know the current status of every request.                                 *)
THEOREM SubscribersAreCurrent ==
  Spec /\ []OneAtATime /\ [][Serve]_vars => []LastEventIsCurrent
<1>1. EventsCatchUp => LastEventIsCurrent
  BY DEF EventsCatchUp, LastEventIsCurrent
<1>. QED  BY <1>1, EventsFollow, PTL

-----------------------------------------------------------------------------
(* Handlers that do not overlap implement the documented workflow:           *)
(* every write of a row is one of its steps.                                 *)
LEMMA WriteMapsToMove ==
  IInv /\ BodiesAreDocumented /\ ReadIsCurrent /\ [Next]_vars
    => [Workflow!Next]_(Workflow!wvars)
<1> DEFINE status == [q \in Requests |-> row[q].status]
           worker == [q \in Requests |-> row[q].assignee]
<1>. SUFFICES ASSUME IInv, BodiesAreDocumented, ReadIsCurrent, [Next]_vars
              PROVE  Workflow!Next \/ UNCHANGED <<status, worker>>
  BY DEF Workflow!wvars
<1>1. /\ row \in [Requests -> Row]
      /\ txn \in [Handlers -> Txn]
  BY DEF IInv, TypeOK
<1>2. ASSUME UNCHANGED row
      PROVE  UNCHANGED <<status, worker>>
  BY <1>2
<1>3. ASSUME NEW h \in Handlers, NEW u \in Users, NEW r \in Requests,
             ResidentCall(h, u, r)
      PROVE  Workflow!Next \/ UNCHANGED <<status, worker>>
  <2>1. ASSUME NEW b \in Buildings, NEW t \in Texts, CreateResidentRequest(h, u, r, b, t)
        PROVE  Workflow!Next
    <3> DEFINE new == [status |-> "OPEN", building |-> b, creator |-> u,
                       assignee |-> NoUser, completedAt |-> FALSE,
                       canceledAt |-> FALSE, text |-> [f \in Fields |-> t]]
    <3>1. row[r] = NoRow /\ row' = [row EXCEPT ![r] = new]
      BY <2>1 DEF CreateResidentRequest
    <3>2. /\ status[r] = "NONE" /\ worker[r] = NoUser
          /\ row'[r].status = "OPEN" /\ row'[r].assignee = NoUser
          /\ \A q \in Requests : q # r => row'[q] = row[q]
      BY <1>1, <3>1 DEF NoRow
    <3>3. status' = [status EXCEPT ![r] = "OPEN"] /\ UNCHANGED worker
      BY <3>2
    <3>. QED  BY <3>2, <3>3 DEF Workflow!Next, Workflow!Create, Workflow!Move
  <2>2. ASSUME NEW edit \in [Fields -> Texts \cup {NoText}], CheckEdit(h, u, r, edit)
        PROVE  UNCHANGED row
    BY <2>2 DEF CheckEdit, Checked
  <2>3. CheckResidentCancel(h, u, r) \/ CheckResidentComment(h, u, r) => UNCHANGED row
    BY DEF CheckResidentCancel, CheckResidentComment, Checked
  <2>. QED  BY <1>2, <1>3, <2>1, <2>2, <2>3 DEF ResidentCall
<1>4. ASSUME NEW h \in Handlers, NEW u \in Users, NEW b \in Buildings,
             NEW r \in Requests, BuildingCall(h, u, b, r)
      PROVE  UNCHANGED row
  BY <1>4 DEF BuildingCall, CheckAssign, CheckStatus, CheckBuildingCancel,
              CheckBuildingComment, CheckAttach, Checked
<1>5. ASSUME NEW h \in Handlers, Finish(h)
      PROVE  Workflow!Next \/ UNCHANGED <<status, worker>>
  <2> DEFINE r == txn[h].request
  <2>1. /\ r \in Requests /\ row[r] \in Row /\ txn[h] \in Txn
        /\ status[r] = row[r].status /\ worker[r] = row[r].assignee
    BY <1>1 DEF Txn
  <2>2. ASSUME txn[h].pc = "checked"
        PROVE  row[r].status \in Status
    BY <2>1, <2>2 DEF IInv, TxnInv, Row
  <2>write. ASSUME NEW op, NEW new \in Row, UpdateById(h, op, new)
            PROVE  /\ status' = [status EXCEPT ![r] = new.status]
                   /\ worker' = [worker EXCEPT ![r] = new.assignee]
    <3>1. row' = [row EXCEPT ![r] = new]
      BY <2>write DEF UpdateById
    <3>2. /\ row'[r] = new
          /\ \A q \in Requests : q # r => row'[q] = row[q]
      BY <1>1, <2>1, <3>1
    <3>. QED  BY <2>1, <3>2
  <2>3. CASE CommitEdit(h)
    <3> DEFINE text == [f \in Fields |-> IF txn[h].edit[f] = NoText
                                           THEN txn[h].seen.text[f]
                                           ELSE txn[h].edit[f]]
               new == [row[r] EXCEPT !.text = text]
    <3>1. UpdateById(h, "edit", new)
      BY <2>3 DEF CommitEdit, Current
    <3>2. /\ new \in Row
          /\ new.status = row[r].status /\ new.assignee = row[r].assignee
      BY <2>1 DEF Row, Txn
    <3> HIDE DEF new
    <3>3. /\ status' = [status EXCEPT ![r] = new.status]
          /\ worker' = [worker EXCEPT ![r] = new.assignee]
      BY <3>1, <3>2, <2>write
    <3>. QED  BY <2>1, <3>2, <3>3
  <2>4. CASE CommitCancel(h)
    <3> DEFINE new == [row[r] EXCEPT !.status = "CANCELED", !.canceledAt = TRUE]
    <3>1. txn[h].pc = "checked" /\ txn[h].op = "cancel" /\ UpdateById(h, "cancel", new)
      BY <2>4 DEF CommitCancel, Current, UpdateById
    <3>2. /\ new \in Row
          /\ new.status = "CANCELED" /\ new.assignee = row[r].assignee
      BY <2>1 DEF Row, Status
    <3> HIDE DEF new
    <3>write. /\ status' = [status EXCEPT ![r] = new.status]
          /\ worker' = [worker EXCEPT ![r] = new.assignee]
      BY <3>1, <3>2, <2>write
    <3>3. /\ status' = [status EXCEPT ![r] = "CANCELED"]
          /\ worker' = [worker EXCEPT ![r] = row[r].assignee]
      BY <3>2, <3>write
    <3>4. UNCHANGED worker
      BY <2>1, <3>3
    <3>5. status[r] \in {"OPEN", "ASSIGNED", "IN_PROGRESS"}
      BY <2>1, <2>2, <3>1 DEF ReadIsCurrent, Terminal, Status
    <3>. QED  BY <2>1, <3>3, <3>4, <3>5
              DEF Workflow!Next, Workflow!Cancel, Workflow!Move
  <2>5. CASE CommitAssign(h)
    <3> DEFINE new == [row[r] EXCEPT !.status = "ASSIGNED", !.assignee = txn[h].staff]
    <3>1. txn[h].pc = "checked" /\ txn[h].op = "assign" /\ UpdateById(h, "assign", new)
      BY <2>5 DEF CommitAssign, Current, UpdateById
    <3>2. txn[h].staff \in Users
      BY <3>1 DEF IInv, TxnInv
    <3>3. /\ new \in Row
          /\ new.status = "ASSIGNED" /\ new.assignee = txn[h].staff
      BY <2>1, <3>2 DEF Row, Status
    <3> HIDE DEF new
    <3>write. /\ status' = [status EXCEPT ![r] = new.status]
          /\ worker' = [worker EXCEPT ![r] = new.assignee]
      BY <3>1, <3>3, <2>write
    <3>4. /\ status' = [status EXCEPT ![r] = "ASSIGNED"]
          /\ worker' = [worker EXCEPT ![r] = txn[h].staff]
      BY <3>3, <3>write
    <3>5. status[r] \in {"OPEN", "ASSIGNED"}
      BY <2>1, <3>1 DEF ReadIsCurrent
    <3>. QED  BY <2>1, <3>2, <3>4, <3>5
              DEF Workflow!Next, Workflow!Assign, Workflow!Move
  <2>6. CASE CommitStatus(h)
    <3> DEFINE new == [row[r] EXCEPT !.status = txn[h].body,
                         !.completedAt = txn[h].body = "COMPLETED"
                                           \/ txn[h].seen.completedAt]
    <3>1. txn[h].pc = "checked" /\ txn[h].op = "status" /\ UpdateById(h, "status", new)
      BY <2>6 DEF CommitStatus, Current, UpdateById
    <3>2. /\ txn[h].seen = row[r]
          /\ <<row[r].status, txn[h].body>> \in Transitions
      BY <3>1 DEF ReadIsCurrent, IInv, TxnInv
    <3>3. txn[h].body # "ASSIGNED"
      BY <3>1 DEF BodiesAreDocumented, DocumentedBodies, InFlight
    <3>4. \/ status[r] = "ASSIGNED" /\ txn[h].body = "IN_PROGRESS"
          \/ status[r] = "IN_PROGRESS" /\ txn[h].body = "COMPLETED"
      BY <2>1, <3>2, <3>3 DEF Transitions
    <3>5. /\ new \in Row
          /\ new.status = txn[h].body /\ new.assignee = row[r].assignee
      BY <2>1 DEF Row, Txn
    <3> HIDE DEF new
    <3>write. /\ status' = [status EXCEPT ![r] = new.status]
          /\ worker' = [worker EXCEPT ![r] = new.assignee]
      BY <3>1, <3>5, <2>write
    <3>6. /\ status' = [status EXCEPT ![r] = txn[h].body]
          /\ worker' = [worker EXCEPT ![r] = row[r].assignee]
      BY <3>5, <3>write
    <3>7. UNCHANGED worker
      BY <2>1, <3>6
    <3>. QED  BY <2>1, <3>4, <3>6, <3>7
              DEF Workflow!Next, Workflow!Start, Workflow!Complete, Workflow!Move
  <2>7. CASE \/ CommitResidentComment(h) \/ CommitBuildingComment(h) \/ CommitAttach(h)
             \/ EmitEvent(h) \/ Respond(h)
    BY <1>2, <2>7 DEF CommitResidentComment, CommitBuildingComment, CommitAttach,
                      Insert, EmitEvent, Respond
  <2>. QED  BY <1>5, <2>3, <2>4, <2>5, <2>6, <2>7 DEF Finish
<1>6. CASE Crash
  BY <1>2, <1>6 DEF Crash
<1>7. CASE UNCHANGED vars
  BY <1>2, <1>7 DEF vars
<1>. QED  BY <1>2, <1>3, <1>4, <1>5, <1>6, <1>7 DEF Next, Serve

THEOREM SerialImplementsWorkflow ==
  Spec /\ []OneAtATime /\ []BodiesAreDocumented => ImplementsWorkflow
<1>1. Init => Workflow!Init
  BY DEF Init, Workflow!Init, NoRow
<1>. QED  BY <1>1, WriteMapsToMove, ReadStaysCurrent, InductiveInvariant, PTL
          DEF Spec, ImplementsWorkflow, Workflow!Spec

-----------------------------------------------------------------------------
(* The scenarios of MCMaintenanceRequests, for every value of the constants  *)
ScenarioInv ==
  /\ scenario = "serial" => OneAtATime
  /\ scenario # "any" => BodiesAreDocumented

LEMMA ScenarioInvariant == MCSpec => Spec /\ []ScenarioInv
<1>1. MCInit => Init /\ ScenarioInv
  BY DEF MCInit, Init, ScenarioInv, OneAtATime, BodiesAreDocumented, InFlight, Idle
<1>2. [MCNext]_mcvars => [Next]_vars
  BY DEF MCNext, mcvars, Next
<1>3. ScenarioInv /\ [MCNext]_mcvars => ScenarioInv'
  <2>1. CASE MCNext
    BY <2>1 DEF MCNext, ScenarioInv
  <2>2. CASE UNCHANGED mcvars
    BY <2>2 DEF mcvars, vars, ScenarioInv, OneAtATime, BodiesAreDocumented, InFlight
  <2>. QED  BY <2>1, <2>2
<1>. QED  BY <1>1, <1>2, <1>3, PTL DEF MCSpec, Spec

Serial == scenario = "serial"
AnyBodies == scenario = "any"

LEMMA ScenarioIsKept ==
  MCSpec => ([]Serial \/ []~Serial) /\ ([]AnyBodies \/ []~AnyBodies)
<1>1. [MCNext]_mcvars => (Serial' <=> Serial) /\ (AnyBodies' <=> AnyBodies)
  BY DEF MCNext, mcvars, Serial, AnyBodies
<1>. QED  BY <1>1, PTL DEF MCSpec

(* DocumentedWorkHasAssignee for every cast and any number of handlers *)
THEOREM DocumentedWorkIsAssigned == MCSpec => []DocumentedWorkHasAssignee
<1>1. ScenarioInv /\ ~AnyBodies => BodiesAreDocumented
  BY DEF ScenarioInv, Serial, AnyBodies
<1>2. WorkHasAssignee \/ AnyBodies => DocumentedWorkHasAssignee
  BY DEF DocumentedWorkHasAssignee, AnyBodies
<1>. QED  BY <1>1, <1>2, ScenarioIsKept, ScenarioInvariant, WorkIsAssigned, PTL

(* AnnouncedIsCurrent for every cast and any number of handlers *)
THEOREM SerialSubscribersAreCurrent == MCSpec => []AnnouncedIsCurrent
<1>1. ScenarioInv /\ Serial => OneAtATime
  BY DEF ScenarioInv, Serial, AnyBodies
<1>2. LastEventIsCurrent \/ ~Serial => AnnouncedIsCurrent
  BY DEF AnnouncedIsCurrent, Serial
<1>3. Serial /\ [MCNext]_mcvars => [Serve]_vars
  BY DEF MCNext, mcvars, Serial
<1>4. MCSpec /\ [](Serial) => [][Serve]_vars
  BY <1>3, PTL DEF MCSpec
<1>. QED  BY <1>1, <1>2, <1>4, ScenarioIsKept, ScenarioInvariant, SubscribersAreCurrent, PTL

(* SerialWorkflow for every cast and any number of handlers *)
THEOREM SerialHandlersFollowWorkflow == MCSpec => SerialWorkflow
<1>1. Init => Workflow!Init
  BY DEF Init, Workflow!Init, NoRow
<1>2. ScenarioInv /\ Serial => OneAtATime /\ BodiesAreDocumented
  BY DEF ScenarioInv, Serial, AnyBodies
<1>3. IInv /\ BodiesAreDocumented /\ ReadIsCurrent /\ [MCNext]_mcvars
        => [scenario = "serial" => Workflow!Next \/ UNCHANGED Workflow!wvars]_mcvars
  <2>1. [MCNext]_mcvars => [Next]_vars
    BY DEF MCNext, mcvars, Next
  <2>. QED  BY <2>1, WriteMapsToMove
<1>4. ~Serial /\ [MCNext]_mcvars
        => [scenario = "serial" => Workflow!Next \/ UNCHANGED Workflow!wvars]_mcvars
  BY DEF Serial
<1>5. MCSpec /\ [](Serial) => SerialWorkflow
  BY <1>1, <1>2, <1>3, ScenarioInvariant, ReadStaysCurrent, InductiveInvariant, PTL
     DEF SerialWorkflow, MCSpec, Spec
<1>6. MCSpec /\ [](~Serial) => SerialWorkflow
  BY <1>1, <1>4, ScenarioInvariant, PTL DEF SerialWorkflow, MCSpec, Spec
<1>. QED  BY <1>5, <1>6, ScenarioIsKept, PTL
=============================================================================
