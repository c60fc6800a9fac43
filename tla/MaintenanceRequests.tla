------------------------ MODULE MaintenanceRequests ------------------------
(***************************************************************************)
(* The life of a maintenance request:                                      *)
(* src/modules/maintenance-requests/maintenance-requests.service.ts.       *)
(*                                                                         *)
(* Every mutating handler reads the request, checks what it read, then     *)
(* writes the row by its id alone.  PostgreSQL runs these transactions at  *)
(* READ COMMITTED, and the UPDATE carries no condition on the status, so   *)
(* another handler may commit between the read and the write.  A handler   *)
(* is therefore two steps here, a read that ends in a check and a commit,  *)
(* followed by the in-memory event emitted after the commit.  A handler    *)
(* that is refused changes nothing and is left out.                        *)
(***************************************************************************)
EXTENDS BuildingAccess

CONSTANTS
  Requests,      \* identifiers of request rows
  Handlers,      \* HTTP calls that may be in flight at once
  Texts,         \* contents of a title or a description
  StatusBodies,  \* statuses clients send to the status endpoint
  Inactive,      \* accounts that were switched off by hand
  NoUser,        \* NULL in assignedToUserId and createdByUserId
  NoBuilding,    \* the building of a row that does not exist
  NoText,        \* a field left out of an edit
  MayCrash       \* whether the process may be killed

VARIABLES
  row,          \* MaintenanceRequest rows
  comments,     \* who has commented on a request: its resident, the building
  attachments,  \* whether the building attached files to a request
  txn,          \* the call each handler is serving
  announced,    \* status in the last event subscribers saw of a request
  history       \* every status a row was ever committed with (auxiliary)

vars == <<row, comments, attachments, txn, announced, history>>

Status == {"OPEN", "ASSIGNED", "IN_PROGRESS", "COMPLETED", "CANCELED"}
Terminal == {"COMPLETED", "CANCELED"}
Fields == {"title", "description"}

(* Mutant of Transitions: a step skipped. *)
SkippingTransitions == {<<"OPEN", "ASSIGNED">>, <<"OPEN", "IN_PROGRESS">>,
                        <<"IN_PROGRESS", "COMPLETED">>}

(* MAINTENANCE_STATUS_TRANSITIONS, as a relation *)
Transitions == {<<"OPEN", "ASSIGNED">>,
                <<"ASSIGNED", "IN_PROGRESS">>,
                <<"IN_PROGRESS", "COMPLETED">>}

ASSUME RequestAssumption ==
  /\ Requests # {}
  /\ StatusBodies \subseteq Status
  /\ NoUser \notin Users /\ Inactive \subseteq Users
  /\ NoBuilding \notin Buildings
  /\ NoText \notin Texts
  /\ MayCrash \in BOOLEAN

Row == [status: Status \cup {"NONE"},
        building: Buildings \cup {NoBuilding},
        creator: Users \cup {NoUser},
        assignee: Users \cup {NoUser},
        completedAt: BOOLEAN,      \* whether the timestamp is set
        canceledAt: BOOLEAN,
        text: [Fields -> Texts \cup {NoText}]]

NoRow == [status |-> "NONE", building |-> NoBuilding, creator |-> NoUser,
          assignee |-> NoUser, completedAt |-> FALSE, canceledAt |-> FALSE,
          text |-> [f \in Fields |-> NoText]]

Ops == {"create", "edit", "cancel", "residentComment", "assign", "status",
        "buildingComment", "attach"}

(* The operations whose service method ends in emitEvent. *)
Announcing == Ops \ {"edit", "attach"}

Txn == [pc: {"idle", "checked", "committed"},
        op: Ops \cup {"none"},
        user: Users \cup {NoUser},
        request: Requests,
        staff: Users \cup {NoUser},               \* dto.staffUserId
        body: Status,                             \* dto.status
        edit: [Fields -> Texts \cup {NoText}],    \* dto.title, dto.description
        seen: Row]                                \* the row as read, then as written

Idle == [pc |-> "idle", op |-> "none", user |-> NoUser,
         request |-> CHOOSE r \in Requests : TRUE,
         staff |-> NoUser, body |-> "OPEN",
         edit |-> [f \in Fields |-> NoText], seen |-> NoRow]

Init ==
  /\ row = [r \in Requests |-> NoRow]
  /\ comments = [r \in Requests |-> {}]
  /\ attachments = [r \in Requests |-> FALSE]
  /\ txn = [h \in Handlers |-> Idle]
  /\ announced = [r \in Requests |-> "NONE"]
  /\ history = [r \in Requests |-> {}]

-----------------------------------------------------------------------------
(* Reads and checks.  findByIdForCreator and findByIdForBuilding find a row  *)
(* only in the caller's organisation.                                       *)

FindByIdForCreator(u, r) ==
  /\ row[r].status # "NONE"
  /\ row[r].creator = u
  /\ BuildingOrg[row[r].building] = UserOrg[u]

FindByIdForBuilding(u, b, r) ==
  /\ row[r].status # "NONE"
  /\ row[r].building = b
  /\ BuildingOrg[row[r].building] = UserOrg[u]

(* STAFF act only on the requests assigned to them. *)
StaffOnOwnRequest(u, b, r) ==
  GetBuildingAssignmentType(b, u) = "STAFF" => row[r].assignee = u

(* Active, of the caller's organisation, and STAFF of the building           *)
MayWork(s, b, u) ==
  s \notin Inactive /\ UserOrg[s] = UserOrg[u] /\ Assigned(s, b, "STAFF")

Live(r) == row[r].status \notin Terminal

Assignable(r) == row[r].status \in {"OPEN", "ASSIGNED"}

Editable(r) == row[r].status = "OPEN"

Checked(h, op, u, r, staff, body, edit) ==
  /\ txn[h].pc = "idle"
  /\ txn' = [txn EXCEPT ![h] =
               [pc |-> "checked", op |-> op, user |-> u, request |-> r,
                staff |-> staff, body |-> body, edit |-> edit, seen |-> row[r]]]
  /\ UNCHANGED <<row, comments, attachments, announced, history>>

NoEdit == [f \in Fields |-> NoText]

(* updateResidentRequest: not in a transaction, but the same two steps *)
CheckEdit(h, u, r, edit) ==
  /\ FindByIdForCreator(u, r)
  /\ Editable(r)
  /\ edit # NoEdit
  /\ Checked(h, "edit", u, r, NoUser, "OPEN", edit)

CheckResidentCancel(h, u, r) ==
  /\ FindByIdForCreator(u, r)
  /\ Live(r)
  /\ Checked(h, "cancel", u, r, NoUser, "OPEN", NoEdit)

CheckResidentComment(h, u, r) ==
  /\ FindByIdForCreator(u, r)
  /\ Live(r)
  /\ Checked(h, "residentComment", u, r, NoUser, "OPEN", NoEdit)

(* Mutant of CheckAssign: the assignee need not be STAFF of the building. *)
CheckAssignAnyone(h, u, b, r, s) ==
  /\ CanWriteBuildingResource(u, b, "requests.assign", TRUE)
  /\ FindByIdForBuilding(u, b, r)
  /\ Assignable(r)
  /\ Checked(h, "assign", u, r, s, "OPEN", NoEdit)

CheckAssign(h, u, b, r, s) ==
  /\ CanWriteBuildingResource(u, b, "requests.assign", TRUE)
  /\ GetBuildingAssignmentType(b, u) # "STAFF"
  /\ FindByIdForBuilding(u, b, r)
  /\ Assignable(r)
  /\ MayWork(s, b, u)
  /\ Checked(h, "assign", u, r, s, "OPEN", NoEdit)

CheckStatus(h, u, b, r, body) ==
  /\ CanReadBuildingResource(u, b, "requests.update_status", FALSE)
  /\ FindByIdForBuilding(u, b, r)
  /\ <<row[r].status, body>> \in Transitions
  /\ StaffOnOwnRequest(u, b, r)
  /\ Checked(h, "status", u, r, NoUser, body, NoEdit)

CheckBuildingCancel(h, u, b, r) ==
  /\ CanReadBuildingResource(u, b, "requests.update_status", FALSE)
  /\ \/ GetBuildingAssignmentType(b, u) # "NONE"
     \/ HasGlobalPermission(u, "requests.update_status")
  /\ GetBuildingAssignmentType(b, u) # "STAFF"
  /\ FindByIdForBuilding(u, b, r)
  /\ Live(r)
  /\ Checked(h, "cancel", u, r, NoUser, "OPEN", NoEdit)

(* addBuildingComment does not look at the status. *)
CheckBuildingComment(h, u, b, r) ==
  /\ CanReadBuildingResource(u, b, "requests.comment", FALSE)
  /\ FindByIdForBuilding(u, b, r)
  /\ StaffOnOwnRequest(u, b, r)
  /\ Checked(h, "buildingComment", u, r, NoUser, "OPEN", NoEdit)

CheckAttach(h, u, b, r) ==
  /\ CanReadBuildingResource(u, b, "requests.comment", FALSE)
  /\ FindByIdForBuilding(u, b, r)
  /\ Live(r)
  /\ StaffOnOwnRequest(u, b, r)
  /\ Checked(h, "attach", u, r, NoUser, "OPEN", NoEdit)

-----------------------------------------------------------------------------
(* Commits.  The row that comes back from the write is the event's snapshot; *)
(* a comment's event carries the row read before the comment was inserted.   *)

(* createResidentRequest reads nothing another handler writes: one step.     *)
(* findFirst takes any of the caller's ACTIVE occupancies.                   *)
CreateResidentRequest(h, u, r, b, t) ==
  LET new == [status |-> "OPEN", building |-> b, creator |-> u,
              assignee |-> NoUser, completedAt |-> FALSE,
              canceledAt |-> FALSE, text |-> [f \in Fields |-> t]]
  IN
  /\ txn[h].pc = "idle"
  /\ HasActiveOccupancy(b, u)
  /\ AssertBuildingInOrg(b, u)
  /\ row[r] = NoRow
  /\ row' = [row EXCEPT ![r] = new]
  /\ history' = [history EXCEPT ![r] = {"OPEN"}]
  /\ txn' = [txn EXCEPT ![h] =
               [pc |-> "committed", op |-> "create", user |-> u, request |-> r,
                staff |-> NoUser, body |-> "OPEN", edit |-> NoEdit, seen |-> new]]
  /\ UNCHANGED <<comments, attachments, announced>>

(* Mutant of UpdateById: the event is built from the row read before. *)
UpdateByIdKeepingSnapshot(h, op, new) ==
  LET r == txn[h].request
  IN
  /\ txn[h].pc = "checked"
  /\ txn[h].op = op
  /\ row' = [row EXCEPT ![r] = new]
  /\ history' = [history EXCEPT ![r] = @ \cup {new.status}]
  /\ txn' = [txn EXCEPT ![h].pc = "committed"]
  /\ UNCHANGED <<comments, attachments, announced>>

UpdateById(h, op, new) ==
  LET r == txn[h].request
  IN
  /\ txn[h].pc = "checked"
  /\ txn[h].op = op
  /\ row' = [row EXCEPT ![r] = new]
  /\ history' = [history EXCEPT ![r] = @ \cup {new.status}]
  /\ txn' = [txn EXCEPT ![h].pc = "committed", ![h].seen = new]
  /\ UNCHANGED <<comments, attachments, announced>>

Current(h) == row[txn[h].request]

(* Both columns are written; the one not in the body from the row as read. *)
CommitEdit(h) ==
  UpdateById(h, "edit",
    [Current(h) EXCEPT !.text =
       [f \in Fields |-> IF txn[h].edit[f] = NoText THEN txn[h].seen.text[f]
                                                    ELSE txn[h].edit[f]]])

CommitCancel(h) ==
  UpdateById(h, "cancel",
    [Current(h) EXCEPT !.status = "CANCELED", !.canceledAt = TRUE])

(* Mutant of CommitAssign: the assignee is not written. *)
CommitAssignStatusOnly(h) ==
  UpdateById(h, "assign", [Current(h) EXCEPT !.status = "ASSIGNED"])

CommitAssign(h) ==
  UpdateById(h, "assign",
    [Current(h) EXCEPT !.status = "ASSIGNED", !.assignee = txn[h].staff])

(* Mutant of CommitStatus: completedAt forgotten *)
CommitStatusUnstamped(h) ==
  UpdateById(h, "status",
    [Current(h) EXCEPT !.status = txn[h].body, !.completedAt = txn[h].seen.completedAt])

(* completedAt is set on completion and otherwise written back as read. *)
CommitStatus(h) ==
  UpdateById(h, "status",
    [Current(h) EXCEPT !.status = txn[h].body,
       !.completedAt = txn[h].body = "COMPLETED" \/ txn[h].seen.completedAt])

Insert(h, op) ==
  /\ txn[h].pc = "checked"
  /\ txn[h].op = op
  /\ txn' = [txn EXCEPT ![h].pc = "committed"]
  /\ UNCHANGED <<row, announced, history>>

CommitResidentComment(h) ==
  /\ Insert(h, "residentComment")
  /\ comments' = [comments EXCEPT ![txn[h].request] = @ \cup {"resident"}]
  /\ UNCHANGED attachments

CommitBuildingComment(h) ==
  /\ Insert(h, "buildingComment")
  /\ comments' = [comments EXCEPT ![txn[h].request] = @ \cup {"building"}]
  /\ UNCHANGED attachments

CommitAttach(h) ==
  /\ Insert(h, "attach")
  /\ attachments' = [attachments EXCEPT ![txn[h].request] = TRUE]
  /\ UNCHANGED comments

-----------------------------------------------------------------------------
(* After the commit *)

(* Mutant of EmitEvent: emitted from inside the transaction *)
EmitBeforeCommit(h) ==
  /\ txn[h].pc = "checked"
  /\ txn[h].op = "status"
  /\ announced' = [announced EXCEPT ![txn[h].request] = txn[h].body]
  /\ UNCHANGED <<row, comments, attachments, txn, history>>

EmitEvent(h) ==
  /\ txn[h].pc = "committed"
  /\ txn[h].op \in Announcing
  /\ announced' = [announced EXCEPT ![txn[h].request] = txn[h].seen.status]
  /\ txn' = [txn EXCEPT ![h] = Idle]
  /\ UNCHANGED <<row, comments, attachments, history>>

Respond(h) ==
  /\ txn[h].pc = "committed"
  /\ txn[h].op \notin Announcing
  /\ txn' = [txn EXCEPT ![h] = Idle]
  /\ UNCHANGED <<row, comments, attachments, announced, history>>

(* The process dies: calls in flight and events not yet emitted are gone. *)
Crash ==
  /\ MayCrash
  /\ txn' = [h \in Handlers |-> Idle]
  /\ UNCHANGED <<row, comments, attachments, announced, history>>

-----------------------------------------------------------------------------
ResidentCall(h, u, r) ==
  \/ \E b \in Buildings, t \in Texts : CreateResidentRequest(h, u, r, b, t)
  \/ \E edit \in [Fields -> Texts \cup {NoText}] : CheckEdit(h, u, r, edit)
  \/ CheckResidentCancel(h, u, r)
  \/ CheckResidentComment(h, u, r)

BuildingCall(h, u, b, r) ==
  \/ \E s \in Users : CheckAssign(h, u, b, r, s)
  \/ \E body \in StatusBodies : CheckStatus(h, u, b, r, body)
  \/ CheckBuildingCancel(h, u, b, r)
  \/ CheckBuildingComment(h, u, b, r)
  \/ CheckAttach(h, u, b, r)

Finish(h) ==
  \/ CommitEdit(h)
  \/ CommitCancel(h)
  \/ CommitAssign(h)
  \/ CommitStatus(h)
  \/ CommitResidentComment(h)
  \/ CommitBuildingComment(h)
  \/ CommitAttach(h)
  \/ EmitEvent(h)
  \/ Respond(h)

Serve ==
  \E h \in Handlers :
    \/ \E u \in Users \ Inactive, r \in Requests :
         ResidentCall(h, u, r) \/ \E b \in Buildings : BuildingCall(h, u, b, r)
    \/ Finish(h)

Next == Serve \/ Crash

Spec == Init /\ [][Next]_vars

-----------------------------------------------------------------------------
(* Properties *)

TypeOK ==
  /\ row \in [Requests -> Row]
  /\ comments \in [Requests -> SUBSET {"resident", "building"}]
  /\ attachments \in [Requests -> BOOLEAN]
  /\ txn \in [Handlers -> Txn]
  /\ announced \in [Requests -> Status \cup {"NONE"}]
  /\ history \in [Requests -> SUBSET Status]

(* What holds however the handlers interleave. *)

(* No interleaving reports work that was not under way: a request was        *)
(* ASSIGNED before it was IN_PROGRESS and IN_PROGRESS before it was          *)
(* COMPLETED, although every handler decides on a row that may be stale.     *)
ProgressOrder ==
  \A r \in Requests :
    /\ "IN_PROGRESS" \in history[r] => "ASSIGNED" \in history[r]
    /\ "COMPLETED" \in history[r] => "IN_PROGRESS" \in history[r]

(* No handler, however stale its read, takes a request back to OPEN: an OPEN *)
(* request has never been anything else and nobody is assigned to it.        *)
NeverReopened ==
  \A r \in Requests :
    row[r].status = "OPEN" => history[r] = {"OPEN"} /\ row[r].assignee = NoUser

(* A closed request says when it was closed, even when the handler that      *)
(* closed it overtook another one that wrote back the timestamp it had read. *)
ClosedIsStamped ==
  \A r \in Requests :
    /\ row[r].status = "COMPLETED" => row[r].completedAt
    /\ row[r].status = "CANCELED" => row[r].canceledAt

(* Whoever is assigned has an active account, in the organisation of the     *)
(* creator, and is STAFF of the request's building.                          *)
AssigneeIsBuildingStaff ==
  \A r \in Requests :
    row[r].assignee # NoUser =>
      MayWork(row[r].assignee, row[r].building, row[r].creator)

(* Tenant isolation: a call past its checks works on a request of a building *)
(* of the caller's own organisation, whatever permissions the caller has.    *)
SameOrganisation ==
  \A h \in Handlers :
    txn[h].pc # "idle" =>
      BuildingOrg[row[txn[h].request].building] = UserOrg[txn[h].user]

(* Subscribers are told only of statuses the request was committed with.     *)
AnnouncedHappened ==
  \A r \in Requests : announced[r] \in history[r] \cup {"NONE"}

(* Work is under way only on requests that somebody is assigned to; it needs *)
(* clients that never send ASSIGNED to the status endpoint (docs/API.md).    *)
WorkHasAssignee ==
  \A r \in Requests :
    row[r].status \in {"ASSIGNED", "IN_PROGRESS", "COMPLETED"} =>
      row[r].assignee # NoUser

(* What holds while calls do not overlap, each a fact of one step or of the  *)
(* states between calls.                                                     *)

(* Once no call is in flight the last event told the current status.         *)
LastEventIsCurrent ==
  (\A h \in Handlers : txn[h].pc = "idle") =>
    \A r \in Requests : announced[r] = row[r].status

(* The handlers implement the workflow the documentation describes.          *)
Workflow == INSTANCE RequestWorkflow
              WITH Workers <- Users,
                   status <- [r \in Requests |-> row[r].status],
                   worker <- [r \in Requests |-> row[r].assignee]

ImplementsWorkflow == Workflow!Spec
=============================================================================
