------------------------ MODULE NotificationDispatch ------------------------
(***************************************************************************)
(* From a committed change of a maintenance request to notifications: the  *)
(* emit after the commit, NotificationsListener, the recipient resolver    *)
(* and NotificationsService.createForUsers.                                *)
(*                                                                         *)
(* The requests move as RequestWorkflow says.  Listeners run side by side, *)
(* one per event, and stop at each query; nothing they do is in the        *)
(* transaction of the request.  Their errors are caught by the event       *)
(* emitter.  Assignments are never deleted and nobody is deactivated by    *)
(* the program, so managers only come; organisation admins come and go.    *)
(***************************************************************************)
EXTENDS Naturals, FiniteSets

CONSTANTS
  Users,
  UserOrg,      \* the organisation of a user
  Staff,        \* users requests are assigned to
  Candidates,   \* users whose assignments and roles change
  Buildings,
  BuildingOrg,
  Requests,
  Building,     \* the building of a request
  Creator,      \* the resident who files a request
  Types,        \* the kinds of event that happen
  MaxEvents,    \* bound on the events
  MaxInFlight,  \* bound on the events dispatched at once
  MayFail,      \* queries of a listener may fail
  MayCrash,     \* the process may die
  NoUser

Events == 1 .. MaxEvents

EventTypes == {"created", "assigned", "status", "commented", "canceled"}

ASSUME DispatchAssumption ==
  /\ Staff \subseteq Users
  /\ Candidates \subseteq Users
  /\ NoUser \notin Users
  /\ Types \subseteq EventTypes
  /\ MaxEvents \in Nat
  /\ Building \in [Requests -> Buildings]
  /\ Creator \in [Requests -> Users]
  /\ \A r \in Requests : \A u \in Staff \cup {Creator[r]} :
       UserOrg[u] = BuildingOrg[Building[r]]

VARIABLES
  status, worker,  \* the requests, as in RequestWorkflow
  managers,        \* MANAGER and BUILDING_ADMIN assignments
  admins,          \* users with the role org_admin or admin
  event,           \* what happened, with the row as the handler saw it
  pc,              \* where the handler, then the listener, of an event is
  todo,            \* recipients without a row yet
  rows,            \* notifications stored
  shown,           \* notifications published to their recipient
  onDuty           \* history: managers of the building when the event committed

request == <<status, worker>>
people == <<managers, admins>>
vars == <<status, worker, managers, admins, event, pc, todo, rows, shown, onDuty>>

Workflow == INSTANCE RequestWorkflow WITH Workers <- Staff

Event == [type: EventTypes, request: Requests, actor: Users,
          worker: Staff \cup {NoUser}]

NoEvent == [type |-> "none"]

InFlight == {"committed", "emitted", "fallback", "writing"}
Settled == {"done", "failed", "lost"}

OrgOf(e) == BuildingOrg[Building[event[e].request]]

Init ==
  /\ Workflow!Init
  /\ managers \in SUBSET (Candidates \X Buildings)
  /\ \A m \in managers : UserOrg[m[1]] = BuildingOrg[m[2]]
  /\ admins \in SUBSET Candidates
  /\ event = [e \in Events |-> NoEvent]
  /\ pc = [e \in Events |-> "none"]
  /\ todo = [e \in Events |-> {}]
  /\ rows = {}
  /\ shown = {}
  /\ onDuty = [e \in Events |-> {}]

-----------------------------------------------------------------------------
(* Requests and people *)

Move(type, r) ==
  \/ type = "created" /\ Workflow!Create(r)
  \/ type = "assigned" /\ \E w \in Staff : Workflow!Assign(r, w)
  \/ type = "status" /\ (Workflow!Start(r) \/ Workflow!Complete(r))
  \/ type = "canceled" /\ Workflow!Cancel(r)
  \/ type = "commented" /\ status[r] # "NONE" /\ UNCHANGED request

(* Whoever holds an assignment is of the building's organisation and active. *)
GetBuildingManagersAndAdmins(b) ==
  {u \in Users : <<u, b>> \in managers /\ UserOrg[u] = BuildingOrg[b]}

Commit(e, type, r, a) ==
  /\ pc[e] = "none" /\ \A d \in Events : d < e => pc[d] # "none"
  /\ Cardinality({d \in Events : pc[d] \in InFlight}) < MaxInFlight
  /\ UserOrg[a] = BuildingOrg[Building[r]]
  /\ type = "created" => a = Creator[r]
  /\ Move(type, r)
  /\ event' = [event EXCEPT ![e] = [type |-> type, request |-> r, actor |-> a,
                                    worker |-> worker'[r]]]
  /\ pc' = [pc EXCEPT ![e] = "committed"]
  /\ onDuty' = [onDuty EXCEPT ![e] = GetBuildingManagersAndAdmins(Building[r])]
  /\ UNCHANGED <<people, todo, rows, shown>>

AssignManager(u, b) ==
  /\ UserOrg[u] = BuildingOrg[b]
  /\ managers' = managers \cup {<<u, b>>}
  /\ UNCHANGED <<request, admins, event, pc, todo, rows, shown, onDuty>>

ReplaceAdminRole(u) ==
  /\ admins' \in {admins \cup {u}, admins \ {u}}
  /\ UNCHANGED <<request, managers, event, pc, todo, rows, shown, onDuty>>

-----------------------------------------------------------------------------
(* The listener *)

EmitEvent(e) ==
  /\ pc[e] = "committed"
  /\ pc' = [pc EXCEPT ![e] = "emitted"]
  /\ UNCHANGED <<request, people, event, todo, rows, shown, onDuty>>

(* Mutant of DirectRecipients: the assignee is forgotten *)
CreatorOnly(e) ==
  IF event[e].type \in {"created", "canceled"} THEN {}
                                              ELSE {Creator[event[e].request]}

(* Recipients named by the request as the handler saw it *)
DirectRecipients(e) ==
  (IF event[e].type \in {"created", "canceled"} THEN {}
                                               ELSE {Creator[event[e].request]})
    \cup (IF event[e].type = "created" THEN {} ELSE {event[e].worker} \ {NoUser})

(* Mutant of FinalizeRecipients: the actor is kept *)
KeepActor(e, to) == to

(* The actor hears of their own action only when nobody else would. *)
FinalizeRecipients(e, to) ==
  IF to \subseteq {event[e].actor} THEN {event[e].actor} ELSE to \ {event[e].actor}

StartWriting(e, ops) ==
  /\ pc' = [pc EXCEPT ![e] = "writing"]
  /\ todo' = [todo EXCEPT ![e] = FinalizeRecipients(e, DirectRecipients(e) \cup ops)]

FindManagers(e) ==
  LET ops == GetBuildingManagersAndAdmins(Building[event[e].request])
  IN
  /\ pc[e] = "emitted"
  /\ \/ ops # {} /\ StartWriting(e, ops)
     \/ ops = {} /\ pc' = [pc EXCEPT ![e] = "fallback"] /\ UNCHANGED todo
  /\ UNCHANGED <<request, people, event, rows, shown, onDuty>>

GetOrgAdmins(e) == {u \in admins : UserOrg[u] = OrgOf(e)}

FindOrgAdmins(e) ==
  /\ pc[e] = "fallback"
  /\ StartWriting(e, GetOrgAdmins(e))
  /\ UNCHANGED <<request, people, event, rows, shown, onDuty>>

(* createManyAndReturn: one row at a time, each committed on its own *)
InsertRow(e, u) ==
  /\ pc[e] = "writing" /\ u \in todo[e]
  /\ rows' = rows \cup {<<e, u>>}
  /\ todo' = [todo EXCEPT ![e] = @ \ {u}]
  /\ UNCHANGED <<request, people, event, pc, shown, onDuty>>

(* Mutant of PublishAll: does not wait for the rows *)
PublishEarly(e) ==
  /\ pc[e] = "writing"
  /\ pc' = [pc EXCEPT ![e] = "done"]
  /\ shown' = shown \cup {n \in rows : n[1] = e} \cup ({e} \X todo[e])
  /\ UNCHANGED <<request, people, event, todo, rows, onDuty>>

(* All rows are published in one go, after the last insert. *)
PublishAll(e) ==
  /\ pc[e] = "writing" /\ todo[e] = {}
  /\ pc' = [pc EXCEPT ![e] = "done"]
  /\ shown' = shown \cup {n \in rows : n[1] = e}
  /\ UNCHANGED <<request, people, event, todo, rows, onDuty>>

(* A query fails; the emitter logs it and the listener is over. *)
Fail(e) ==
  /\ MayFail
  /\ pc[e] \in {"emitted", "fallback"} \/ (pc[e] = "writing" /\ todo[e] # {})
  /\ pc' = [pc EXCEPT ![e] = "failed"]
  /\ UNCHANGED <<request, people, event, todo, rows, shown, onDuty>>

(* Nothing resumes a listener after a restart. *)
Crash ==
  /\ MayCrash
  /\ pc' = [e \in Events |-> IF pc[e] \in InFlight THEN "lost" ELSE pc[e]]
  /\ UNCHANGED <<request, people, event, todo, rows, shown, onDuty>>

-----------------------------------------------------------------------------
Listen(e) ==
  \/ EmitEvent(e) \/ FindManagers(e) \/ FindOrgAdmins(e)
  \/ \E u \in Users : InsertRow(e, u)
  \/ PublishAll(e)

Next ==
  \/ \E e \in Events :
       \/ \E type \in Types, r \in Requests, a \in Users : Commit(e, type, r, a)
       \/ Listen(e)
       \/ Fail(e)
  \/ \E u \in Candidates, b \in Buildings : AssignManager(u, b)
  \/ \E u \in Candidates : ReplaceAdminRole(u)
  \/ Crash

Spec == Init /\ [][Next]_vars

-----------------------------------------------------------------------------
(* Properties *)

TypeOK ==
  /\ status \in [Requests -> {"NONE", "OPEN", "ASSIGNED", "IN_PROGRESS", "COMPLETED", "CANCELED"}]
  /\ worker \in [Requests -> Staff \cup {NoUser}]
  /\ managers \subseteq Users \X Buildings
  /\ admins \subseteq Users
  /\ event \in [Events -> Event \cup {NoEvent}]
  /\ pc \in [Events -> InFlight \cup Settled \cup {"none"}]
  /\ todo \in [Events -> SUBSET Users]
  /\ rows \subseteq Events \X Users
  /\ shown \subseteq Events \X Users
  /\ onDuty \in [Events -> SUBSET Users]

ToldOf(e) == {u \in Users : <<e, u>> \in rows}
ShownTo(e) == {u \in Users : <<e, u>> \in shown}

(* Tenant isolation: a notification stays in the organisation of the         *)
(* request's building, though admins of every organisation come and go       *)
(* between the commit and the lookup.                                        *)
StaysInOrg == \A n \in rows : UserOrg[n[2]] = OrgOf(n[1])

(* Whoever acted hears of it only if nobody else does: not even a listener   *)
(* that found nobody the first time tells the actor and somebody else.       *)
ActorOnlyAlone ==
  \A n \in rows : n[2] = event[n[1]].actor => ToldOf(n[1]) = {n[2]}

(* README, "Emitted for maintenance requests", with the managers of the      *)
(* moment the event was committed.                                           *)
Concerned(e) ==
  LET type == event[e].type
      creator == Creator[event[e].request]
      byCreator == type = "commented" /\ event[e].actor = creator
      byOthers == type = "commented" /\ event[e].actor # creator
  IN  (IF type \in {"created", "canceled"} \/ byCreator THEN onDuty[e] ELSE {})
        \cup (IF type \in {"assigned", "status"} \/ byOthers THEN {creator} ELSE {})
        \cup (IF type \in {"assigned", "canceled"} \/ byCreator
                THEN {event[e].worker} \ {NoUser} ELSE {})

(* A listener that comes to its end has told everybody the README names,     *)
(* although it looks the managers up some time after the event.              *)
ConcernedAreTold ==
  \A e \in Events : pc[e] = "done" => Concerned(e) \ {event[e].actor} \subseteq ToldOf(e)

(* What is published can be read back and marked: rows come first, and all   *)
(* rows of an event are published together or none of them is.               *)
PublishedTogether ==
  \A e \in Events : ShownTo(e) = IF pc[e] = "done" THEN ToldOf(e) ELSE {}

(* Stored and shown as Announcement says, whatever fails or crashes *)
Delivery == INSTANCE Announcement
              WITH People <- Users,
                   phase <- [e \in Events |->
                               IF pc[e] = "none" THEN "new"
                               ELSE IF pc[e] \in InFlight THEN "open" ELSE "closed"],
                   told <- [e \in Events |-> ToldOf(e)],
                   shown <- [e \in Events |-> ShownTo(e)]

ImplementsAnnouncement == Delivery!Spec

=============================================================================
