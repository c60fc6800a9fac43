--------------------- MODULE NotificationDispatchProofs ---------------------
(***************************************************************************)
(* Type correctness of NotificationDispatch, its safety invariants, and    *)
(* that it stores and shows events as Announcement says.                   *)
(*                                                                         *)
(* The inductive invariant follows one event: who is still to be told and  *)
(* who has been told are together the recipients that were resolved, so    *)
(* what holds of the resolved set holds of the rows at every moment.       *)
(*                                                                         *)
(* The last part is about RealtimeGateway: a socket that has joined has    *)
(* been told of every unread notification of its room, by the count or by  *)
(* an event, or the event is still to come or was given up (Told); and the *)
(* counter is the number of sockets with a room, as long as no client      *)
(* leaves before it has joined (CountInv).                                 *)
(***************************************************************************)
EXTENDS NotificationDispatch, MCRealtimeGateway, FiniteSetTheorems, TLAPS

Recipients(e) == todo[e] \cup ToldOf(e)

Unresolved == {"none", "committed", "emitted", "fallback"}

EventInv(e) ==
  /\ pc[e] # "none" =>
       /\ event[e] \in Event
       /\ UserOrg[event[e].actor] = OrgOf(e)
  /\ pc[e] \in Unresolved => Recipients(e) = {}
  /\ pc[e] \in InFlight =>
       onDuty[e] \subseteq GetBuildingManagersAndAdmins(Building[event[e].request])
  /\ pc[e] = "fallback" => onDuty[e] = {}
  /\ \A u \in Recipients(e) : UserOrg[u] = OrgOf(e)
  /\ pc[e] # "none" /\ event[e].actor \in Recipients(e) =>
       Recipients(e) = {event[e].actor}
  /\ pc[e] \in {"writing", "done"} => /\ Recipients(e) # {}
                                      /\ Concerned(e) \ {event[e].actor} \subseteq Recipients(e)
  /\ pc[e] = "done" => todo[e] = {}
  /\ ShownTo(e) = IF pc[e] = "done" THEN ToldOf(e) ELSE {}

IInv == TypeOK /\ \A e \in Events : EventInv(e)

(* What an invariant of one event depends on *)
LEMMA SameEvent ==
  ASSUME NEW e \in Events, EventInv(e),
         event'[e] = event[e], pc'[e] = pc[e], todo'[e] = todo[e],
         onDuty'[e] = onDuty[e], managers \subseteq managers',
         ToldOf(e)' = ToldOf(e), ShownTo(e)' = ShownTo(e)
  PROVE  EventInv(e)'
<1>1. Recipients(e)' = Recipients(e) /\ OrgOf(e)' = OrgOf(e)
  BY DEF Recipients, OrgOf
<1>2. Concerned(e)' = Concerned(e)
  BY DEF Concerned
<1>3. GetBuildingManagersAndAdmins(Building[event[e].request])
        \subseteq GetBuildingManagersAndAdmins(Building[event[e].request])'
  BY DEF GetBuildingManagersAndAdmins
<1>4. event[e].actor = (event[e].actor)'
  OBVIOUS
<1>. QED  BY <1>1, <1>2, <1>3, <1>4 DEF EventInv

LEMMA InitHolds == Init => IInv
<1> SUFFICES ASSUME Init
             PROVE  IInv
  OBVIOUS
<1>1. TypeOK
  BY DispatchAssumption DEF Init, TypeOK, Workflow!Init
<1>2. ASSUME NEW e \in Events
      PROVE  EventInv(e)
  <2>1. pc[e] = "none" /\ todo[e] = {} /\ ToldOf(e) = {} /\ ShownTo(e) = {}
    BY DEF Init, ToldOf, ShownTo
  <2>2. Recipients(e) = {}
    BY <2>1 DEF Recipients
  <2>. QED  BY <2>1, <2>2 DEF EventInv, Unresolved, InFlight
<1>. QED  BY <1>1, <1>2 DEF IInv

(* The request moves, and the event waits to be emitted. *)
LEMMA CommitKeeps ==
  ASSUME IInv, NEW e \in Events, NEW type \in Types, NEW r \in Requests,
         NEW a \in Users, Commit(e, type, r, a)
  PROVE  IInv'
<1> DEFINE new == [type |-> type, request |-> r, actor |-> a, worker |-> worker'[r]]
<1>1. /\ TypeOK /\ pc[e] = "none" /\ UserOrg[a] = BuildingOrg[Building[r]]
      /\ event' = [event EXCEPT ![e] = new]
      /\ pc' = [pc EXCEPT ![e] = "committed"]
      /\ onDuty' = [onDuty EXCEPT ![e] = GetBuildingManagersAndAdmins(Building[r])]
      /\ UNCHANGED <<managers, admins, todo, rows, shown>>
      /\ Move(type, r)
      /\ \A d \in Events : EventInv(d)
  BY DEF Commit, IInv, people
<1>2. /\ status' \in [Requests -> {"NONE", "OPEN", "ASSIGNED", "IN_PROGRESS", "COMPLETED", "CANCELED"}]
      /\ worker' \in [Requests -> Staff \cup {NoUser}]
  <2>1. /\ status \in [Requests -> {"NONE", "OPEN", "ASSIGNED", "IN_PROGRESS", "COMPLETED", "CANCELED"}]
        /\ worker \in [Requests -> Staff \cup {NoUser}]
    BY <1>1 DEF TypeOK
  <2>. QED  BY <1>1, <2>1 DEF Move, request, Workflow!Create, Workflow!Assign, Workflow!Start,
                              Workflow!Complete, Workflow!Cancel, Workflow!Move
<1>3. new \in Event
  BY <1>2, DispatchAssumption DEF Event
<1> HIDE DEF new
<1>4. GetBuildingManagersAndAdmins(Building[r]) \in SUBSET Users
  BY DEF GetBuildingManagersAndAdmins
<1>5. TypeOK'
  <2>1. event' \in [Events -> Event \cup {NoEvent}] /\ onDuty' \in [Events -> SUBSET Users]
    BY <1>1, <1>3, <1>4 DEF TypeOK
  <2>2. pc' \in [Events -> InFlight \cup Settled \cup {"none"}]
    BY <1>1 DEF TypeOK, InFlight
  <2>. QED  BY <1>1, <1>2, <2>1, <2>2 DEF TypeOK
<1>6. ASSUME NEW d \in Events
      PROVE  EventInv(d)'
  <2>1. CASE d = e
    <3>1. /\ event'[e] = new /\ pc'[e] = "committed"
          /\ onDuty'[e] = GetBuildingManagersAndAdmins(Building[r])
      BY <1>1 DEF TypeOK
    <3>2. new.request = r /\ new.actor = a
      BY DEF new
    <3>3. Recipients(e) = {} /\ ShownTo(e) = {}
      BY <1>1 DEF EventInv, Unresolved
    <3>4. Recipients(e)' = {} /\ ShownTo(e)' = {}
      BY <1>1, <3>3 DEF Recipients, ToldOf, ShownTo
    <3>5. OrgOf(e)' = BuildingOrg[Building[r]]
      BY <3>1, <3>2 DEF OrgOf
    <3>6. GetBuildingManagersAndAdmins(Building[r])' = GetBuildingManagersAndAdmins(Building[r])
      BY <1>1 DEF GetBuildingManagersAndAdmins
    <3>. QED  BY <1>1, <1>3, <2>1, <3>1, <3>2, <3>4, <3>5, <3>6 DEF EventInv, Unresolved, InFlight
  <2>2. CASE d # e
    <3>1. /\ event'[d] = event[d] /\ pc'[d] = pc[d] /\ onDuty'[d] = onDuty[d]
          /\ todo'[d] = todo[d]
      BY <1>1, <2>2 DEF TypeOK
    <3>2. ToldOf(d)' = ToldOf(d) /\ ShownTo(d)' = ShownTo(d)
      BY <1>1 DEF ToldOf, ShownTo
    <3>. QED  BY <1>1, <3>1, <3>2, SameEvent
  <2>. QED  BY <2>1, <2>2
<1>. QED  BY <1>5, <1>6 DEF IInv

(* Managers are appointed, admins come and go. *)
LEMMA PeopleKeep ==
  ASSUME IInv, managers \subseteq managers', TypeOK',
         UNCHANGED <<event, pc, todo, rows, shown, onDuty>>
  PROVE  IInv'
<1> SUFFICES ASSUME NEW e \in Events
             PROVE  EventInv(e)'
  BY DEF IInv
<1>1. ToldOf(e)' = ToldOf(e) /\ ShownTo(e)' = ShownTo(e)
  BY DEF ToldOf, ShownTo
<1>. QED  BY <1>1, SameEvent DEF IInv

(* A step of one event that leaves its recipients as they are *)
LEMMA ProgressKeeps ==
  ASSUME IInv, NEW e \in Events, NEW next \in InFlight \cup Settled,
         pc' = [pc EXCEPT ![e] = next],
         pc[e] \in InFlight, pc[e] \in Unresolved \/ next \notin Unresolved,
         next \in Unresolved \cup Settled,
         next = "fallback" => onDuty[e] = {},
         next = "done" => pc[e] = "writing" /\ todo[e] = {},
         ShownTo(e)' = IF next = "done" THEN ToldOf(e) ELSE ShownTo(e),
         \A d \in Events : d # e => ShownTo(d)' = ShownTo(d),
         shown' \subseteq Events \X Users,
         UNCHANGED <<request, people, event, todo, rows, onDuty>>
  PROVE  IInv'
<1>1. /\ TypeOK /\ \A d \in Events : EventInv(d)
      /\ UNCHANGED <<status, worker, managers, admins>>
  BY DEF IInv, request, people
<1>2. TypeOK'
  BY <1>1 DEF TypeOK
<1>3. ASSUME NEW d \in Events
      PROVE  EventInv(d)'
  <2>0. ToldOf(d)' = ToldOf(d)
    BY DEF ToldOf
  <2>1. CASE d = e
    <3>1. pc'[e] = next
      BY <1>1 DEF TypeOK
    <3>2. Recipients(e)' = Recipients(e) /\ OrgOf(e)' = OrgOf(e) /\ Concerned(e)' = Concerned(e)
      BY <2>0, <2>1 DEF Recipients, OrgOf, Concerned
    <3>3. GetBuildingManagersAndAdmins(Building[event[e].request])'
            = GetBuildingManagersAndAdmins(Building[event[e].request])
      BY <1>1 DEF GetBuildingManagersAndAdmins
    <3>4. EventInv(e)
      BY <1>1
    <3>5. pc[e] # "done" /\ pc[e] # "none" /\ next # "none" /\ next # "writing"
      BY DEF InFlight, Settled, Unresolved
    <3>6. ShownTo(e) = {}
      BY <3>4, <3>5 DEF EventInv
    <3>7. next \in Unresolved => pc[e] \in Unresolved
      OBVIOUS
    <3>. QED  BY <2>0, <2>1, <3>1, <3>2, <3>3, <3>4, <3>5, <3>6, <3>7 DEF EventInv
  <2>2. CASE d # e
    <3>1. pc'[d] = pc[d]
      BY <1>1, <2>2 DEF TypeOK
    <3>. QED  BY <1>1, <2>0, <2>2, <3>1, SameEvent
  <2>. QED  BY <2>1, <2>2
<1>. QED  BY <1>2, <1>3 DEF IInv

(* Whom the request itself names *)
LEMMA DirectInOrg ==
  ASSUME NEW e \in Events, event[e] \in Event
  PROVE  /\ DirectRecipients(e) \subseteq Users
         /\ \A u \in DirectRecipients(e) : UserOrg[u] = OrgOf(e)
<1> DEFINE r == event[e].request
<1>1. r \in Requests /\ event[e].worker \in Staff \cup {NoUser}
  BY DEF Event
<1>2. DirectRecipients(e) \subseteq {Creator[r]} \cup (Staff \cap {event[e].worker})
  BY <1>1 DEF DirectRecipients
<1>3. Creator[r] \in Users /\ Staff \subseteq Users
  BY <1>1, DispatchAssumption
<1>4. \A u \in Staff \cup {Creator[r]} : UserOrg[u] = BuildingOrg[Building[r]]
  BY <1>1, DispatchAssumption
<1>. QED  BY <1>2, <1>3, <1>4 DEF OrgOf

(* The recipients are resolved, from whatever managers or admins are found. *)
LEMMA StartKeeps ==
  ASSUME IInv, NEW e \in Events, NEW ops \in SUBSET Users,
         pc[e] \in {"emitted", "fallback"}, StartWriting(e, ops),
         \A u \in ops : UserOrg[u] = OrgOf(e), onDuty[e] \subseteq ops,
         UNCHANGED <<request, people, event, rows, shown, onDuty>>
  PROVE  IInv'
<1> DEFINE named == DirectRecipients(e) \cup ops
           to == FinalizeRecipients(e, named)
           actor == event[e].actor
<1>1. /\ TypeOK /\ \A d \in Events : EventInv(d)
      /\ UNCHANGED <<status, worker, managers, admins>>
      /\ pc' = [pc EXCEPT ![e] = "writing"] /\ todo' = [todo EXCEPT ![e] = to]
  BY DEF IInv, request, people, StartWriting
<1>2. /\ pc[e] # "none" /\ pc[e] # "done" /\ pc[e] \in Unresolved
      /\ event[e] \in Event /\ UserOrg[actor] = OrgOf(e) /\ actor \in Users
      /\ Recipients(e) = {} /\ ShownTo(e) = {}
  BY <1>1 DEF EventInv, Unresolved, Event
<1>3. named \subseteq Users /\ \A u \in named : UserOrg[u] = OrgOf(e)
  BY <1>2, DirectInOrg
<1>4. Concerned(e) \subseteq named
  BY <1>2 DEF Concerned, DirectRecipients
<1> HIDE DEF named, actor
<1>5. /\ to # {} /\ to \subseteq named \cup {actor}
      /\ actor \in to => to = {actor}
      /\ named \ {actor} \subseteq to
  BY DEF FinalizeRecipients, actor
<1> HIDE DEF to
<1>6. TypeOK'
  <2>1. to \in SUBSET Users
    BY <1>2, <1>3, <1>5
  <2>2. todo' \in [Events -> SUBSET Users]
    BY <1>1, <2>1 DEF TypeOK
  <2>3. pc' \in [Events -> InFlight \cup Settled \cup {"none"}]
    BY <1>1 DEF TypeOK, InFlight
  <2>. QED  BY <1>1, <2>2, <2>3 DEF TypeOK
<1>7. ASSUME NEW d \in Events
      PROVE  EventInv(d)'
  <2>0. ToldOf(d)' = ToldOf(d) /\ ShownTo(d)' = ShownTo(d)
    BY DEF ToldOf, ShownTo
  <2>1. CASE d = e
    <3>1. pc'[e] = "writing" /\ todo'[e] = to
      BY <1>1 DEF TypeOK
    <3>2. Recipients(e)' = to
      BY <1>2, <2>0, <2>1, <3>1 DEF Recipients
    <3>3. OrgOf(e)' = OrgOf(e) /\ Concerned(e)' = Concerned(e)
      BY DEF OrgOf, Concerned
    <3>4. onDuty[e] \subseteq GetBuildingManagersAndAdmins(Building[event[e].request])'
      BY <1>1 DEF EventInv, GetBuildingManagersAndAdmins, InFlight
    <3>5. (event[e].actor)' = actor /\ event'[e] \in Event
      BY <1>2 DEF actor
    <3>6. \A u \in to : UserOrg[u] = OrgOf(e)
      BY <1>2, <1>3, <1>5
    <3>7. Concerned(e) \ {actor} \subseteq to
      BY <1>4, <1>5
    <3>. QED  BY <1>2, <1>5, <2>0, <2>1, <3>1, <3>2, <3>3, <3>4, <3>5, <3>6, <3>7
              DEF EventInv, Unresolved
  <2>2. CASE d # e
    <3>1. pc'[d] = pc[d] /\ todo'[d] = todo[d]
      BY <1>1, <2>2 DEF TypeOK
    <3>. QED  BY <1>1, <2>0, <3>1, SameEvent
  <2>. QED  BY <2>1, <2>2
<1>. QED  BY <1>6, <1>7 DEF IInv

(* One recipient more has a row. *)
LEMMA InsertKeeps ==
  ASSUME IInv, NEW e \in Events, NEW u \in Users, InsertRow(e, u)
  PROVE  IInv'
<1>1. /\ TypeOK /\ \A d \in Events : EventInv(d)
      /\ pc[e] = "writing" /\ u \in todo[e]
      /\ UNCHANGED <<status, worker, managers, admins, event, pc, shown, onDuty>>
      /\ rows' = rows \cup {<<e, u>>}
      /\ todo' = [todo EXCEPT ![e] = @ \ {u}]
  BY DEF IInv, request, people, InsertRow
<1>2. TypeOK'
  BY <1>1 DEF TypeOK
<1>3. ASSUME NEW d \in Events
      PROVE  EventInv(d)'
  <2>0. ShownTo(d)' = ShownTo(d)
    BY <1>1 DEF ShownTo
  <2>1. CASE d = e
    <3>1. todo'[e] = todo[e] \ {u} /\ ToldOf(e)' = ToldOf(e) \cup {u}
      BY <1>1 DEF TypeOK, ToldOf
    <3>2. Recipients(e)' = Recipients(e)
      BY <1>1, <3>1 DEF Recipients
    <3>3. OrgOf(e)' = OrgOf(e) /\ Concerned(e)' = Concerned(e)
      BY <1>1 DEF OrgOf, Concerned
    <3>4. GetBuildingManagersAndAdmins(Building[event[e].request])'
            = GetBuildingManagersAndAdmins(Building[event[e].request])
      BY <1>1 DEF GetBuildingManagersAndAdmins
    <3>5. (event[e].actor)' = event[e].actor
      BY <1>1
    <3>. QED  BY <1>1, <2>0, <2>1, <3>2, <3>3, <3>4, <3>5 DEF EventInv
  <2>2. CASE d # e
    <3>1. todo'[d] = todo[d] /\ ToldOf(d)' = ToldOf(d)
      BY <1>1, <2>2 DEF TypeOK, ToldOf
    <3>. QED  BY <1>1, <2>0, <3>1, SameEvent
  <2>. QED  BY <2>1, <2>2
<1>. QED  BY <1>2, <1>3 DEF IInv

(* Every listener that was under way is lost at once. *)
LEMMA CrashKeeps == ASSUME IInv, Crash PROVE IInv'
<1>1. /\ TypeOK /\ \A d \in Events : EventInv(d)
      /\ UNCHANGED <<status, worker, managers, admins, event, todo, rows, shown, onDuty>>
      /\ pc' = [e \in Events |-> IF pc[e] \in InFlight THEN "lost" ELSE pc[e]]
  BY DEF IInv, request, people, Crash
<1>2. TypeOK'
  <2>1. pc' \in [Events -> InFlight \cup Settled \cup {"none"}]
    BY <1>1 DEF TypeOK, Settled
  <2>. QED  BY <1>1, <2>1 DEF TypeOK
<1>3. ASSUME NEW d \in Events
      PROVE  EventInv(d)'
  <2>0. ToldOf(d)' = ToldOf(d) /\ ShownTo(d)' = ShownTo(d)
    BY <1>1 DEF ToldOf, ShownTo
  <2>1. CASE pc[d] \in InFlight
    <3>1. pc'[d] = "lost" /\ pc[d] # "none" /\ pc[d] # "done"
      BY <1>1, <2>1 DEF InFlight
    <3>2. Recipients(d)' = Recipients(d) /\ OrgOf(d)' = OrgOf(d)
          /\ (event[d].actor)' = event[d].actor
      BY <1>1, <2>0 DEF Recipients, OrgOf
    <3>3. ShownTo(d) = {}
      BY <1>1, <3>1 DEF EventInv
    <3>. QED  BY <1>1, <2>0, <3>1, <3>2, <3>3 DEF EventInv, Unresolved, InFlight
  <2>2. CASE pc[d] \notin InFlight
    <3>1. pc'[d] = pc[d]
      BY <1>1, <2>2
    <3>. QED  BY <1>1, <2>0, <3>1, SameEvent
  <2>. QED  BY <2>1, <2>2
<1>. QED  BY <1>2, <1>3 DEF IInv

LEMMA NextKeeps == IInv /\ [Next]_vars => IInv'
<1> SUFFICES ASSUME IInv, [Next]_vars
             PROVE  IInv'
  OBVIOUS
<1>0. TypeOK /\ \A d \in Events : EventInv(d)
  BY DEF IInv
<1>1. ASSUME NEW e \in Events, EmitEvent(e)
      PROVE  IInv'
  <2>1. \A d \in Events : ShownTo(d)' = ShownTo(d)
    BY <1>1 DEF EmitEvent, ShownTo
  <2>. QED  BY <1>0, <1>1, <2>1, ProgressKeeps DEF EmitEvent, InFlight, Unresolved, TypeOK
<1>2. ASSUME NEW e \in Events, FindManagers(e)
      PROVE  IInv'
  <2> DEFINE ops == GetBuildingManagersAndAdmins(Building[event[e].request])
  <2>1. /\ ops \in SUBSET Users /\ \A u \in ops : UserOrg[u] = OrgOf(e)
        /\ pc[e] = "emitted" /\ UNCHANGED <<request, people, event, rows, shown, onDuty>>
    BY <1>2 DEF FindManagers, GetBuildingManagersAndAdmins, OrgOf
  <2>2. onDuty[e] \subseteq ops
    BY <1>0, <2>1 DEF EventInv, InFlight
  <2>3. \A d \in Events : ShownTo(d)' = ShownTo(d)
    BY <2>1 DEF ShownTo
  <2>4. CASE ops # {}
    <3>1. StartWriting(e, ops)
      BY <1>2, <2>4 DEF FindManagers
    <3> HIDE DEF ops
    <3>. QED  BY <2>1, <2>2, <3>1, StartKeeps
  <2>5. CASE ops = {}
    <3>1. pc' = [pc EXCEPT ![e] = "fallback"] /\ todo' = todo
      BY <1>2, <2>5 DEF FindManagers
    <3>2. onDuty[e] = {}
      BY <2>2, <2>5
    <3>. QED  BY <1>0, <2>1, <2>3, <3>1, <3>2, ProgressKeeps DEF InFlight, Unresolved, TypeOK
  <2>. QED  BY <2>4, <2>5
<1>3. ASSUME NEW e \in Events, FindOrgAdmins(e)
      PROVE  IInv'
  <2>1. /\ GetOrgAdmins(e) \in SUBSET Users
        /\ \A u \in GetOrgAdmins(e) : UserOrg[u] = OrgOf(e)
    BY <1>0 DEF GetOrgAdmins, TypeOK
  <2>2. onDuty[e] = {}
    BY <1>0, <1>3 DEF FindOrgAdmins, EventInv
  <2>. QED  BY <1>3, <2>1, <2>2, StartKeeps DEF FindOrgAdmins
<1>4. ASSUME NEW e \in Events, PublishAll(e)
      PROVE  IInv'
  <2>1. /\ ShownTo(e) = {} /\ rows \subseteq Events \X Users /\ shown \subseteq Events \X Users
    BY <1>0, <1>4 DEF PublishAll, EventInv, TypeOK
  <2>2. /\ ShownTo(e)' = ToldOf(e) /\ shown' \subseteq Events \X Users
        /\ \A d \in Events : d # e => ShownTo(d)' = ShownTo(d)
    BY <1>4, <2>1 DEF PublishAll, ShownTo, ToldOf
  <2>. QED  BY <1>4, <2>2, ProgressKeeps DEF PublishAll, InFlight, Settled, Unresolved
<1>5. ASSUME NEW e \in Events, Fail(e)
      PROVE  IInv'
  <2>1. \A d \in Events : ShownTo(d)' = ShownTo(d)
    BY <1>5 DEF Fail, ShownTo
  <2>. QED  BY <1>0, <1>5, <2>1, ProgressKeeps DEF Fail, InFlight, Settled, Unresolved, TypeOK
<1>6. ASSUME NEW u \in Candidates, NEW b \in Buildings, AssignManager(u, b)
      PROVE  IInv'
  <2>1. TypeOK'
    BY <1>0, <1>6, DispatchAssumption DEF AssignManager, TypeOK, request
  <2>. QED  BY <1>6, <2>1, PeopleKeep DEF AssignManager
<1>7. ASSUME NEW u \in Candidates, ReplaceAdminRole(u)
      PROVE  IInv'
  <2>1. TypeOK'
    BY <1>0, <1>7, DispatchAssumption DEF ReplaceAdminRole, TypeOK, request
  <2>. QED  BY <1>7, <2>1, PeopleKeep DEF ReplaceAdminRole
<1>8. CASE UNCHANGED vars
  <2>1. TypeOK'
    BY <1>0, <1>8 DEF vars, TypeOK
  <2>. QED  BY <1>8, <2>1, PeopleKeep DEF vars
<1>. QED  BY <1>1, <1>2, <1>3, <1>4, <1>5, <1>6, <1>7, <1>8, CommitKeeps, InsertKeeps, CrashKeeps
          DEF Next, Listen

LEMMA InvariantHolds == Spec => []IInv
BY InitHolds, NextKeeps, PTL DEF Spec

(* Every reachable state has the types the source gives its columns.         *)
THEOREM TypeCorrect == Spec => []TypeOK
<1>1. IInv => TypeOK
  BY DEF IInv
<1>. QED  BY <1>1, InvariantHolds, PTL

LEMMA ToldAreRecipients ==
  ASSUME IInv, NEW n \in rows
  PROVE  /\ n[1] \in Events /\ n[2] \in ToldOf(n[1]) /\ n[2] \in Recipients(n[1])
         /\ ToldOf(n[1]) \subseteq Recipients(n[1])
         /\ pc[n[1]] # "none" /\ EventInv(n[1])
<1>1. n \in Events \X Users
  BY DEF IInv, TypeOK
<1>2. n[2] \in ToldOf(n[1]) /\ n[1] \in Events /\ EventInv(n[1])
  BY <1>1 DEF ToldOf, IInv
<1>. QED  BY <1>2 DEF Recipients, EventInv, Unresolved

(* No notification reaches a user of another organisation, whoever is made   *)
(* manager or admin while it is being written (createForUsers).              *)
THEOREM TenantIsolation == Spec => []StaysInOrg
<1>1. IInv => StaysInOrg
  BY ToldAreRecipients DEF StaysInOrg, EventInv
<1>. QED  BY <1>1, InvariantHolds, PTL

(* An actor who is told is the only one told (finalizeRecipients).           *)
THEOREM ActorExcluded == Spec => []ActorOnlyAlone
<1>1. ASSUME IInv, NEW n \in rows, n[2] = event[n[1]].actor
      PROVE  ToldOf(n[1]) = {n[2]}
  BY <1>1, ToldAreRecipients DEF EventInv
<1>2. IInv => ActorOnlyAlone
  BY <1>1 DEF ActorOnlyAlone
<1>. QED  BY <1>2, InvariantHolds, PTL

(* A listener that ends without an error has a row for everybody whom the    *)
(* README promises one.                                                      *)
THEOREM PromisedAreTold == Spec => []ConcernedAreTold
<1>1. ASSUME IInv, NEW e \in Events, pc[e] = "done"
      PROVE  Concerned(e) \ {event[e].actor} \subseteq ToldOf(e)
  BY <1>1 DEF IInv, EventInv, Recipients
<1>2. IInv => ConcernedAreTold
  BY <1>1 DEF ConcernedAreTold
<1>. QED  BY <1>2, InvariantHolds, PTL

(* Publication is all or nothing, and never of a row not yet stored.         *)
THEOREM AllOrNothing == Spec => []PublishedTogether
<1>1. IInv => PublishedTogether
  BY DEF IInv, EventInv, PublishedTogether
<1>. QED  BY <1>1, InvariantHolds, PTL

-----------------------------------------------------------------------------
(* Refinement *)

Phase(e) == IF pc[e] = "none" THEN "new" ELSE IF pc[e] \in InFlight THEN "open" ELSE "closed"

LEMMA InitMaps == Init => Delivery!Init
BY DEF Init, Delivery!Init, ToldOf, ShownTo

(* What is neither stored nor published nor settled is not seen from outside. *)
LEMMA Unseen ==
  ASSUME \A e \in Events : Phase(e)' = Phase(e), UNCHANGED <<rows, shown>>
  PROVE  UNCHANGED Delivery!avars
BY DEF Delivery!avars, Phase, ToldOf, ShownTo

LEMMA StepMaps == IInv /\ [Next]_vars => [Delivery!Next]_(Delivery!avars)
<1> SUFFICES ASSUME IInv, [Next]_vars
             PROVE  Delivery!Next \/ UNCHANGED Delivery!avars
  OBVIOUS
<1>0. TypeOK /\ \A d \in Events : EventInv(d)
  BY DEF IInv
<1>1. ASSUME NEW e \in Events, NEW type \in Types, NEW r \in Requests, NEW a \in Users,
             Commit(e, type, r, a)
      PROVE  Delivery!Open(e)
  <2>1. pc[e] = "none" /\ pc' = [pc EXCEPT ![e] = "committed"] /\ pc \in [Events -> InFlight \cup Settled \cup {"none"}]
        /\ UNCHANGED <<rows, shown>>
    BY <1>0, <1>1 DEF Commit, TypeOK
  <2>. QED  BY <2>1 DEF Delivery!Open, ToldOf, ShownTo, InFlight
<1>2. ASSUME NEW e \in Events, NEW u \in Users, InsertRow(e, u)
      PROVE  Delivery!Tell(e, u)
  <2>1. pc[e] = "writing" /\ rows' = rows \cup {<<e, u>>} /\ UNCHANGED <<pc, shown>>
    BY <1>2 DEF InsertRow
  <2>. QED  BY <2>1 DEF Delivery!Tell, ToldOf, ShownTo, InFlight
<1>3. ASSUME NEW e \in Events, PublishAll(e)
      PROVE  Delivery!Show(e)
  <2>1. /\ pc[e] = "writing" /\ pc' = [pc EXCEPT ![e] = "done"]
        /\ shown' = shown \cup {n \in rows : n[1] = e} /\ rows' = rows
        /\ pc \in [Events -> InFlight \cup Settled \cup {"none"}]
        /\ rows \subseteq Events \X Users
    BY <1>0, <1>3 DEF PublishAll, TypeOK
  <2>2. ToldOf(e) # {} /\ ShownTo(e) = {}
    BY <1>0, <1>3 DEF PublishAll, EventInv, Recipients
  <2>3. /\ ShownTo(e)' = ToldOf(e) /\ \A d \in Events : d # e => ShownTo(d)' = ShownTo(d)
        /\ \A d \in Events : ToldOf(d)' = ToldOf(d)
    BY <2>1, <2>2 DEF ShownTo, ToldOf
  <2>. QED  BY <2>1, <2>2, <2>3 DEF Delivery!Show, InFlight
<1>4. ASSUME NEW e \in Events, Fail(e)
      PROVE  Delivery!Drop({e})
  <2>1. /\ pc[e] \in InFlight /\ pc' = [pc EXCEPT ![e] = "failed"]
        /\ pc \in [Events -> InFlight \cup Settled \cup {"none"}] /\ UNCHANGED <<rows, shown>>
    BY <1>0, <1>4 DEF Fail, InFlight, TypeOK
  <2>. QED  BY <2>1 DEF Delivery!Drop, ToldOf, ShownTo, InFlight
<1>5. ASSUME Crash
      PROVE  \E es \in SUBSET Events : Delivery!Drop(es)
  <2>1. /\ pc' = [e \in Events |-> IF pc[e] \in InFlight THEN "lost" ELSE pc[e]]
        /\ UNCHANGED <<rows, shown>>
    BY <1>5 DEF Crash
  <2>2. \A d \in Events : ToldOf(d)' = ToldOf(d) /\ ShownTo(d)' = ShownTo(d)
    BY <2>1 DEF ToldOf, ShownTo
  <2>3. \A d \in Events : pc'[d] = IF pc[d] \in InFlight THEN "lost" ELSE pc[d]
    BY <2>1
  <2>4. PICK es \in SUBSET Events : es = {e \in Events : pc[e] \in InFlight}
    OBVIOUS
  <2>5. Delivery!Drop(es)
    BY <2>2, <2>3, <2>4 DEF Delivery!Drop, InFlight
  <2>. QED  BY <2>5
<1>6. ASSUME NEW e \in Events, EmitEvent(e) \/ FindManagers(e) \/ FindOrgAdmins(e)
      PROVE  UNCHANGED Delivery!avars
  <2>1. \E next \in InFlight : pc[e] \in InFlight /\ pc' = [pc EXCEPT ![e] = next]
    BY <1>6 DEF EmitEvent, FindManagers, FindOrgAdmins, StartWriting, InFlight
  <2>2. \A d \in Events : Phase(d)' = Phase(d)
    BY <1>0, <2>1 DEF Phase, TypeOK, InFlight
  <2>3. UNCHANGED <<rows, shown>>
    BY <1>6 DEF EmitEvent, FindManagers, FindOrgAdmins
  <2>. QED  BY <2>2, <2>3, Unseen
<1>7. ASSUME UNCHANGED <<pc, rows, shown>>
      PROVE  UNCHANGED Delivery!avars
  BY <1>7, Unseen DEF Phase
<1>8. \A u \in Candidates, b \in Buildings : AssignManager(u, b) => UNCHANGED <<pc, rows, shown>>
  BY DEF AssignManager
<1>9. \A u \in Candidates : ReplaceAdminRole(u) => UNCHANGED <<pc, rows, shown>>
  BY DEF ReplaceAdminRole
<1>10. CASE UNCHANGED vars
  BY <1>7, <1>10 DEF vars
<1>11. /\ \A e \in Events : Delivery!Open(e) \/ Delivery!Show(e) => Delivery!Next
       /\ \A e \in Events, u \in Users : Delivery!Tell(e, u) => Delivery!Next
       /\ \A es \in SUBSET Events : Delivery!Drop(es) => Delivery!Next
  BY DEF Delivery!Next
<1>12. ASSUME NEW e \in Events, Listen(e)
       PROVE  Delivery!Next \/ UNCHANGED Delivery!avars
  BY <1>2, <1>3, <1>6, <1>11, <1>12 DEF Listen
<1>13. ASSUME NEW e \in Events, Fail(e)
       PROVE  Delivery!Next
  BY <1>4, <1>11, <1>13
<1>14. ASSUME Crash
       PROVE  Delivery!Next
  BY <1>5, <1>11, <1>14
<1>15. ASSUME NEW e \in Events, NEW type \in Types, NEW r \in Requests, NEW a \in Users,
              Commit(e, type, r, a)
       PROVE  Delivery!Next
  BY <1>1, <1>11, <1>15
<1>16. CASE Next
  BY <1>7, <1>8, <1>9, <1>12, <1>13, <1>14, <1>15, <1>16 DEF Next
<1>. QED  BY <1>10, <1>16

(* Seen from outside, the dispatch is Announcement: whatever fails or        *)
(* crashes, an event is shown to all it was stored for or to nobody, once.   *)
THEOREM Refinement == Spec => ImplementsAnnouncement
<1>. QED  BY InitMaps, StepMaps, InvariantHolds, PTL DEF Spec, ImplementsAnnouncement, Delivery!Spec

-----------------------------------------------------------------------------
(* The gateway: RealtimeGateway and its scenarios                            *)

Authenticated == {"valid", "joined", "counted", "greeted"}

SocketOK(k) ==
  /\ k \in Socket
  /\ k.pc \in Authenticated \cup {"roles"} => k.user \in GatewayUsers
  /\ k.pc = "roles" => k.override \in Orgs
  /\ k.pc \in Authenticated => EffectiveOrg(k) \in Orgs
  /\ k.joined => k.open /\ k.pc \in {"joined", "counted", "greeted"} /\ k.data = RoomOf(k)

Told(k) ==
  k.joined /\ k.pc \in {"counted", "greeted"} =>
    UnreadOf(RoomOf(k)) \ (pending \cup missed) \subseteq k.counted \cup k.shown

GatewayInv == GatewayTypeOK /\ \A s \in Sockets : SocketOK(sock[s]) /\ Told(sock[s])

LEMMA NewOK ==
  /\ SocketOK(New) /\ Told(New) /\ ~New.joined /\ New.data = NoRoom
  /\ SocketOK(Over) /\ Told(Over) /\ ~Over.joined /\ Over.data = NoRoom
<1>1. New \in Socket /\ ~New.joined /\ New.pc = "new" /\ New.data = NoRoom
  BY DEF New, Socket
<1>2. Over \in Socket /\ ~Over.joined /\ Over.pc = "over" /\ Over.data = NoRoom
  BY DEF Over, New, Socket
<1>. QED  BY <1>1, <1>2 DEF SocketOK, Told, Authenticated

LEMMA GatewayInvInit ==
  ASSUME GatewayInit
  PROVE  GatewayInv
<1>1. GatewayTypeOK
  BY NewOK, GatewayAssumption DEF GatewayInit, GatewayTypeOK, SocketOK
<1>2. \A s \in Sockets : sock[s] = New
  BY DEF GatewayInit
<1>. QED  BY <1>1, <1>2, NewOK DEF GatewayInv

LEMMA OneSocketMoves ==
  ASSUME GatewayInv, NEW s \in Sockets, NEW k, SocketOK(k), Told(k),
         sock' = [sock EXCEPT ![s] = k], connectedCount' \in Nat,
         UNCHANGED <<accounts, notes, restarts>>
  PROVE  GatewayInv'
<1>1. /\ GatewayTypeOK /\ k \in Socket /\ UNCHANGED <<orgOf, superadmins, unread, pending, missed, restarts>>
      /\ sock' = [sock EXCEPT ![s] = k]
  BY DEF GatewayInv, SocketOK, accounts, notes
<1>2. (GatewayTypeOK)'
  BY <1>1 DEF GatewayTypeOK
<1>3. ASSUME NEW q \in Sockets
      PROVE  SocketOK(sock[q])' /\ Told(sock[q])'
  <2>1. sock'[q] = IF q = s THEN k ELSE sock[q]
    BY <1>1 DEF GatewayTypeOK
  <2>2. SocketOK(sock'[q]) /\ Told(sock'[q])
    BY <2>1 DEF GatewayInv
  <2>. QED  BY <1>1, <2>2
               DEF SocketOK, Told, RoomOf, RoomForUser, EffectiveOrg, UnreadOf
<1>. QED  BY <1>2, <1>3 DEF GatewayInv

LEMMA RefusalKeeps ==
  ASSUME GatewayInv, NEW s \in Sockets, Refuse(s)
  PROVE  GatewayInv'
<1>1. sock' = [sock EXCEPT ![s] = Over] /\ UNCHANGED <<accounts, notes, restarts>>
  BY DEF Refuse, Continue, HandleDisconnect, Disconnect
<1>2. connectedCount' \in Nat
  <2>1. connectedCount' = connectedCount \/ (connectedCount > 0 /\ connectedCount' = connectedCount - 1)
    BY DEF Refuse, Continue, HandleDisconnect, Disconnect
  <2>. QED  BY <2>1 DEF GatewayInv, GatewayTypeOK
<1>. QED  BY <1>1, <1>2, NewOK, OneSocketMoves

(* A step of the handler that goes on *)
LEMMA ContinueKeeps ==
  ASSUME GatewayInv, NEW s \in Sockets, NEW k, SocketOK(k), Told(k), Continue(s, k)
  PROVE  GatewayInv'
BY OneSocketMoves DEF Continue, GatewayInv, GatewayTypeOK

LEMMA HandshakeKeeps ==
  ASSUME GatewayInv, NEW s \in Sockets, FindUser(s) \/ GetRoleKeys(s)
  PROVE  GatewayInv'
<1> DEFINE k == sock[s]
           valid == [k EXCEPT !.pc = "valid"]
           roles == [k EXCEPT !.pc = "roles"]
<1>1. SocketOK(k) /\ k \in Socket /\ orgOf \in [GatewayUsers -> Orgs \cup {NoOrg}]
  BY DEF GatewayInv, GatewayTypeOK
<1>2. ~k.joined /\ k.pc \in {"verifying", "roles"}
  BY <1>1 DEF FindUser, GetRoleKeys, SocketOK
<1>3. CASE FindUser(s) /\ ~Refuse(s)
  <2>1. k.user \in GatewayUsers /\ k.org = orgOf[k.user]
    BY <1>3 DEF FindUser
  <2>2. \/ k.org # NoOrg /\ Continue(s, valid)
        \/ k.org = NoOrg /\ k.override # NoOrg /\ Continue(s, roles)
    BY <1>3 DEF FindUser
  <2>3. k.org \in Orgs \cup {NoOrg} /\ k.override \in Orgs \cup {NoOrg}
    BY <1>1 DEF Socket
  <2>4. CASE k.org # NoOrg /\ Continue(s, valid)
    <3>1. SocketOK(valid) /\ Told(valid)
      BY <1>1, <1>2, <2>1, <2>3, <2>4
         DEF SocketOK, Told, Authenticated, EffectiveOrg, Socket
    <3>. QED  BY <2>4, <3>1, ContinueKeeps
  <2>5. CASE k.org = NoOrg /\ k.override # NoOrg /\ Continue(s, roles)
    <3>1. SocketOK(roles) /\ Told(roles)
      BY <1>1, <1>2, <2>1, <2>3, <2>5
         DEF SocketOK, Told, Authenticated, EffectiveOrg, Socket
    <3>. QED  BY <2>5, <3>1, ContinueKeeps
  <2>. QED  BY <2>2, <2>4, <2>5
<1>4. CASE GetRoleKeys(s) /\ ~Refuse(s)
  <2>1. k.pc = "roles" /\ Continue(s, valid)
    BY <1>4 DEF GetRoleKeys
  <2>2. k.user \in GatewayUsers /\ EffectiveOrg(valid) \in Orgs
    BY <1>1, <2>1 DEF SocketOK, Socket, EffectiveOrg, Authenticated
  <2>3. SocketOK(valid) /\ Told(valid)
    BY <1>1, <1>2, <2>2 DEF SocketOK, Told, Authenticated, Socket
  <2>. QED  BY <2>1, <2>3, ContinueKeeps
<1>. QED  BY <1>3, <1>4, RefusalKeeps

LEMMA JoinKeeps ==
  ASSUME GatewayInv, NEW s \in Sockets, Join(s)
  PROVE  GatewayInv'
<1> DEFINE k == sock[s]
           j == [k EXCEPT !.pc = "joined", !.joined = k.open, !.data = RoomOf(k)]
<1>1. SocketOK(k) /\ k.pc = "valid" /\ sock' = [sock EXCEPT ![s] = j]
      /\ connectedCount' = connectedCount + 1 /\ UNCHANGED <<accounts, notes, restarts>>
  BY DEF GatewayInv, Join, RoomOf
<1>2. RoomOf(k) \in Room /\ k \in Socket /\ k.user \in GatewayUsers /\ EffectiveOrg(k) \in Orgs
  BY <1>1 DEF SocketOK, RoomOf, RoomForUser, Room, Authenticated
<1>3. /\ j.pc = "joined" /\ j.joined = k.open /\ j.data = RoomOf(k) /\ j.open = k.open
      /\ j.user = k.user /\ j.org = k.org /\ j.override = k.override
  BY <1>2 DEF Socket
<1>4. j \in Socket
  <2>1. \A r \in Room, b \in BOOLEAN :
          [k EXCEPT !.pc = "joined", !.joined = b, !.data = r] \in Socket
    BY <1>2 DEF Socket
  <2>2. k.open \in BOOLEAN
    BY <1>2 DEF Socket
  <2>. QED  BY <1>2, <2>1, <2>2
<1> HIDE DEF j
<1>5. SocketOK(j) /\ Told(j)
  BY <1>2, <1>3, <1>4 DEF SocketOK, Told, RoomOf, EffectiveOrg, Authenticated
<1>6. connectedCount' \in Nat
  BY <1>1 DEF GatewayInv, GatewayTypeOK
<1>. QED  BY <1>1, <1>5, <1>6, OneSocketMoves

LEMMA GreetingKeeps ==
  ASSUME GatewayInv, NEW s \in Sockets, CountUnread(s) \/ Hello(s)
  PROVE  GatewayInv'
<1> DEFINE k == sock[s]
           c == [k EXCEPT !.pc = "counted", !.counted = UnreadOf(RoomOf(k))]
           g == [k EXCEPT !.pc = "greeted"]
<1>1. SocketOK(k) /\ Told(k) /\ k \in Socket /\ UnreadOf(RoomOf(k)) \in SUBSET Notes
  BY DEF GatewayInv, GatewayTypeOK, UnreadOf
<1>2. CASE CountUnread(s)
  <2>1. k.pc = "joined" /\ Continue(s, c)
    BY <1>2 DEF CountUnread
  <2>2. /\ c \in Socket /\ c.pc = "counted" /\ c.counted = UnreadOf(RoomOf(k)) /\ c.data = k.data
        /\ c.joined = k.joined /\ c.open = k.open /\ c.user = k.user /\ c.org = k.org
        /\ c.override = k.override
    BY <1>1 DEF Socket
  <2> HIDE DEF c
  <2>3. RoomOf(c) = RoomOf(k) /\ EffectiveOrg(c) = EffectiveOrg(k)
    BY <2>2 DEF RoomOf, EffectiveOrg
  <2>4. SocketOK(c) /\ Told(c)
    BY <1>1, <2>1, <2>2, <2>3 DEF SocketOK, Told, Authenticated
  <2>. QED  BY <2>1, <2>4, ContinueKeeps
<1>3. CASE Hello(s)
  <2>1. k.pc = "counted" /\ (Continue(s, g) \/ Continue(s, Over))
    BY <1>3 DEF Hello
  <2>2. /\ g \in Socket /\ g.pc = "greeted" /\ g.counted = k.counted /\ g.shown = k.shown
        /\ g.joined = k.joined /\ g.open = k.open /\ g.data = k.data
        /\ g.user = k.user /\ g.org = k.org /\ g.override = k.override
    BY <1>1 DEF Socket
  <2> HIDE DEF g
  <2>3. RoomOf(g) = RoomOf(k) /\ EffectiveOrg(g) = EffectiveOrg(k)
    BY <2>2 DEF RoomOf, EffectiveOrg
  <2>4. SocketOK(g) /\ Told(g)
    BY <1>1, <2>1, <2>2, <2>3 DEF SocketOK, Told, Authenticated
  <2>. QED  BY <2>1, <2>4, ContinueKeeps, NewOK
<1>. QED  BY <1>2, <1>3

LEMMA LeavingKeeps ==
  ASSUME GatewayInv, NEW s \in Sockets, Leave(s)
  PROVE  GatewayInv'
<1> DEFINE k == sock[s]
           left == [k EXCEPT !.open = FALSE, !.joined = FALSE, !.data = NoRoom, !.shown = {}]
<1>1. SocketOK(k) /\ k \in Socket
  BY DEF GatewayInv, GatewayTypeOK
<1>2. SocketOK(left) /\ Told(left)
  <2>1. /\ left \in Socket /\ left.pc = k.pc /\ left.joined = FALSE /\ left.user = k.user
        /\ left.org = k.org /\ left.override = k.override
    BY <1>1 DEF Socket
  <2> HIDE DEF left
  <2>. QED  BY <1>1, <2>1 DEF SocketOK, Told, Authenticated, EffectiveOrg
<1>3. Gone(k) \in {left, Over}
  BY DEF Gone
<1>4. sock' = [sock EXCEPT ![s] = Gone(k)] /\ UNCHANGED <<accounts, notes, restarts>>
  BY DEF Leave, HandleDisconnect, Disconnect
<1>5. connectedCount' \in Nat
  <2>1. connectedCount' = connectedCount \/ (connectedCount > 0 /\ connectedCount' = connectedCount - 1)
    BY DEF Leave, HandleDisconnect, Disconnect
  <2>. QED  BY <2>1 DEF GatewayInv, GatewayTypeOK
<1> HIDE DEF left
<1>. QED  BY <1>2, <1>3, <1>4, <1>5, NewOK, OneSocketMoves

LEMMA ConnectionKeeps ==
  ASSUME GatewayInv, NEW s \in Sockets, NEW u \in GatewayUsers \cup {NoOne},
         NEW o \in Orgs \cup {NoOrg}, NEW ask \in Orgs \cup {NoOrg}, Connect(s, u, o, ask)
  PROVE  GatewayInv'
<1> DEFINE k == [New EXCEPT !.pc = "verifying", !.open = TRUE,
                            !.user = u, !.org = o, !.override = ask]
<1>1. Continue(s, k)
  BY DEF Connect
<1>2. k \in Socket /\ k.pc = "verifying" /\ ~k.joined
  BY DEF New, Socket
<1> HIDE DEF k
<1>3. SocketOK(k) /\ Told(k)
  BY <1>2 DEF SocketOK, Told, Authenticated
<1>. QED  BY <1>1, <1>3, ContinueKeeps

(* What is stored, read or given up *)
LEMMA RowsKeep ==
  ASSUME GatewayInv, UNCHANGED <<accounts, sock, connectedCount, restarts>>,
         unread' \subseteq Notes, pending' \subseteq Notes, missed' \subseteq Notes,
         unread' \ (pending' \cup missed') \subseteq unread \ (pending \cup missed)
  PROVE  GatewayInv'
<1>1. (GatewayTypeOK)'
  BY DEF GatewayInv, GatewayTypeOK, accounts
<1>2. ASSUME NEW s \in Sockets
      PROVE  SocketOK(sock[s])' /\ Told(sock[s])'
  <2>1. SocketOK(sock[s]) /\ Told(sock[s]) /\ sock'[s] = sock[s]
    BY DEF GatewayInv
  <2>. QED  BY <2>1 DEF SocketOK, Told, RoomOf, RoomForUser, EffectiveOrg, UnreadOf
<1>. QED  BY <1>1, <1>2 DEF GatewayInv

LEMMA PublicationKeeps ==
  ASSUME GatewayInv, NEW n \in Notes, PublishToUser(n)
  PROVE  GatewayInv'
<1> DEFINE inRoom(s) == sock[s].joined /\ sock[s].data = NoteRoom[n]
           told(s) == [sock[s] EXCEPT !.shown = @ \cup {n}]
<1>1. /\ pending' = pending \ {n}
      /\ UNCHANGED <<orgOf, superadmins, unread, missed, connectedCount, restarts>>
      /\ sock' = [s \in Sockets |-> IF inRoom(s) THEN told(s) ELSE sock[s]]
  BY DEF PublishToUser, PublishIn, accounts
<1>2. ASSUME NEW s \in Sockets
      PROVE  sock'[s] \in Socket /\ SocketOK(sock[s])' /\ Told(sock[s])'
  <2>1. SocketOK(sock[s]) /\ Told(sock[s]) /\ sock[s] \in Socket
    BY DEF GatewayInv, GatewayTypeOK
  <2>2. CASE inRoom(s)
    <3>1. sock'[s] = told(s)
      BY <1>1, <2>2
    <3>2. /\ told(s) \in Socket /\ told(s).pc = sock[s].pc /\ told(s).joined = sock[s].joined
          /\ told(s).open = sock[s].open /\ told(s).data = sock[s].data
          /\ told(s).user = sock[s].user /\ told(s).org = sock[s].org
          /\ told(s).override = sock[s].override /\ told(s).counted = sock[s].counted
          /\ told(s).shown = sock[s].shown \cup {n}
      BY <2>1 DEF Socket
    <3> HIDE DEF told
    <3>3. SocketOK(told(s))
      BY <2>1, <3>2 DEF SocketOK, RoomOf, EffectiveOrg
    <3>4. Told(sock[s])'
      BY <1>1, <2>1, <3>1, <3>2
         DEF Told, RoomOf, RoomForUser, EffectiveOrg, UnreadOf
    <3>. QED  BY <1>1, <3>1, <3>2, <3>3, <3>4
                 DEF SocketOK, RoomOf, RoomForUser, EffectiveOrg
  <2>3. CASE ~inRoom(s)
    <3>1. sock'[s] = sock[s]
      BY <1>1, <2>3
    <3>2. sock[s].joined => NoteRoom[n] # RoomOf(sock[s])
      BY <2>1, <2>3 DEF SocketOK
    <3>3. Told(sock[s])'
      BY <1>1, <2>1, <3>1, <3>2
         DEF Told, RoomOf, RoomForUser, EffectiveOrg, UnreadOf
    <3>. QED  BY <2>1, <3>1, <3>3 DEF SocketOK, RoomOf, RoomForUser, EffectiveOrg
  <2>. QED  BY <2>2, <2>3
<1>3. (GatewayTypeOK)'
  BY <1>1, <1>2 DEF GatewayInv, GatewayTypeOK
<1>. QED  BY <1>2, <1>3 DEF GatewayInv

LEMMA AccountsKeep ==
  ASSUME GatewayInv, Account, orgOf' \in [GatewayUsers -> Orgs \cup {NoOrg}],
         superadmins' \subseteq GatewayUsers
  PROVE  GatewayInv'
<1>1. /\ UNCHANGED <<unread, pending, missed, sock, connectedCount, restarts>>
  BY DEF Account, notes
<1>2. (GatewayTypeOK)'
  BY <1>1 DEF GatewayInv, GatewayTypeOK
<1>3. ASSUME NEW s \in Sockets
      PROVE  SocketOK(sock[s])' /\ Told(sock[s])'
  BY <1>1
     DEF GatewayInv, SocketOK, Told, RoomOf, RoomForUser, EffectiveOrg, UnreadOf
<1>. QED  BY <1>2, <1>3 DEF GatewayInv

LEMMA RestartKeeps ==
  ASSUME GatewayInv, Restart
  PROVE  GatewayInv'
<1>1. /\ restarts < MaxRestarts /\ restarts' = restarts + 1 /\ pending' = {} /\ connectedCount' = 0
      /\ UNCHANGED <<orgOf, superadmins, unread, missed>>
      /\ sock' = [s \in Sockets |-> IF sock[s].pc = "new" THEN New ELSE Over]
  BY DEF Restart, accounts
<1>2. ASSUME NEW s \in Sockets
      PROVE  sock'[s] \in Socket /\ SocketOK(sock[s])' /\ Told(sock[s])'
  <2>1. sock'[s] \in {New, Over}
    BY <1>1
  <2>2. SocketOK(sock'[s]) /\ ~sock'[s].joined
    BY <2>1, NewOK
  <2>. QED  BY <2>2 DEF SocketOK, Told, RoomOf, RoomForUser, EffectiveOrg
<1>3. (GatewayTypeOK)'
  BY <1>1, <1>2, GatewayAssumption DEF GatewayInv, GatewayTypeOK
<1>. QED  BY <1>2, <1>3 DEF GatewayInv

LEMMA GatewayInvNext ==
  ASSUME GatewayInv, [GatewayNext]_gatewayVars
  PROVE  GatewayInv'
<1>1. ASSUME NEW s \in Sockets, FailHandshake(s)
      PROVE  GatewayInv'
  BY <1>1, RefusalKeeps DEF FailHandshake
<1>2. ASSUME NEW n \in Notes, Store(n) \/ Clear(n) \/ GiveUp(n)
      PROVE  GatewayInv'
  BY <1>2, RowsKeep DEF Store, Clear, GiveUp, Around, GatewayInv, GatewayTypeOK
<1>3. ASSUME NEW u \in GatewayUsers, (\E o \in Orgs : LinkAccount(u, o)) \/ ReplaceUserRoles(u)
      PROVE  GatewayInv'
  BY <1>3, AccountsKeep DEF LinkAccount, ReplaceUserRoles, GatewayInv, GatewayTypeOK
<1>4. CASE UNCHANGED gatewayVars
  <2>1. Account /\ orgOf' = orgOf /\ superadmins' = superadmins
    BY <1>4 DEF gatewayVars, Account, notes, accounts
  <2>. QED  BY <2>1, AccountsKeep DEF GatewayInv, GatewayTypeOK
<1>5. CASE GatewayNext
  BY <1>1, <1>2, <1>3, <1>5, ConnectionKeeps, HandshakeKeeps, JoinKeeps, GreetingKeeps,
     LeavingKeeps,
     PublicationKeeps, RestartKeeps DEF GatewayNext, Handle
<1>. QED  BY <1>4, <1>5

(* Between the count and the room nothing falls.                             *)
THEOREM RoomBeforeCount == GatewaySpec => []NothingFallsBetween
<1>1. GatewayInv => NothingFallsBetween
  BY DEF GatewayInv, SocketOK, Told, NothingFallsBetween, Members
<1>2. GatewayInit => GatewayInv
  BY GatewayInvInit
<1>3. GatewayInv /\ [GatewayNext]_gatewayVars => GatewayInv'
  BY GatewayInvNext
<1>. QED  BY <1>1, <1>2, <1>3, PTL DEF GatewaySpec

-----------------------------------------------------------------------------
(* Clients that wait until they have joined *)

Counted(k) == k.data # NoRoom => k.joined

CountInv == connectedCount = Cardinality(Members) /\ \A s \in Sockets : Counted(sock[s])

LEMMA MembersAreFinite == IsFiniteSet(Members) /\ Cardinality(Members) \in Nat
<1>1. IsFiniteSet(Sockets)
  BY GatewayAssumption
<1>2. Members \subseteq Sockets
  BY DEF Members
<1>. QED  BY <1>1, <1>2, FS_Subset, FS_CardinalityType

(* One socket goes on, and is counted as it joins or leaves.                 *)
LEMMA CountFollows ==
  ASSUME GatewayInv, CountInv, NEW s \in Sockets, NEW k, Counted(k),
         sock' = [sock EXCEPT ![s] = k],
         connectedCount' = IF k.joined /\ ~sock[s].joined THEN connectedCount + 1
                           ELSE IF ~k.joined /\ sock[s].joined THEN connectedCount - 1
                           ELSE connectedCount
  PROVE  CountInv'
<1>1. sock \in [Sockets -> Socket]
  BY DEF GatewayInv, GatewayTypeOK
<1>2. \A q \in Sockets : sock'[q] = IF q = s THEN k ELSE sock[q]
  BY <1>1
<1>3. (Members)' = IF k.joined THEN Members \cup {s} ELSE Members \ {s}
  BY <1>2 DEF Members
<1>4. s \in Members <=> sock[s].joined
  BY DEF Members
<1>5. connectedCount' = Cardinality((Members)')
  <2>1. CASE k.joined
    BY <1>3, <1>4, <2>1, MembersAreFinite, FS_AddElement DEF CountInv
  <2>2. CASE ~k.joined
    BY <1>3, <1>4, <2>2, MembersAreFinite, FS_RemoveElement DEF CountInv
  <2>. QED  BY <2>1, <2>2
<1>6. \A q \in Sockets : Counted(sock[q])'
  BY <1>2 DEF CountInv, Counted
<1>. QED  BY <1>5, <1>6 DEF CountInv

(* One that goes on without joining or leaving                               *)
LEMMA CountStays ==
  ASSUME GatewayInv, CountInv, NEW s \in Sockets, NEW k, Continue(s, k),
         k.joined <=> sock[s].joined, k.joined \/ k.data = NoRoom
  PROVE  CountInv'
<1>1. sock' = [sock EXCEPT ![s] = k] /\ connectedCount' = connectedCount
  BY DEF Continue
<1>. QED  BY <1>1, CountFollows DEF Counted

LEMMA CountNext ==
  ASSUME GatewayInv, CountInv, Patient, [GatewayNext]_gatewayVars
  PROVE  CountInv'
<1>0. /\ sock \in [Sockets -> Socket] /\ connectedCount \in Nat
      /\ \A s \in Sockets : SocketOK(sock[s]) /\ Counted(sock[s])
      /\ \A s \in Sockets : sock[s].joined => sock[s].open /\ sock[s].data # NoRoom /\ connectedCount > 0
  <2>1. \A s \in Sockets : sock[s].joined => RoomOf(sock[s]) \in Orgs \X GatewayUsers
    BY DEF GatewayInv, SocketOK, RoomOf, RoomForUser, Authenticated
  <2>2. \A s \in Members : Cardinality(Members) > 0
    BY MembersAreFinite, FS_EmptySet
  <2>3. \A s \in Sockets : sock[s].joined => s \in Members
    BY DEF Members
  <2>. QED  BY <2>1, <2>2, <2>3, GatewayAssumption
            DEF GatewayInv, CountInv, GatewayTypeOK, SocketOK
<1>1. ASSUME NEW s \in Sockets, Refuse(s)
      PROVE  CountInv'
  <2>1. sock' = [sock EXCEPT ![s] = Over]
    BY <1>1 DEF Refuse, Continue, HandleDisconnect, Disconnect
  <2>2. connectedCount' = IF sock[s].joined THEN connectedCount - 1 ELSE connectedCount
    BY <1>0, <1>1 DEF Refuse, Continue, HandleDisconnect, Disconnect, Counted
  <2>. QED  BY <2>1, <2>2, NewOK, CountFollows DEF Counted
<1>2. ASSUME NEW s \in Sockets, Leave(s)
      PROVE  CountInv'
  <2>1. sock' = [sock EXCEPT ![s] = Gone(sock[s])]
    BY <1>2 DEF Leave, HandleDisconnect, Disconnect
  <2>2. connectedCount' = IF sock[s].joined THEN connectedCount - 1 ELSE connectedCount
    BY <1>0, <1>2 DEF Leave, HandleDisconnect, Disconnect, Counted
  <2>3. ~Gone(sock[s]).joined /\ Gone(sock[s]).data = NoRoom
    BY <1>0, NewOK DEF Gone, Socket
  <2>. QED  BY <2>1, <2>2, <2>3, CountFollows DEF Counted
<1>4. ASSUME NEW s \in Sockets, NEW u, NEW o, NEW ask, Connect(s, u, o, ask)
      PROVE  CountInv'
  <2> DEFINE k == [New EXCEPT !.pc = "verifying", !.open = TRUE,
                              !.user = u, !.org = o, !.override = ask]
  <2>1. ~k.joined /\ k.data = NoRoom
    BY DEF New
  <2>2. ~sock[s].joined /\ Continue(s, k)
    BY <1>0, <1>4 DEF Connect, SocketOK
  <2> HIDE DEF k
  <2>. QED  BY <2>1, <2>2, CountStays
<1>5. ASSUME NEW s \in Sockets, FindUser(s) \/ GetRoleKeys(s)
      PROVE  CountInv'
  <2>1. ~sock[s].joined /\ sock[s].data = NoRoom /\ sock[s] \in Socket
    BY <1>0, <1>5 DEF FindUser, GetRoleKeys, SocketOK, Counted
  <2> DEFINE on(p) == [sock[s] EXCEPT !.pc = p]
  <2>2. \A p : ~on(p).joined /\ on(p).data = NoRoom
    BY <2>1 DEF Socket
  <2>3. Refuse(s) \/ Continue(s, on("valid")) \/ Continue(s, on("roles"))
    BY <1>5 DEF FindUser, GetRoleKeys
  <2> HIDE DEF on
  <2>4. ASSUME NEW p, Continue(s, on(p))
        PROVE  CountInv'
    BY <2>1, <2>2, <2>4, CountStays
  <2>. QED  BY <1>1, <2>3, <2>4
<1>6. ASSUME NEW s \in Sockets, Join(s)
      PROVE  CountInv'
  <2> DEFINE k == [sock[s] EXCEPT !.pc = "joined", !.joined = sock[s].open,
                                  !.data = RoomOf(sock[s])]
  <2>1. /\ sock' = [sock EXCEPT ![s] = k] /\ connectedCount' = connectedCount + 1
        /\ sock[s].pc = "valid"
    BY <1>6 DEF Join, RoomOf
  <2>2. sock[s].open /\ ~sock[s].joined
    BY <1>0, <2>1 DEF Patient, SocketOK
  <2>3. k.joined
    BY <1>0, <2>2 DEF Socket
  <2> HIDE DEF k
  <2>. QED  BY <2>1, <2>2, <2>3, CountFollows DEF Counted
<1>7. ASSUME NEW s \in Sockets, CountUnread(s) \/ Hello(s)
      PROVE  CountInv'
  <2>1. sock[s] \in Socket /\ (sock[s].joined \/ sock[s].data = NoRoom)
    BY <1>0 DEF Counted
  <2>2. CASE Hello(s) /\ ~sock[s].open
    <3>1. ~sock[s].joined /\ Continue(s, Over) /\ ~Over.joined /\ Over.data = NoRoom
      BY <1>0, <2>2, NewOK DEF Hello
    <3>. QED  BY <3>1, CountStays
  <2>3. CASE Hello(s) /\ sock[s].open
    <3> DEFINE k == [sock[s] EXCEPT !.pc = "greeted"]
    <3>1. Continue(s, k) /\ (k.joined <=> sock[s].joined) /\ k.data = sock[s].data
      BY <2>1, <2>3 DEF Hello, Socket
    <3> HIDE DEF k
    <3>. QED  BY <2>1, <3>1, CountStays
  <2>4. CASE CountUnread(s)
    <3> DEFINE k == [sock[s] EXCEPT !.pc = "counted", !.counted = UnreadOf(RoomOf(sock[s]))]
    <3>1. Continue(s, k) /\ (k.joined <=> sock[s].joined) /\ k.data = sock[s].data
      BY <2>1, <2>4 DEF CountUnread, Socket
    <3> HIDE DEF k
    <3>. QED  BY <2>1, <3>1, CountStays
  <2>. QED  BY <1>7, <2>2, <2>3, <2>4
<1>8. ASSUME NEW n \in Notes, PublishToUser(n)
      PROVE  CountInv'
  <2>1. \A s \in Sockets : LET k == [sock[s] EXCEPT !.shown = @ \cup {n}]
                           IN  k.joined = sock[s].joined /\ k.data = sock[s].data
    BY <1>0 DEF Socket
  <2>2. \A s \in Sockets : sock'[s].joined = sock[s].joined /\ sock'[s].data = sock[s].data
    BY <1>8, <2>1 DEF PublishToUser, PublishIn
  <2>3. (Members)' = Members
    BY <2>2 DEF Members
  <2>4. connectedCount' = connectedCount
    BY <1>8 DEF PublishToUser, PublishIn
  <2>. QED  BY <1>0, <2>2, <2>3, <2>4 DEF CountInv, Counted
<1>9. CASE Restart
  <2>1. \A s \in Sockets : sock'[s] \in {New, Over}
    BY <1>9 DEF Restart
  <2>2. \A s \in Sockets : ~sock'[s].joined /\ sock'[s].data = NoRoom
    BY <2>1, NewOK
  <2>3. (Members)' = {} /\ connectedCount' = 0
    BY <1>9, <2>2 DEF Members, Restart
  <2>4. Cardinality({}) = 0
    BY FS_EmptySet
  <2>. QED  BY <2>2, <2>3, <2>4 DEF CountInv, Counted
<1>10. CASE UNCHANGED <<sock, connectedCount>>
  BY <1>10 DEF CountInv, Members, Counted
<1>11. CASE GatewayNext
  <2>1. ASSUME NEW n \in Notes, Store(n) \/ Clear(n) \/ GiveUp(n)
        PROVE  UNCHANGED <<sock, connectedCount>>
    BY <2>1 DEF Store, Clear, GiveUp, Around
  <2>2. ASSUME NEW u \in GatewayUsers, (\E o \in Orgs : LinkAccount(u, o)) \/ ReplaceUserRoles(u)
        PROVE  UNCHANGED <<sock, connectedCount>>
    BY <2>2 DEF LinkAccount, ReplaceUserRoles, Account
  <2>. QED  BY <1>1, <1>2, <1>4, <1>5, <1>6, <1>7, <1>8, <1>9, <1>10, <1>11, <2>1, <2>2
            DEF GatewayNext, Handle, FailHandshake
<1>. QED  BY <1>10, <1>11 DEF gatewayVars

(* If clients wait until they have joined, the count is exact.               *)
THEOREM PatientClientsAreCounted == GatewaySpec /\ []Patient => []CountIsExact
<1>1. GatewayInit => GatewayInv /\ CountInv
  <2>. SUFFICES ASSUME GatewayInit PROVE GatewayInv /\ CountInv
    OBVIOUS
  <2>1. \A s \in Sockets : ~sock[s].joined /\ sock[s].data = NoRoom
    BY NewOK DEF GatewayInit
  <2>2. Members = {}
    BY <2>1 DEF Members
  <2>3. Cardinality({}) = 0
    BY FS_EmptySet
  <2>. QED  BY <2>1, <2>2, <2>3, GatewayInvInit DEF GatewayInit, CountInv, Counted
<1>2. GatewayInv /\ CountInv /\ Patient /\ [GatewayNext]_gatewayVars => GatewayInv' /\ CountInv'
  BY GatewayInvNext, CountNext
<1>3. CountInv => CountIsExact
  BY DEF CountInv, CountIsExact
<1>. QED  BY <1>1, <1>2, <1>3, PTL DEF GatewaySpec

(* In the scenario whose clients wait, restarts and failed handshakes do not *)
(* put the count wrong.                                                      *)
THEOREM PatientScenarioIsCounted == MCSpec => []PatientCountIsExact
<1> DEFINE P == scenario = "patient"
<1>1. MCInit => GatewayInit /\ (P => Patient)
  BY NewOK DEF MCInit, GatewayInit, Patient, New
<1>2. [MCNext]_mcvars => [GatewayNext]_gatewayVars
  BY DEF MCNext, mcvars
<1>3. (P => Patient) /\ [MCNext]_mcvars => (P => Patient)' /\ (P' <=> P)
  BY DEF MCNext, mcvars, gatewayVars, Patient
<1>4. (P => CountIsExact) => PatientCountIsExact
  BY DEF PatientCountIsExact
<1>5. GatewaySpec /\ []Patient => []CountIsExact
  BY PatientClientsAreCounted
<1> HIDE DEF P
<1>. QED  BY <1>1, <1>2, <1>3, <1>4, <1>5, PTL DEF GatewaySpec, MCSpec
=============================================================================
