----------------------- MODULE NotificationInboxProofs -----------------------
(***************************************************************************)
(* NotificationInbox: types, what a row never loses, and, where calls do   *)
(* not overlap or nothing is restored, what clients are told of it.        *)
(* NotificationPages: a walk repeats nothing and skips nothing.            *)
(* MCNotificationInbox: the same of the scenarios that TLC runs.           *)
(***************************************************************************)
EXTENDS MCNotificationInbox, FiniteSetTheorems, TLAPS

CallOK(h) ==
  /\ pc[h] = "found" => /\ call[h].op \in {"read", "dismiss", "undismiss"}
                        /\ call[h].note \in Notes
                        /\ Owner[call[h].note] = Caller[h]
  /\ pc[h] = "written" => \/ call[h].op = "read_all"
                          \/ /\ call[h].op \in {"read", "dismiss", "undismiss"}
                             /\ call[h].note \in Notes
  /\ call[h].op \in Ops \cup {"none", "read_all"}

IInv == TypeOK /\ MarkedByOwner /\ \A h \in Calls : CallOK(h)

LEMMA InitHolds == Init => IInv
BY InboxAssumption DEF Init, IInv, TypeOK, Times, Call, MarkedByOwner, CallOK

LEMMA CreateKeeps ==
  ASSUME IInv, NEW n \in Notes, NEW t \in 0 .. MaxTime, Create(n, t)
  PROVE  IInv'
<1>1. TypeOK'
  BY DEF IInv, TypeOK, Create
<1>2. MarkedByOwner' /\ \A h \in Calls : CallOK(h)'
  BY DEF IInv, MarkedByOwner, CallOK, Create
<1>. QED  BY <1>1, <1>2 DEF IInv

LEMMA FindKeeps ==
  ASSUME IInv, NEW h \in Calls, NEW op \in Ops, NEW n \in Notes, FindByIdForUser(h, op, n)
  PROVE  IInv'
<1> DEFINE new == [op |-> op, note |-> n]
           next == IF Worthwhile(op, n) THEN "found" ELSE "done"
<1>1. /\ TypeOK /\ n \in Mine(h) /\ op \in {"read", "dismiss", "undismiss"}
      /\ call' = [call EXCEPT ![h] = new] /\ pc' = [pc EXCEPT ![h] = next]
      /\ UNCHANGED <<createdAt, readAt, dismissedAt, hidden>>
  BY InboxAssumption DEF IInv, FindByIdForUser, rows, AllOps
<1>2. new \in Call /\ new.op = op /\ new.note = n /\ next \in {"found", "done"}
  BY <1>1 DEF Call, AllOps
<1> HIDE DEF new, next
<1>3. TypeOK'
  BY <1>1, <1>2 DEF TypeOK
<1>4. MarkedByOwner'
  BY <1>1 DEF IInv, MarkedByOwner
<1>5. ASSUME NEW g \in Calls
      PROVE  CallOK(g)'
  <2>1. CASE g = h
    <3>1. pc'[h] = next /\ call'[h] = new
      BY <1>1 DEF TypeOK
    <3>2. n \in Notes /\ Owner[n] = Caller[h]
      BY <1>1 DEF Mine
    <3>. QED  BY <1>1, <1>2, <2>1, <3>1, <3>2 DEF CallOK
  <2>2. CASE g # h
    BY <1>1, <2>2 DEF IInv, TypeOK, CallOK
  <2>. QED  BY <2>1, <2>2
<1>. QED  BY <1>3, <1>4, <1>5 DEF IInv

(* A call that found something writes it. *)
LEMMA WriteKeeps ==
  ASSUME IInv, NEW h \in Calls, pc[h] = "found", Written(h),
         NEW n \in Notes, n = call[h].note,
         \/ readAt' \in {readAt, [readAt EXCEPT ![n] = h]} /\ UNCHANGED dismissedAt
         \/ /\ dismissedAt' \in {dismissedAt, [dismissedAt EXCEPT ![n] = h],
                                 [dismissedAt EXCEPT ![n] = Never]}
            /\ UNCHANGED readAt
  PROVE  IInv'
<1>1. TypeOK /\ CallOK(h) /\ MarkedByOwner
  BY DEF IInv
<1>2. TypeOK'
  <2>1. readAt' \in [Notes -> Times] /\ dismissedAt' \in [Notes -> Times]
    BY <1>1 DEF TypeOK, Times
  <2>. QED  BY <1>1, <2>1 DEF TypeOK, Written
<1>3. Owner[n] = Caller[h]
  BY <1>1 DEF CallOK
<1>4. MarkedByOwner'
  BY <1>1, <1>3 DEF TypeOK, MarkedByOwner
<1>5. ASSUME NEW g \in Calls
      PROVE  CallOK(g)'
  BY <1>1 DEF IInv, TypeOK, CallOK, Written
<1>. QED  BY <1>2, <1>4, <1>5 DEF IInv

LEMMA ReadAllKeeps ==
  ASSUME IInv, NEW h \in Calls, MarkAllRead(h)
  PROVE  IInv'
<1> DEFINE notes == {n \in Mine(h) : IsNew(n)}
           next == IF notes # {} THEN "written" ELSE "done"
           new == [op |-> "read_all"]
<1>1. /\ TypeOK /\ MarkedByOwner
      /\ readAt' = [n \in Notes |-> IF n \in notes THEN h ELSE readAt[n]]
      /\ call' = [call EXCEPT ![h] = new] /\ pc' = [pc EXCEPT ![h] = next]
      /\ UNCHANGED <<createdAt, dismissedAt, hidden>>
  BY DEF IInv, MarkAllRead, MarkThese
<1>2. new \in Call /\ new.op = "read_all" /\ next \in {"written", "done"}
  BY DEF Call
<1>3. \A n \in notes : Owner[n] = Caller[h]
  BY DEF Mine
<1> HIDE DEF notes, next, new
<1>4. TypeOK'
  BY <1>1, <1>2 DEF TypeOK, Times
<1>5. MarkedByOwner'
  BY <1>1, <1>3 DEF TypeOK, MarkedByOwner
<1>6. ASSUME NEW g \in Calls
      PROVE  CallOK(g)'
  <2>1. CASE g = h
    <3>1. pc'[h] = next /\ call'[h] = new
      BY <1>1 DEF TypeOK
    <3>. QED  BY <1>2, <2>1, <3>1 DEF CallOK
  <2>2. CASE g # h
    BY <1>1, <2>2 DEF IInv, TypeOK, CallOK
  <2>. QED  BY <2>1, <2>2
<1>. QED  BY <1>4, <1>5, <1>6 DEF IInv

(* The call ends, told or failed. *)
LEMMA EndKeeps ==
  ASSUME IInv, NEW h \in Calls, NEW next \in {"told", "failed"},
         pc' = [pc EXCEPT ![h] = next], hidden' \subseteq Notes, UNCHANGED <<rows, call>>
  PROVE  IInv'
<1>1. TypeOK /\ UNCHANGED <<createdAt, readAt, dismissedAt, call>>
  BY DEF IInv, rows
<1>2. TypeOK'
  BY <1>1 DEF TypeOK
<1>3. MarkedByOwner'
  BY <1>1 DEF IInv, MarkedByOwner
<1>4. ASSUME NEW g \in Calls
      PROVE  CallOK(g)'
  BY <1>1 DEF IInv, TypeOK, CallOK
<1>. QED  BY <1>2, <1>3, <1>4 DEF IInv

(* What each way to write does to a row *)
LEMMA Writes ==
  ASSUME IInv, NEW h \in Calls, MarkRead(h) \/ MarkDismissed(h) \/ ClearDismissed(h)
  PROVE  /\ pc[h] = "found" /\ Written(h) /\ call[h].note \in Notes
         /\ \/ readAt' \in {readAt, [readAt EXCEPT ![call[h].note] = h]} /\ UNCHANGED dismissedAt
            \/ /\ dismissedAt' \in {dismissedAt, [dismissedAt EXCEPT ![call[h].note] = h],
                                    [dismissedAt EXCEPT ![call[h].note] = Never]}
               /\ UNCHANGED readAt
BY DEF IInv, CallOK, MarkRead, MarkReadWhere, MarkDismissed, DismissWhere, ClearDismissed, Writing

LEMMA PublishKeeps ==
  ASSUME IInv, NEW h \in Calls, PublishToUser(h)
  PROVE  IInv'
<1>1. hidden' \subseteq Notes
  BY DEF IInv, TypeOK, CallOK, PublishToUser
<1>. QED  BY <1>1, EndKeeps DEF PublishToUser

LEMMA NextKeeps == IInv /\ [Next]_vars => IInv'
<1> SUFFICES ASSUME IInv, [Next]_vars
             PROVE  IInv'
  OBVIOUS
<1>1. ASSUME NEW h \in Calls, MarkRead(h) \/ MarkDismissed(h) \/ ClearDismissed(h)
      PROVE  IInv'
  <2>1. PICK n \in Notes : n = call[h].note
    BY <1>1, Writes
  <2>. QED  BY <1>1, <2>1, Writes, WriteKeeps
<1>2. ASSUME NEW h \in Calls, Fail(h)
      PROVE  IInv'
  BY <1>2, EndKeeps DEF Fail, IInv, TypeOK
<1>3. CASE UNCHANGED vars
  BY <1>3 DEF vars, IInv, TypeOK, MarkedByOwner, CallOK
<1>. QED  BY <1>1, <1>2, <1>3, CreateKeeps, FindKeeps, ReadAllKeeps, PublishKeeps DEF Next, Proceed

LEMMA InvariantHolds == Spec => []IInv
BY InitHolds, NextKeeps, PTL DEF Spec

(* Every reachable state has the types the source gives its columns.         *)
THEOREM TypeCorrect == Spec => []TypeOK
<1>1. IInv => TypeOK
  BY DEF IInv
<1>. QED  BY <1>1, InvariantHolds, PTL

(* Tenant isolation of marks: read-all included, only the recipient of a     *)
(* notification changes it (NotificationsRepo).                              *)
THEOREM OwnersMark == Spec => []MarkedByOwner
<1>1. IInv => MarkedByOwner
  BY DEF IInv
<1>. QED  BY <1>1, InvariantHolds, PTL

-----------------------------------------------------------------------------
(* Action properties *)

(* What a step may do to the marks of a notification *)
LEMMA MarksStep ==
  ASSUME IInv, [Next]_vars, NEW n \in Notes
  PROVE  /\ readAt'[n] # readAt[n] => IsNew(n)
         /\ dismissedAt[n] # Never => dismissedAt'[n] \in {Never, dismissedAt[n]}
<1>0. TypeOK
  BY DEF IInv
<1>1. ASSUME UNCHANGED <<readAt, dismissedAt>>
      PROVE  /\ readAt'[n] = readAt[n]
             /\ dismissedAt'[n] = dismissedAt[n]
  BY <1>1
<1>2. ASSUME NEW h \in Calls, MarkRead(h)
      PROVE  (readAt'[n] # readAt[n] => IsNew(n)) /\ dismissedAt'[n] = dismissedAt[n]
  BY <1>0, <1>2 DEF TypeOK, MarkRead, MarkReadWhere
<1>3. ASSUME NEW h \in Calls, MarkAllRead(h)
      PROVE  (readAt'[n] # readAt[n] => IsNew(n)) /\ dismissedAt'[n] = dismissedAt[n]
  BY <1>0, <1>3 DEF TypeOK, MarkAllRead, MarkThese
<1>4. ASSUME NEW h \in Calls, MarkDismissed(h) \/ ClearDismissed(h)
      PROVE  /\ readAt'[n] = readAt[n]
             /\ dismissedAt[n] # Never => dismissedAt'[n] \in {Never, dismissedAt[n]}
  BY <1>0, <1>4 DEF TypeOK, MarkDismissed, DismissWhere, ClearDismissed
<1>5. ASSUME NEW h \in Calls, PublishToUser(h) \/ Fail(h)
      PROVE  UNCHANGED <<readAt, dismissedAt>>
  BY <1>5 DEF PublishToUser, Fail, rows
<1>6. ASSUME NEW h \in Calls, NEW op \in Ops, NEW m \in Notes, FindByIdForUser(h, op, m)
      PROVE  UNCHANGED <<readAt, dismissedAt>>
  BY <1>6 DEF FindByIdForUser, rows
<1>7. ASSUME NEW m \in Notes, NEW t \in 0 .. MaxTime, Create(m, t)
      PROVE  UNCHANGED <<readAt, dismissedAt>>
  BY <1>7 DEF Create
<1>8. CASE UNCHANGED vars
  BY <1>1, <1>8 DEF vars
<1>. QED  BY <1>1, <1>2, <1>3, <1>4, <1>5, <1>6, <1>7, <1>8 DEF Next, Proceed

(* readAt is set once, on a row that is neither read nor dismissed: the      *)
(* guard of the UPDATE decides, not the row the call had found.              *)
THEOREM FirstReadingStands == Spec => ReadIsOnce
<1>1. IInv /\ [Next]_vars => [\A n \in Notes : readAt'[n] # readAt[n] => IsNew(n)]_vars
  BY MarksStep
<1>. QED  BY <1>1, InvariantHolds, PTL DEF Spec, ReadIsOnce

(* dismissedAt is set once until it is cleared.                              *)
THEOREM FirstDismissalStands == Spec => DismissalStands
<1>1. IInv /\ [Next]_vars =>
        [\A n \in Notes : dismissedAt[n] # Never
                             => dismissedAt'[n] \in {Never, dismissedAt[n]}]_vars
  BY MarksStep
<1>. QED  BY <1>1, InvariantHolds, PTL DEF Spec, DismissalStands

-----------------------------------------------------------------------------
(* Where nothing is restored, a row once touched is never new again. *)

(* What a step may do to a call *)
LEMMA CallStep ==
  ASSUME IInv, [Next]_vars, NEW h \in Calls
  PROVE  \/ pc'[h] = pc[h] /\ call'[h] = call[h]
         \/ pc[h] = "written" /\ pc'[h] = "told" /\ call'[h] = call[h]
         \/ pc[h] \in InFlight /\ pc'[h] = "failed" /\ call'[h] = call[h]
         \/ /\ pc'[h] \in {"found", "done"}
            /\ \E op \in Ops, n \in Notes : /\ FindByIdForUser(h, op, n)
                                           /\ call'[h] = [op |-> op, note |-> n]
         \/ pc'[h] \in {"written", "done"} /\ call'[h] = [op |-> "read_all"]
         \/ /\ pc[h] = "found" /\ pc'[h] = "written" /\ call'[h] = call[h]
            /\ MarkRead(h) \/ MarkDismissed(h) \/ ClearDismissed(h)
<1>0. TypeOK
  BY DEF IInv
<1>1. ASSUME NEW g \in Calls, MarkRead(g) \/ MarkDismissed(g) \/ ClearDismissed(g)
      PROVE  /\ pc[g] = "found" /\ pc'[g] = "written" /\ call' = call
             /\ \A f \in Calls \ {g} : pc'[f] = pc[f]
  BY <1>0, <1>1, Writes DEF Written, TypeOK
<1>2. ASSUME NEW g \in Calls, MarkAllRead(g)
      PROVE  /\ pc'[g] \in {"written", "done"} /\ call'[g] = [op |-> "read_all"]
             /\ \A f \in Calls \ {g} : pc'[f] = pc[f] /\ call'[f] = call[f]
  BY <1>0, <1>2 DEF MarkAllRead, MarkThese, TypeOK
<1>3. ASSUME NEW g \in Calls, PublishToUser(g) \/ Fail(g)
      PROVE  /\ pc[g] \in InFlight /\ call' = call
             /\ (pc[g] = "written" /\ pc'[g] = "told") \/ pc'[g] = "failed"
             /\ \A f \in Calls \ {g} : pc'[f] = pc[f]
  BY <1>0, <1>3 DEF PublishToUser, Fail, InFlight, TypeOK
<1>4. ASSUME NEW g \in Calls, NEW op \in Ops, NEW n \in Notes, FindByIdForUser(g, op, n)
      PROVE  /\ pc'[g] \in {"found", "done"} /\ call'[g] = [op |-> op, note |-> n]
             /\ \A f \in Calls \ {g} : pc'[f] = pc[f] /\ call'[f] = call[f]
  BY <1>0, <1>4 DEF FindByIdForUser, TypeOK
<1>5. ASSUME NEW n \in Notes, NEW t \in 0 .. MaxTime, Create(n, t)
      PROVE  UNCHANGED <<pc, call>>
  BY <1>5 DEF Create
<1>6. CASE UNCHANGED vars
  BY <1>6 DEF vars
<1>7. ASSUME NEW g \in Calls, Proceed(g) \/ Fail(g)
      PROVE  \/ g = h \/ (pc'[h] = pc[h] /\ call'[h] = call[h])
  BY <1>1, <1>3, <1>7 DEF Proceed
<1>8. ASSUME Proceed(h) \/ Fail(h)
      PROVE  \/ pc[h] = "written" /\ pc'[h] = "told" /\ call'[h] = call[h]
             \/ pc[h] \in InFlight /\ pc'[h] = "failed" /\ call'[h] = call[h]
             \/ /\ pc[h] = "found" /\ pc'[h] = "written" /\ call'[h] = call[h]
                /\ MarkRead(h) \/ MarkDismissed(h) \/ ClearDismissed(h)
  BY <1>1, <1>3, <1>8 DEF Proceed
<1>9. ASSUME NEW g \in Calls, MarkAllRead(g)
      PROVE  \/ pc'[h] \in {"written", "done"} /\ call'[h] = [op |-> "read_all"]
             \/ pc'[h] = pc[h] /\ call'[h] = call[h]
  BY <1>2, <1>9
<1>10. ASSUME NEW g \in Calls, NEW op \in Ops, NEW n \in Notes, FindByIdForUser(g, op, n)
       PROVE  \/ /\ pc'[h] \in {"found", "done"}
                 /\ FindByIdForUser(h, op, n) /\ call'[h] = [op |-> op, note |-> n]
              \/ pc'[h] = pc[h] /\ call'[h] = call[h]
  BY <1>4, <1>10
<1>11. CASE \E g \in Calls : Proceed(g) \/ Fail(g)
  BY <1>7, <1>8, <1>11
<1>12. CASE \E g \in Calls : MarkAllRead(g)
  BY <1>9, <1>12
<1>13. CASE \E g \in Calls : \E op \in Ops, n \in Notes : FindByIdForUser(g, op, n)
  BY <1>10, <1>13
<1>14. CASE \E n \in Notes, t \in 0 .. MaxTime : Create(n, t)
  BY <1>5, <1>14
<1>. QED  BY <1>6, <1>11, <1>12, <1>13, <1>14 DEF Next

NoUndo == \A h \in Calls : call[h].op # "undismiss"

(* What a step may do to a row *)
LEMMA RowStep ==
  ASSUME IInv, [Next]_vars, NEW n \in Notes, Exists(n)
  PROVE  /\ createdAt'[n] = createdAt[n]
         /\ NoUndo /\ ~IsNew(n) => ~IsNew(n)'
<1>0. TypeOK /\ \A h \in Calls : CallOK(h)
  BY DEF IInv
<1>1. ASSUME NEW m \in Notes, NEW t \in 0 .. MaxTime, Create(m, t)
      PROVE  createdAt'[n] = createdAt[n] /\ dismissedAt' = dismissedAt
  BY <1>0, <1>1 DEF Create, TypeOK, Exists
<1>2. ASSUME NEW h \in Calls, MarkDismissed(h) \/ ClearDismissed(h)
      PROVE  /\ createdAt' = createdAt
             /\ NoUndo /\ dismissedAt[n] # Never => dismissedAt'[n] = dismissedAt[n]
  <2>1. createdAt' = createdAt
    BY <1>2 DEF MarkDismissed, DismissWhere, ClearDismissed, Written
  <2>2. CASE MarkDismissed(h)
    BY <1>0, <2>1, <2>2 DEF MarkDismissed, DismissWhere, TypeOK
  <2>3. CASE ClearDismissed(h)
    BY <2>1, <2>3 DEF ClearDismissed, Writing, NoUndo
  <2>. QED  BY <1>2, <2>2, <2>3
<1>3. ASSUME NEW h \in Calls, MarkRead(h) \/ MarkAllRead(h) \/ PublishToUser(h) \/ Fail(h)
      PROVE  createdAt' = createdAt /\ dismissedAt' = dismissedAt
  BY <1>3 DEF MarkRead, MarkReadWhere, MarkAllRead, MarkThese, PublishToUser, Fail, rows, Written
<1>4. ASSUME NEW h \in Calls, NEW op \in Ops, NEW m \in Notes, FindByIdForUser(h, op, m)
      PROVE  createdAt' = createdAt /\ dismissedAt' = dismissedAt
  BY <1>4 DEF FindByIdForUser, rows
<1>5. ASSUME UNCHANGED vars
      PROVE  createdAt' = createdAt /\ dismissedAt' = dismissedAt
  BY <1>5 DEF vars
<1>6. /\ createdAt'[n] = createdAt[n]
      /\ NoUndo /\ dismissedAt[n] # Never => dismissedAt'[n] = dismissedAt[n]
  BY <1>1, <1>2, <1>3, <1>4, <1>5 DEF Next, Proceed
<1>7. readAt[n] # Never => readAt'[n] = readAt[n]
  BY MarksStep DEF IsNew
<1>. QED  BY <1>6, <1>7 DEF IsNew

TouchedInv ==
  \A h \in Calls :
    /\ pc[h] \in InFlight /\ call[h].op # "read_all" => Exists(call[h].note)
    /\ pc[h] = "written" /\ call[h].op = "read" => ~IsNew(call[h].note)

LEMMA TouchedStep ==
  ASSUME NoUndo, IInv, TouchedInv, [Next]_vars
  PROVE  TouchedInv'
<1> SUFFICES ASSUME NEW h \in Calls
             PROVE  (/\ pc[h] \in InFlight /\ call[h].op # "read_all" => Exists(call[h].note)
                     /\ pc[h] = "written" /\ call[h].op = "read" => ~IsNew(call[h].note))'
  BY DEF TouchedInv
<1>0. TypeOK /\ CallOK(h)
  BY DEF IInv
<1>1. CASE pc[h] \in InFlight /\ call'[h] = call[h] /\ call[h].op # "read_all"
  <2>1. PICK n \in Notes : n = call[h].note
    BY <1>0, <1>1 DEF CallOK, InFlight
  <2>2. Exists(n) /\ createdAt'[n] = createdAt[n] /\ (~IsNew(n) => ~IsNew(n)')
    BY <1>1, <2>1, RowStep DEF TouchedInv
  <2>3. Exists(n)'
    BY <2>2 DEF Exists
  <2>4. ASSUME pc[h] = "found", pc'[h] = "written", call[h].op = "read",
               MarkRead(h) \/ MarkDismissed(h) \/ ClearDismissed(h)
        PROVE  ~IsNew(n)'
    <3>1. MarkRead(h)
      BY <2>4 DEF MarkDismissed, DismissWhere, ClearDismissed, Writing
    <3>2. readAt'[n] = h \/ ~IsNew(n)
      BY <1>0, <2>1, <3>1 DEF MarkRead, MarkReadWhere, TypeOK
    <3>. QED  BY <2>2, <3>2, InboxAssumption DEF IsNew
  <2>5. pc[h] = "written" /\ call[h].op = "read" => ~IsNew(n)'
    BY <2>1, <2>2 DEF TouchedInv
  <2>. QED  BY <1>1, <2>1, <2>3, <2>4, <2>5, CallStep DEF InFlight
<1>2. ASSUME NEW op \in Ops, NEW n \in Notes, FindByIdForUser(h, op, n)
      PROVE  Exists(n)'
  BY <1>2 DEF FindByIdForUser, Mine, rows, Exists
<1>3. CASE pc'[h] \in {"found", "done"}
           /\ \E op \in Ops, n \in Notes : FindByIdForUser(h, op, n) /\ call'[h] = [op |-> op, note |-> n]
  <2>1. PICK op \in Ops, n \in Notes : FindByIdForUser(h, op, n) /\ call'[h] = [op |-> op, note |-> n]
    BY <1>3
  <2>. QED  BY <1>2, <1>3, <2>1 DEF InFlight
<1>4. CASE call'[h] = [op |-> "read_all"]
  BY <1>4
<1>. QED  BY <1>1, <1>3, <1>4, CallStep DEF InFlight

(* Without undismiss, no client is told that a notification was read which   *)
(* is still new: the call that publishes has read it, or another call has    *)
(* read or dismissed it meanwhile.                                           *)
THEOREM ToldWithoutUndo ==
  Spec /\ []NoUndo => ToldOfNoNewOne
<1>1. Init => TouchedInv
  BY DEF Init, TouchedInv, InFlight
<1>2. NoUndo /\ IInv /\ TouchedInv /\ [Next]_vars => TouchedInv'
  BY TouchedStep
<1>3. IInv /\ TouchedInv /\ [Next]_vars => [ToldOfOldOne]_vars
  BY CallStep DEF TouchedInv, ToldOfOldOne
<1>. QED  BY <1>1, <1>2, <1>3, InvariantHolds, PTL DEF Spec, ToldOfNoNewOne

-----------------------------------------------------------------------------
(* Where calls do not overlap *)

Agrees(n) == n \in hidden <=> dismissedAt[n] # Never

Hides(h, n) == pc[h] = "written" /\ call[h].op \in {"dismiss", "undismiss"} /\ call[h].note = n

OneInFlight == \A g, h \in Calls : pc[g] \in InFlight /\ pc[h] \in InFlight => g = h

SerialInv ==
  /\ OneInFlight
  /\ \A h \in Calls : pc[h] = "found" => Worthwhile(call[h].op, call[h].note)
  /\ \A h \in Calls : pc[h] = "written" =>
       /\ call[h].op = "read" => readAt[call[h].note] = h
       /\ call[h].op = "dismiss" => dismissedAt[call[h].note] # Never
       /\ call[h].op = "undismiss" => dismissedAt[call[h].note] = Never
  /\ (\A h \in Calls : pc[h] # "failed") =>
       \A n \in Notes : Agrees(n) \/ \E h \in Calls : Hides(h, n)

LEMMA SerialBegins ==
  ASSUME OneInFlight', IInv, SerialInv, NEW h \in Calls,
         \/ \E op \in Ops, n \in Notes : FindByIdForUser(h, op, n)
         \/ MarkAllRead(h)
  PROVE  SerialInv'
<1>0. TypeOK
  BY DEF IInv
<1>2. CASE \E op \in Ops, n \in Notes : FindByIdForUser(h, op, n)
  <2>1. PICK op \in Ops, n \in Notes : FindByIdForUser(h, op, n)
    BY <1>2
  <2>2. /\ call' = [call EXCEPT ![h] = [op |-> op, note |-> n]]
        /\ pc' = [pc EXCEPT ![h] = IF Worthwhile(op, n) THEN "found" ELSE "done"]
        /\ createdAt' = createdAt /\ readAt' = readAt /\ dismissedAt' = dismissedAt /\ hidden' = hidden
        /\ pc[h] = "new"
    BY <2>1 DEF FindByIdForUser, rows
  <2>3. /\ pc'[h] = IF Worthwhile(op, n) THEN "found" ELSE "done"
        /\ call'[h].op = op /\ call'[h].note = n
        /\ \A g \in Calls \ {h} : pc'[g] = pc[g] /\ call'[g] = call[g]
    BY <1>0, <2>2 DEF TypeOK
  <2>4. \A o, m : Worthwhile(o, m)' <=> Worthwhile(o, m)
    BY <2>2 DEF Worthwhile, IsNew, Exists
  <2>5. \A g \in Calls : pc'[g] = "found" => Worthwhile(call[g].op, call[g].note)'
    BY <2>3, <2>4 DEF SerialInv
  <2>6. \A m \in Notes : /\ Agrees(m)' <=> Agrees(m)
                         /\ \A g \in Calls : Hides(g, m)' <=> Hides(g, m)
    BY <2>2, <2>3 DEF Agrees, Hides
  <2>7. (\A g \in Calls : pc'[g] # "failed") => \A g \in Calls : pc[g] # "failed"
    BY <2>2, <2>3
  <2>8. \A g \in Calls : pc'[g] = "written" => g # h
    BY <2>3
  <2>. QED  BY <2>2, <2>3, <2>5, <2>6, <2>7, <2>8 DEF SerialInv
<1>3. CASE MarkAllRead(h)
  <2>1. /\ pc'[h] \in {"written", "done"} /\ call'[h].op = "read_all" /\ pc[h] = "new"
        /\ \A g \in Calls \ {h} : pc'[g] = pc[g] /\ call'[g] = call[g]
        /\ createdAt' = createdAt /\ dismissedAt' = dismissedAt /\ hidden' = hidden
    BY <1>0, <1>3 DEF MarkAllRead, MarkThese, TypeOK
  <2>2. pc'[h] = "done" => readAt' = readAt
    BY <1>0, <1>3 DEF MarkAllRead, MarkThese, TypeOK
  <2>3. \A g \in Calls \ {h} : pc'[g] \in InFlight => readAt' = readAt
    BY <2>1, <2>2 DEF OneInFlight, InFlight
  <2>4. \A g \in Calls : pc'[g] = "found" => Worthwhile(call[g].op, call[g].note)'
    BY <2>1, <2>3 DEF SerialInv, InFlight, Worthwhile, IsNew, Exists
  <2>5. \A m \in Notes : /\ Agrees(m)' <=> Agrees(m)
                         /\ \A g \in Calls : Hides(g, m)' <=> Hides(g, m)
    BY <2>1 DEF Agrees, Hides
  <2>6. (\A g \in Calls : pc'[g] # "failed") => \A g \in Calls : pc[g] # "failed"
    BY <2>1
  <2>. QED  BY <2>1, <2>3, <2>4, <2>5, <2>6 DEF SerialInv, InFlight
<1>. QED  BY <1>2, <1>3

LEMMA SerialWrites ==
  ASSUME IInv, SerialInv, NEW h \in Calls, MarkRead(h) \/ MarkDismissed(h) \/ ClearDismissed(h)
  PROVE  SerialInv'
<1> DEFINE op == call[h].op
           n == call[h].note
<1>1. /\ TypeOK /\ pc[h] = "found" /\ n \in Notes /\ Worthwhile(op, n)
      /\ \A g \in Calls \ {h} : pc[g] \notin InFlight
  <2>1. TypeOK /\ pc[h] = "found" /\ n \in Notes
    BY Writes DEF IInv
  <2>. QED  BY <2>1 DEF SerialInv, OneInFlight, InFlight
<1>2. /\ pc'[h] = "written" /\ call' = call /\ hidden' = hidden /\ createdAt' = createdAt
      /\ \A g \in Calls \ {h} : pc'[g] = pc[g]
  BY <1>1, Writes DEF Written, TypeOK
<1>3. \A g \in Calls : pc'[g] \in InFlight => g = h
  BY <1>1, <1>2
<1>4. \A g \in Calls, m \in Notes : ~Hides(g, m)
  BY <1>1 DEF Hides, InFlight
<1>5. (\A g \in Calls : pc'[g] # "failed") => \A m \in Notes : Agrees(m)
  BY <1>1, <1>2, <1>4 DEF SerialInv
<1>6. CASE MarkRead(h)
  <2>1. op = "read" /\ readAt'[n] = h /\ dismissedAt' = dismissedAt
    BY <1>1, <1>6 DEF MarkRead, MarkReadWhere, Writing, Worthwhile, TypeOK
  <2>2. \A m \in Notes : Agrees(m)' <=> Agrees(m)
    BY <1>2, <2>1 DEF Agrees
  <2>. QED  BY <1>2, <1>3, <1>5, <2>1, <2>2 DEF SerialInv, OneInFlight, InFlight
<1>7. CASE MarkDismissed(h) \/ ClearDismissed(h)
  <2>0. ASSUME MarkDismissed(h)
        PROVE  /\ op = "dismiss" /\ dismissedAt'[n] # Never
               /\ \A m \in Notes \ {n} : dismissedAt'[m] = dismissedAt[m]
    <3>1. op = "dismiss" /\ dismissedAt[n] = Never
      BY <1>1, <2>0 DEF MarkDismissed, DismissWhere, Writing, Worthwhile
    <3>2. dismissedAt' = [dismissedAt EXCEPT ![n] = h] /\ readAt' = readAt
      BY <2>0, <3>1 DEF MarkDismissed, DismissWhere
    <3>3. dismissedAt'[n] = h /\ \A m \in Notes \ {n} : dismissedAt'[m] = dismissedAt[m]
      BY <1>1, <3>2 DEF TypeOK
    <3>. QED  BY <3>1, <3>3, InboxAssumption
  <2>1. /\ (op = "dismiss" /\ dismissedAt'[n] # Never) \/ (op = "undismiss" /\ dismissedAt'[n] = Never)
        /\ \A m \in Notes \ {n} : dismissedAt'[m] = dismissedAt[m]
    <3>1. CASE ClearDismissed(h)
      <4>1. op = "undismiss" /\ dismissedAt' = [dismissedAt EXCEPT ![n] = Never]
        BY <3>1 DEF ClearDismissed, Writing
      <4>. QED  BY <1>1, <4>1 DEF TypeOK
    <3>. QED  BY <1>7, <2>0, <3>1
  <2>2. \A m \in Notes \ {n} : Agrees(m)' <=> Agrees(m)
    BY <1>2, <2>1 DEF Agrees
  <2>3. \A m \in Notes : m = n => Hides(h, m)'
    BY <1>2, <2>1 DEF Hides
  <2>4. (\A g \in Calls : pc'[g] # "failed") =>
          \A m \in Notes : Agrees(m)' \/ \E g \in Calls : Hides(g, m)'
    <3>1. ASSUME \A g \in Calls : pc'[g] # "failed", NEW m \in Notes
          PROVE  Agrees(m)' \/ \E g \in Calls : Hides(g, m)'
      BY <1>5, <2>2, <2>3, <3>1
    <3>. QED  BY <3>1
  <2>5. \A g \in Calls : pc'[g] = "found" => FALSE
    BY <1>2, <1>3 DEF InFlight
  <2>6. \A g \in Calls : pc'[g] = "written" => g = h
    BY <1>3 DEF InFlight
  <2>7. \A f, g \in Calls : pc'[f] \in InFlight /\ pc'[g] \in InFlight => f = g
    BY <1>3
  <2>. QED  BY <1>2, <2>1, <2>4, <2>5, <2>6, <2>7 DEF SerialInv, OneInFlight
<1>. QED  BY <1>6, <1>7

LEMMA SerialEnds ==
  ASSUME IInv, SerialInv, NEW h \in Calls, PublishToUser(h) \/ Fail(h)
  PROVE  SerialInv'
<1>1. /\ TypeOK /\ CallOK(h) /\ pc[h] \in InFlight /\ pc'[h] \in {"told", "failed"} /\ call' = call
      /\ createdAt' = createdAt /\ readAt' = readAt /\ dismissedAt' = dismissedAt
      /\ \A g \in Calls \ {h} : pc'[g] = pc[g]
  BY DEF IInv, TypeOK, PublishToUser, Fail, InFlight, rows
<1>2. \A g \in Calls : pc'[g] \notin InFlight
  BY <1>1 DEF SerialInv, OneInFlight, InFlight
<1>3. ASSUME \A g \in Calls : pc'[g] # "failed", NEW m \in Notes
      PROVE  Agrees(m)'
  <2>1. PublishToUser(h) /\ pc[h] = "written"
    BY <1>1, <1>3 DEF PublishToUser, Fail, TypeOK
  <2>2. \A g \in Calls : pc[g] # "failed"
    BY <1>1, <1>3 DEF InFlight
  <2>3. \A g \in Calls \ {h} : ~Hides(g, m)
    BY <1>1 DEF SerialInv, OneInFlight, Hides, InFlight
  <2>4. Agrees(m) \/ Hides(h, m)
    BY <2>2, <2>3 DEF SerialInv
  <2>5. CASE call[h].op = "dismiss"
    <3>1. hidden' = hidden \cup {call[h].note} /\ dismissedAt[call[h].note] # Never
      BY <2>1, <2>5 DEF PublishToUser, SerialInv
    <3>. QED  BY <1>1, <2>4, <3>1 DEF Agrees, Hides
  <2>6. CASE call[h].op = "undismiss"
    <3>1. hidden' = hidden \ {call[h].note} /\ dismissedAt[call[h].note] = Never
      BY <2>1, <2>6 DEF PublishToUser, SerialInv
    <3>. QED  BY <1>1, <2>4, <3>1 DEF Agrees, Hides
  <2>7. CASE call[h].op \in {"read", "read_all"}
    <3>1. hidden' = hidden
      BY <2>1, <2>7 DEF PublishToUser
    <3>. QED  BY <1>1, <2>4, <2>7, <3>1 DEF Agrees, Hides
  <2>. QED  BY <1>1, <2>1, <2>5, <2>6, <2>7 DEF CallOK
<1>4. /\ \A f, g \in Calls : pc'[f] \in InFlight /\ pc'[g] \in InFlight => f = g
      /\ \A g \in Calls : pc'[g] # "found" /\ pc'[g] # "written"
  BY <1>2 DEF InFlight
<1>. QED  BY <1>3, <1>4 DEF SerialInv, OneInFlight

LEMMA SerialStep ==
  ASSUME OneInFlight', IInv, SerialInv, [Next]_vars
  PROVE  SerialInv'
<1>1. ASSUME NEW n \in Notes, NEW t \in 0 .. MaxTime, Create(n, t)
      PROVE  SerialInv'
  <2>1. /\ pc' = pc /\ call' = call /\ readAt' = readAt /\ dismissedAt' = dismissedAt /\ hidden' = hidden
        /\ \A m \in Notes : Exists(m) => createdAt'[m] = createdAt[m]
    BY <1>1 DEF Create, IInv, TypeOK, Exists
  <2>2. \A m \in Notes : IsNew(m) => IsNew(m)'
    BY <2>1 DEF IsNew, Exists
  <2>3. \A g \in Calls : pc[g] = "found" => Worthwhile(call[g].op, call[g].note)'
    BY <2>1, <2>2 DEF IInv, CallOK, SerialInv, Worthwhile
  <2>4. /\ \A m \in Notes : Agrees(m)' <=> Agrees(m)
        /\ \A g \in Calls, m \in Notes : Hides(g, m)' <=> Hides(g, m)
    BY <2>1 DEF Agrees, Hides
  <2>. QED  BY <2>1, <2>3, <2>4 DEF SerialInv, OneInFlight
<1>2. CASE UNCHANGED vars
  BY <1>2 DEF vars, SerialInv, OneInFlight, Agrees, Hides, Worthwhile, IsNew, Exists
<1>3. ASSUME NEW h \in Calls, MarkAllRead(h) \/ \E op \in Ops, n \in Notes : FindByIdForUser(h, op, n)
      PROVE  SerialInv'
  BY <1>3, SerialBegins
<1>4. ASSUME NEW h \in Calls, Proceed(h) \/ Fail(h)
      PROVE  SerialInv'
  BY <1>4, SerialWrites, SerialEnds DEF Proceed
<1>. QED  BY <1>1, <1>2, <1>3, <1>4 DEF Next

LEMMA SerialInit == Init => SerialInv
BY InboxAssumption DEF Init, SerialInv, OneInFlight, InFlight, Agrees, Hides

LEMMA SerialHolds ==
  Spec /\ []OneInFlight => []SerialInv
<1>1. OneInFlight' /\ IInv /\ SerialInv /\ [Next]_vars => SerialInv'
  BY SerialStep
<1>. QED  BY <1>1, SerialInit, InvariantHolds, PTL DEF Spec

(* When calls come one after the other and none fails in the middle, what    *)
(* clients were told to hide is what is dismissed.                           *)
THEOREM SerialCallsSync ==
  Spec /\ []OneInFlight => []InSync
<1>1. ASSUME IInv, SerialInv, \A h \in Calls : pc[h] \in Settled
      PROVE  hidden = {n \in Notes : dismissedAt[n] # Never}
  <2>1. \A n \in Notes : Agrees(n)
    BY <1>1 DEF SerialInv, Settled, Hides
  <2>. QED  BY <1>1, <2>1 DEF Agrees, IInv, TypeOK
<1>2. IInv /\ SerialInv => InSync
  BY <1>1 DEF InSync
<1>. QED  BY <1>2, InvariantHolds, SerialHolds, PTL

(* When calls come one after the other, a reading is published with the time *)
(* the row bears.                                                            *)
THEOREM SerialReadEvents ==
  Spec /\ []OneInFlight => ReadEventIsTrue
<1>1. IInv /\ SerialInv /\ [Next]_vars => [ToldOfOwnReading]_vars
  BY CallStep DEF SerialInv, ToldOfOwnReading
<1>. QED  BY <1>1, InvariantHolds, SerialHolds, PTL DEF Spec, ReadEventIsTrue

-----------------------------------------------------------------------------
(* Pages *)

Got == listed \cup page

WalkInv ==
  /\ phase \in {"none", "on", "over"} /\ query \in Query
  /\ cursor \in [at : 0 .. MaxTime + 1, id : Notes \cup {0}]
  /\ page \subseteq Notes /\ listed \subseteq Notes /\ steady \subseteq Notes
  /\ \A n \in Got : Exists(n)
  /\ \A n \in steady : Matches(n)
  /\ phase = "none" => Got = {} /\ cursor = NoCursor
  /\ phase = "on" => /\ \A n \in Got : ~AfterCursor(n)
                     /\ \A n \in steady : ~AfterCursor(n) => n \in Got
  /\ phase = "over" => steady \subseteq Got
  /\ PagesDescend

(* An order on the rows, the one of the query *)
LEMMA BeforeOrders ==
  ASSUME TypeOK, NEW k \in Notes, NEW m \in Notes, NEW n \in Notes
  PROVE  /\ ~Before(n, n)
         /\ Before(k, m) /\ Before(m, n) => Before(k, n)
<1>1. /\ createdAt[k] \in Nat /\ createdAt[m] \in Nat /\ createdAt[n] \in Nat
      /\ k \in Nat /\ m \in Nat /\ n \in Nat
  BY InboxAssumption DEF TypeOK
<1>. QED  BY <1>1 DEF Before

(* Whatever comes before an item of a page is on it. *)
LEMMA TakeClosed ==
  ASSUME TypeOK, NEW S \in SUBSET Notes, NEW k \in Nat,
         NEW n \in Take(k, S), NEW m \in S, Before(m, n)
  PROVE  m \in Take(k, S)
<1> DEFINE A == {x \in S : Before(x, m)}
           B == {x \in S : Before(x, n)}
<1>1. n \in Notes /\ m \in Notes /\ Cardinality(B) < k
  BY DEF Take
<1>2. A \subseteq B
  BY <1>1, BeforeOrders
<1>3. IsFiniteSet(B)
  BY InboxAssumption, FS_Subset
<1>4. Cardinality(A) \in Nat /\ Cardinality(B) \in Nat /\ Cardinality(A) <= Cardinality(B)
  BY <1>2, <1>3, FS_Subset, FS_CardinalityType
<1>. QED  BY <1>1, <1>4 DEF Take

(* A page takes all there is when that is not more than its size. *)
LEMMA TakeAll ==
  ASSUME TypeOK, NEW S \in SUBSET Notes, NEW k \in Nat, Cardinality(S) <= k
  PROVE  Take(k, S) = S
<1> SUFFICES ASSUME NEW n \in S
             PROVE  Cardinality({m \in S : Before(m, n)}) < k
  BY DEF Take
<1> DEFINE B == {m \in S : Before(m, n)}
<1>1. IsFiniteSet(S)
  BY InboxAssumption, FS_Subset
<1>2. B \subseteq S \ {n}
  BY BeforeOrders
<1>3. IsFiniteSet(S \ {n}) /\ Cardinality(S \ {n}) = Cardinality(S) - 1
  BY <1>1, FS_RemoveElement
<1>4. Cardinality(B) <= Cardinality(S \ {n}) /\ Cardinality(B) \in Nat
  BY <1>2, <1>3, FS_Subset, FS_CardinalityType
<1>5. Cardinality(S) \in Nat
  BY <1>1, FS_CardinalityType
<1>. QED  BY <1>3, <1>4, <1>5

LEMMA ListKeeps ==
  ASSUME IInv, WalkInv, ListForUser
  PROVE  WalkInv'
<1> DEFINE found == {n \in Notes : Matches(n) /\ AfterCursor(n)}
           size == query.limit
<1>1. /\ TypeOK /\ phase = "on" /\ size \in Nat
      /\ page' = Take(size, found) /\ listed' = Got
      /\ UNCHANGED <<createdAt, readAt, dismissedAt, query, steady>>
  BY PagesAssumption DEF IInv, ListForUser, WalkInv, Query, vars, Got
<1>2. page' \subseteq found /\ found \subseteq Notes
  BY <1>1 DEF Take
<1>3. \A n \in Notes : createdAt[n] \in Nat /\ n \in Nat
  BY <1>1, InboxAssumption DEF TypeOK
<1>4. cursor.at \in Nat /\ cursor.id \in Nat
  <2>1. cursor \in [at : 0 .. MaxTime + 1, id : Notes \cup {0}]
    BY DEF WalkInv
  <2>2. cursor.at \in 0 .. MaxTime + 1 /\ cursor.id \in Notes \cup {0}
    BY <2>1
  <2>3. MaxTime \in Nat /\ Notes \subseteq Nat
    BY InboxAssumption
  <2>4. cursor.at \in Nat
    BY <2>2, <2>3
  <2>5. cursor.id \in Nat
    <3>1. 0 \in Nat
      OBVIOUS
    <3>2. Notes \cup {0} \subseteq Nat
      BY <2>3, <3>1, Zenon
    <3>. QED  BY <2>2, <3>2, Zenon
  <2>. QED  BY <2>4, <2>5
<1>5. \A m, n \in Notes : ~AfterCursor(m) /\ AfterCursor(n) => Before(m, n)
  BY <1>3, <1>4 DEF AfterCursor, Before
<1>6. \A n \in Got : n \in Notes /\ Exists(n) /\ ~AfterCursor(n)
  BY <1>1 DEF WalkInv, Got
<1>7. \A m \in Got, n \in page' : Before(m, n)
  BY <1>2, <1>5, <1>6
<1>8. /\ PagesDescend' /\ Got' = Got \cup page' /\ steady' = steady
      /\ page' \subseteq Notes /\ listed' \subseteq Notes /\ steady' \subseteq Notes /\ query' \in Query
      /\ \A n \in Got' : Exists(n)'
      /\ \A n \in steady' : Matches(n)'
  <2>1. \A n \in Notes : (Exists(n)' <=> Exists(n)) /\ (Matches(n)' <=> Matches(n))
    BY <1>1 DEF Exists, Matches
  <2>2. \A m, n \in Notes : Before(m, n)' <=> Before(m, n)
    BY <1>1 DEF Before
  <2>3. PagesDescend'
    BY <1>1, <1>2, <1>6, <1>7, <2>2 DEF PagesDescend
  <2>4. Got' = Got \cup page'
    BY <1>1 DEF Got
  <2>5. \A n \in Got \cup page' : n \in Notes /\ Exists(n)
    BY <1>2, <1>6 DEF Matches
  <2>. QED  BY <1>1, <1>2, <1>6, <2>1, <2>3, <2>4, <2>5 DEF WalkInv
<1>9. \A n \in steady : n \in Got \/ n \in found
  BY <1>1 DEF WalkInv
<1>10. CASE Cardinality(found) > size
  <2>1. PICK last \in page' : /\ \A n \in page' \ {last} : Before(n, last)
                              /\ cursor' = EncodeCursor(last) /\ phase' = phase
    BY <1>10 DEF ListForUser
  <2>2. last \in Notes /\ cursor'.at = createdAt[last] /\ cursor'.id = last
    BY <1>2, <2>1 DEF EncodeCursor
  <2>3. cursor' \in [at : 0 .. MaxTime + 1, id : Notes \cup {0}]
    BY <1>1, <2>1, <2>2, InboxAssumption DEF EncodeCursor, TypeOK
  <2>4. \A n \in Notes : ~AfterCursor(n)' <=> n = last \/ Before(n, last)
    BY <1>1, <1>3, <2>2 DEF AfterCursor, Before
  <2>5. \A n \in Got' : ~AfterCursor(n)'
    BY <1>2, <1>6, <1>7, <1>8, <2>1, <2>4
  <2>6. ASSUME NEW n \in steady', ~AfterCursor(n)'
        PROVE  n \in Got'
    <3>1. n \in Notes
      BY <1>8
    <3>2. CASE n \in Got
      BY <1>8, <3>2
    <3>3. CASE n \in found /\ Before(n, last)
      <4>1. last \in Take(size, found)
        BY <1>1, <2>1
      <4>2. n \in Take(size, found)
        BY <1>1, <1>2, <3>3, <4>1, TakeClosed
      <4>. QED  BY <1>1, <1>8, <4>2
    <3>4. CASE n = last
      BY <1>8, <2>1, <3>4
    <3>. QED  BY <1>8, <1>9, <2>4, <2>6, <3>1, <3>2, <3>3, <3>4
  <2>. QED  BY <1>1, <1>8, <2>1, <2>3, <2>5, <2>6 DEF WalkInv
<1>11. CASE ~(Cardinality(found) > size)
  <2>1. phase' = "over" /\ cursor' = cursor
    BY <1>11 DEF ListForUser
  <2>2. IsFiniteSet(found) /\ Cardinality(found) \in Nat
    BY <1>2, InboxAssumption, FS_Subset, FS_CardinalityType
  <2>3. page' = found
    BY <1>1, <1>2, <1>11, <2>2, TakeAll
  <2>4. steady' \subseteq Got'
    BY <1>8, <1>9, <2>3
  <2>. QED  BY <1>8, <2>1, <2>4 DEF WalkInv
<1>. QED  BY <1>10, <1>11

LEMMA StartKeeps ==
  ASSUME IInv, WalkInv, StartWalk
  PROVE  WalkInv'
<1>1. /\ TypeOK /\ phase = "none" /\ phase' = "on" /\ steady' = {n \in Notes : Matches(n)}
      /\ UNCHANGED <<createdAt, readAt, dismissedAt, query, cursor, page, listed>>
  BY DEF IInv, StartWalk, vars
<1>2. Got' = {} /\ Got = {} /\ cursor = NoCursor
  BY <1>1 DEF WalkInv, Got
<1>3. \A n \in Notes : AfterCursor(n)'
  BY <1>1, <1>2, InboxAssumption DEF AfterCursor, NoCursor, TypeOK
<1>4. \A n \in steady' : n \in Notes /\ Matches(n)'
  BY <1>1 DEF Matches, Exists
<1>5. PagesDescend'
  BY <1>2 DEF PagesDescend, Got
<1>. QED  BY <1>1, <1>2, <1>3, <1>4, <1>5 DEF WalkInv

LEMMA MeanwhileKeeps ==
  ASSUME IInv, WalkInv, Meanwhile
  PROVE  WalkInv'
<1>1. /\ UNCHANGED <<phase, query, cursor, page, listed>> /\ [Next]_vars
      /\ steady' = {n \in steady : Matches(n)'}
  BY DEF Meanwhile, walk
<1>2. \A n \in Notes : Exists(n) => createdAt'[n] = createdAt[n]
  BY <1>1, RowStep
<1>3. Got' = Got /\ \A n \in Got : n \in Notes /\ Exists(n)
  BY <1>1 DEF WalkInv, Got
<1>4. \A n \in Got : Exists(n)' /\ (AfterCursor(n)' <=> AfterCursor(n))
  BY <1>1, <1>2, <1>3 DEF Exists, AfterCursor
<1>5. \A n \in steady' : /\ n \in steady /\ n \in Notes /\ Matches(n)'
                         /\ AfterCursor(n)' <=> AfterCursor(n)
  BY <1>1, <1>2 DEF WalkInv, Matches, AfterCursor
<1>6. PagesDescend'
  <2>1. \A m \in listed, n \in page : Before(m, n)
    BY DEF WalkInv, PagesDescend
  <2>2. \A n \in listed \cup page : createdAt'[n] = createdAt[n]
    BY <1>2, <1>3 DEF Got
  <2>. QED  BY <1>1, <2>1, <2>2 DEF PagesDescend, Before
<1>. QED  BY <1>1, <1>3, <1>4, <1>5, <1>6 DEF WalkInv

LEMMA WalkInit == PInit => WalkInv
BY InboxAssumption DEF PInit, WalkInv, Got, PagesDescend, NoCursor

LEMMA WalkStep == IInv /\ WalkInv /\ [PNext]_pvars => WalkInv'
<1> SUFFICES ASSUME IInv, WalkInv, [PNext]_pvars
             PROVE  WalkInv'
  OBVIOUS
<1>1. CASE UNCHANGED pvars
  BY <1>1 DEF pvars, vars, walk, WalkInv, Got, PagesDescend, Before, Matches, Exists, AfterCursor
<1>. QED  BY <1>1, StartKeeps, ListKeeps, MeanwhileKeeps DEF PNext

LEMMA WalkHolds == PSpec => []IInv /\ []WalkInv
<1>1. [PNext]_pvars => [Next]_vars
  BY DEF PNext, pvars, StartWalk, ListForUser, Meanwhile
<1>2. PInit => Init
  BY DEF PInit
<1>. QED  BY <1>1, <1>2, InitHolds, NextKeeps, WalkInit, WalkStep, PTL DEF PSpec

(* Each page comes after all pages before it, so nothing is listed twice,    *)
(* though rows appear, are read and dismissed between two pages.             *)
THEOREM NoDuplicates == PSpec => []PagesDescend
<1>1. WalkInv => PagesDescend
  BY DEF WalkInv
<1>. QED  BY <1>1, WalkHolds, PTL

(* When there is no next cursor, whatever matched all along has been listed. *)
THEOREM Completeness == PSpec => []NothingIsSkipped
<1>1. WalkInv => NothingIsSkipped
  BY DEF WalkInv, NothingIsSkipped, Got
<1>. QED  BY <1>1, WalkHolds, PTL

-----------------------------------------------------------------------------
(* The scenarios that TLC runs *)

Serial == scenario = "serial"

NoUndoing == scenario = "noundo"

LEMMA ScenarioIsKept ==
  MCSpec => /\ PSpec /\ ([]Serial \/ []~Serial) /\ ([]NoUndoing \/ []~NoUndoing)
            /\ (Serial => []OneInFlight) /\ (NoUndoing => []NoUndo)
<1>1. MCInit => PInit /\ (Serial => OneInFlight) /\ (NoUndoing => NoUndo)
  BY DEF MCInit, InScenario, Serial, NoUndoing, OneInFlight, NoUndo
<1>2. [MCNext]_mcvars => /\ [PNext]_pvars
                         /\ (Serial => Serial') /\ (~Serial => ~Serial')
                         /\ (NoUndoing => NoUndoing') /\ (~NoUndoing => ~NoUndoing')
  BY DEF MCNext, mcvars, Serial, NoUndoing
<1>3. [MCNext]_mcvars /\ (Serial => OneInFlight) => (Serial => OneInFlight)'
  BY DEF MCNext, mcvars, pvars, vars, InScenario, Serial, OneInFlight
<1>4. [MCNext]_mcvars /\ (NoUndoing => NoUndo) => (NoUndoing => NoUndo)'
  BY DEF MCNext, mcvars, pvars, vars, InScenario, NoUndoing, NoUndo
<1>. QED  BY <1>1, <1>2, <1>3, <1>4, PTL DEF MCSpec, PSpec

LEMMA WalksAreCalls == PSpec => Spec
<1>1. PInit => Init
  BY DEF PInit
<1>2. [PNext]_pvars => [Next]_vars
  BY DEF PNext, pvars, StartWalk, ListForUser, Meanwhile
<1>. QED  BY <1>1, <1>2, PTL DEF PSpec, Spec

(* In the scenario of calls one after the other, clients hide what is        *)
(* dismissed.                                                                *)
THEOREM SerialScenarioSyncs == MCSpec => []SerialSync
<1>1. SerialSync <=> (Serial => InSync)
  BY DEF SerialSync, Serial
<1>. QED  BY <1>1, ScenarioIsKept, WalksAreCalls, SerialCallsSync, PTL

(* In the scenario without undismiss, no client is told that a notification  *)
(* was read which is still new.                                              *)
THEOREM ScenarioToldTruly == MCSpec => NoUndoToldTruly
<1>1. [ToldOfOldOne]_vars /\ [MCNext]_mcvars => [NoUndoing => ToldOfOldOne]_mcvars
  BY DEF MCNext, mcvars, pvars, vars, ToldOfOldOne
<1>2. (~NoUndoing) => [NoUndoing => ToldOfOldOne]_mcvars
  OBVIOUS
<1>. QED  BY <1>1, <1>2, ScenarioIsKept, WalksAreCalls, ToldWithoutUndo, PTL
             DEF MCSpec, ToldOfNoNewOne, NoUndoToldTruly, NoUndoing
=============================================================================
