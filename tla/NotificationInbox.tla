-------------------------- MODULE NotificationInbox --------------------------
(***************************************************************************)
(* What users do with their notifications: NotificationsService.markRead,  *)
(* markAllRead, dismiss and undismiss.                                     *)
(*                                                                         *)
(* A call looks the row up, writes it with a guarded UPDATE, and then      *)
(* publishes; other calls and new notifications come in between.  A time   *)
(* is named after the call that took it.  Each UPDATE is one step: its     *)
(* guard is evaluated again on a row another call has just changed.        *)
(***************************************************************************)
EXTENDS Naturals, FiniteSets

CONSTANTS
  Notes,      \* ids of notifications: numbers, compared as the ids are
  Owner,      \* recipient of a notification
  Calls,
  Caller,     \* the user who makes a call
  Ops,        \* the operations that are called
  MaxTime,    \* bound on createdAt
  MaxOverlap, \* bound on the calls in flight
  MayFail,    \* queries may fail
  Never

AllOps == {"read", "read_all", "dismiss", "undismiss"}

ASSUME InboxAssumption ==
  /\ Notes \subseteq Nat /\ IsFiniteSet(Notes)
  /\ Never \notin Calls /\ IsFiniteSet(Calls)
  /\ Ops \subseteq AllOps
  /\ MaxTime \in Nat

VARIABLES
  createdAt,    \* 0 as long as there is no row
  readAt, dismissedAt,
  call,         \* the operation and its notification
  pc,
  hidden        \* notifications the recipient's clients were last told to hide

rows == <<createdAt, readAt, dismissedAt>>
vars == <<createdAt, readAt, dismissedAt, call, pc, hidden>>

Times == Calls \cup {Never}

InFlight == {"found", "written"}

Exists(n) == createdAt[n] # 0

IsNew(n) == Exists(n) /\ readAt[n] = Never /\ dismissedAt[n] = Never

Mine(h) == {n \in Notes : Exists(n) /\ Owner[n] = Caller[h]}

(* Notifications a client has loaded, nothing done with them yet *)
Init ==
  /\ createdAt \in [Notes -> 0 .. MaxTime]
  /\ readAt = [n \in Notes |-> Never]
  /\ dismissedAt = [n \in Notes |-> Never]
  /\ call = [h \in Calls |-> [op |-> "none"]]
  /\ pc = [h \in Calls |-> "new"]
  /\ hidden = {}

-----------------------------------------------------------------------------

(* The dispatch stores a notification. *)
Create(n, t) ==
  /\ ~Exists(n) /\ t # 0
  /\ createdAt' = [createdAt EXCEPT ![n] = t]
  /\ UNCHANGED <<readAt, dismissedAt, call, pc, hidden>>

(* Is there anything to write, going by the row that was found? *)
Worthwhile(op, n) ==
  \/ op = "read" /\ IsNew(n)
  \/ op = "dismiss" /\ dismissedAt[n] = Never
  \/ op = "undismiss" /\ dismissedAt[n] # Never

FindByIdForUser(h, op, n) ==
  /\ pc[h] = "new" /\ op # "read_all" /\ n \in Mine(h)
  /\ Cardinality({g \in Calls : pc[g] \in InFlight}) < MaxOverlap
  /\ call' = [call EXCEPT ![h] = [op |-> op, note |-> n]]
  /\ pc' = [pc EXCEPT ![h] = IF Worthwhile(op, n) THEN "found" ELSE "done"]
  /\ UNCHANGED <<rows, hidden>>

Writing(h, op) == pc[h] = "found" /\ call[h].op = op

Written(h) ==
  /\ pc' = [pc EXCEPT ![h] = "written"]
  /\ UNCHANGED <<createdAt, call, hidden>>

MarkReadWhere(h, unread) ==
  /\ Writing(h, "read") /\ Written(h)
  /\ readAt' = IF unread THEN [readAt EXCEPT ![call[h].note] = h] ELSE readAt
  /\ UNCHANGED dismissedAt

(* Mutants of MarkRead: the guard dropped; inverted *)
MarkReadAgain(h) == MarkReadWhere(h, TRUE)

MarkReadOnlyRead(h) == MarkReadWhere(h, readAt[call[h].note] # Never)

(* The call publishes afterwards even if the row has changed meanwhile. *)
MarkRead(h) == MarkReadWhere(h, IsNew(call[h].note))

MarkThese(h, notes, tell) ==
  /\ pc[h] = "new" /\ Cardinality({g \in Calls : pc[g] \in InFlight}) < MaxOverlap
  /\ readAt' = [n \in Notes |-> IF n \in notes THEN h ELSE readAt[n]]
  /\ call' = [call EXCEPT ![h] = [op |-> "read_all"]]
  /\ pc' = [pc EXCEPT ![h] = IF tell THEN "written" ELSE "done"]
  /\ UNCHANGED <<createdAt, dismissedAt, hidden>>

MarkAllRead(h) ==
  LET new == {n \in Mine(h) : IsNew(n)} IN MarkThese(h, new, new # {})

DismissWhere(h, shown) ==
  /\ Writing(h, "dismiss") /\ Written(h)
  /\ dismissedAt' = IF shown THEN [dismissedAt EXCEPT ![call[h].note] = h] ELSE dismissedAt
  /\ UNCHANGED readAt

MarkDismissed(h) == DismissWhere(h, dismissedAt[call[h].note] = Never)

ClearDismissed(h) ==
  /\ Writing(h, "undismiss") /\ Written(h)
  /\ dismissedAt' = [dismissedAt EXCEPT ![call[h].note] = Never]
  /\ UNCHANGED readAt

(* Mutant of PublishToUser: the restoring event is forgotten *)
PublishHidden(h) ==
  /\ pc[h] = "written"
  /\ pc' = [pc EXCEPT ![h] = "told"]
  /\ hidden' = IF call[h].op = "dismiss" THEN hidden \cup {call[h].note} ELSE hidden
  /\ UNCHANGED <<rows, call>>

PublishToUser(h) ==
  /\ pc[h] = "written"
  /\ pc' = [pc EXCEPT ![h] = "told"]
  /\ \/ call[h].op = "dismiss" /\ hidden' = hidden \cup {call[h].note}
     \/ call[h].op = "undismiss" /\ hidden' = hidden \ {call[h].note}
     \/ call[h].op \in {"read", "read_all"} /\ UNCHANGED hidden
  /\ UNCHANGED <<rows, call>>

(* A query fails, before or after its effect; the caller gets an error. *)
Fail(h) ==
  /\ MayFail /\ pc[h] \in InFlight
  /\ pc' = [pc EXCEPT ![h] = "failed"]
  /\ UNCHANGED <<rows, call, hidden>>

-----------------------------------------------------------------------------
Proceed(h) ==
  MarkRead(h) \/ MarkDismissed(h) \/ ClearDismissed(h) \/ PublishToUser(h)

Next ==
  \/ \E n \in Notes, t \in 0 .. MaxTime : Create(n, t)
  \/ \E h \in Calls :
       \/ \E op \in Ops, n \in Notes : FindByIdForUser(h, op, n)
       \/ "read_all" \in Ops /\ MarkAllRead(h)
       \/ Proceed(h) \/ Fail(h)

Spec == Init /\ [][Next]_vars

-----------------------------------------------------------------------------
(* Properties *)

Call == [op : AllOps \ {"read_all"}, note : Notes] \cup [op : {"none", "read_all"}]

TypeOK ==
  /\ createdAt \in [Notes -> 0 .. MaxTime]
  /\ readAt \in [Notes -> Times]
  /\ dismissedAt \in [Notes -> Times]
  /\ call \in [Calls -> Call]
  /\ pc \in [Calls -> {"new", "found", "written", "told", "done", "failed"}]
  /\ hidden \subseteq Notes

(* "Update readAt only if null (idempotent)": whoever overlaps, the first    *)
(* reading stands, and nothing that was dismissed becomes read.              *)
ReadIsOnce ==
  [][\A n \in Notes : readAt'[n] # readAt[n] => IsNew(n)]_vars

(* A second dismissal does not move the time of the first.                   *)
DismissalStands ==
  [][\A n \in Notes : dismissedAt[n] # Never => dismissedAt'[n] \in {Never, dismissedAt[n]}]_vars

(* Only its recipient changes a notification.                                *)
MarkedByOwner ==
  \A n \in Notes : \A h \in {readAt[n], dismissedAt[n]} \ {Never} : Caller[h] = Owner[n]

(* A client told that a notification was read does not show as new one that  *)
(* is: it was read, if not by this call, or dismissed.                       *)
ToldOfOldOne ==
  \A h \in Calls : pc'[h] = "told" /\ pc[h] # "told" /\ call[h].op = "read"
    => ~IsNew(call[h].note)

ToldOfNoNewOne == [][ToldOfOldOne]_vars

Settled == {"new", "told", "done"}

(* Once nothing is in flight, clients hide exactly what is dismissed.        *)
InSync ==
  (\A h \in Calls : pc[h] \in Settled) => hidden = {n \in Notes : dismissedAt[n] # Never}

(* "Emit notifications:read { id, readAt } ... after successful update"      *)
(* (Instructions/audit-notifications.md)                                     *)
ToldOfOwnReading ==
  \A h \in Calls : pc'[h] = "told" /\ pc[h] # "told" /\ call[h].op = "read"
    => readAt[call[h].note] = h

ReadEventIsTrue == [][ToldOfOwnReading]_vars
=============================================================================
