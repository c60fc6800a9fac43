-------------------------- MODULE RequestWorkflow --------------------------
(***************************************************************************)
(* What the documentation promises of maintenance requests (README.md,     *)
(* "Status transitions"; docs/API.md): one atomic step per operation, with *)
(* no handlers, snapshots or events.                                       *)
(***************************************************************************)
CONSTANTS Requests, Workers, NoUser

VARIABLES
  status,   \* "NONE" until the request is created
  worker    \* the member of staff assigned, or NoUser

wvars == <<status, worker>>

Init ==
  /\ status = [r \in Requests |-> "NONE"]
  /\ worker = [r \in Requests |-> NoUser]

Move(r, from, to) ==
  /\ status[r] \in from
  /\ status' = [status EXCEPT ![r] = to]

Create(r) == Move(r, {"NONE"}, "OPEN") /\ UNCHANGED worker

(* Assigning names a worker; a request already assigned may be reassigned. *)
Assign(r, w) ==
  /\ Move(r, {"OPEN", "ASSIGNED"}, "ASSIGNED")
  /\ worker' = [worker EXCEPT ![r] = w]

Start(r) == Move(r, {"ASSIGNED"}, "IN_PROGRESS") /\ UNCHANGED worker

Complete(r) == Move(r, {"IN_PROGRESS"}, "COMPLETED") /\ UNCHANGED worker

Cancel(r) ==
  Move(r, {"OPEN", "ASSIGNED", "IN_PROGRESS"}, "CANCELED") /\ UNCHANGED worker

Next ==
  \E r \in Requests :
    \/ Create(r)
    \/ \E w \in Workers : Assign(r, w)
    \/ Start(r)
    \/ Complete(r)
    \/ Cancel(r)

Spec == Init /\ [][Next]_wvars
=============================================================================
