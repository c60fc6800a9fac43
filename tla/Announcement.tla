---------------------------- MODULE Announcement ----------------------------
(***************************************************************************)
(* What a subscriber may rely on: an event is stored for one person after  *)
(* another, and either shown to all it was stored for, once, or to nobody. *)
(***************************************************************************)
CONSTANTS Events, People

VARIABLES
  phase,  \* "new", "open" while it is being stored, then "closed"
  told,   \* for whom it is stored
  shown   \* to whom it was shown

avars == <<phase, told, shown>>

Init ==
  /\ phase = [e \in Events |-> "new"]
  /\ told = [e \in Events |-> {}]
  /\ shown = [e \in Events |-> {}]

Open(e) ==
  /\ phase[e] = "new"
  /\ phase' = [phase EXCEPT ![e] = "open"]
  /\ UNCHANGED <<told, shown>>

Tell(e, u) ==
  /\ phase[e] = "open"
  /\ told' = [told EXCEPT ![e] = @ \cup {u}]
  /\ UNCHANGED <<phase, shown>>

Show(e) ==
  /\ phase[e] = "open" /\ told[e] # {}
  /\ phase' = [phase EXCEPT ![e] = "closed"]
  /\ shown' = [shown EXCEPT ![e] = told[e]]
  /\ UNCHANGED told

(* Given up, several at once when the process dies *)
Drop(es) ==
  /\ \A e \in es : phase[e] = "open"
  /\ phase' = [e \in Events |-> IF e \in es THEN "closed" ELSE phase[e]]
  /\ UNCHANGED <<told, shown>>

Next ==
  \/ \E e \in Events : Open(e) \/ Show(e) \/ \E u \in People : Tell(e, u)
  \/ \E es \in SUBSET Events : Drop(es)

Spec == Init /\ [][Next]_avars
=============================================================================
