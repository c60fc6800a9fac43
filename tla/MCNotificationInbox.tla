------------------------- MODULE MCNotificationInbox -------------------------
(***************************************************************************)
(* Small instances of NotificationInbox and NotificationPages for TLC.     *)
(* The scenario is chosen at the start and kept:                           *)
(*   any     three calls of two users overlap and may fail;                *)
(*   noundo  the same without undismiss;                                   *)
(*   serial  three calls of one user, one after the other;                 *)
(*   walk    one user walks through three notifications of two times,      *)
(*           while a call and new notifications come in between.           *)
(***************************************************************************)
EXTENDS NotificationPages

CONSTANTS u1, u2, h1, h2, h3, h4

VARIABLE scenario

mcvars == <<pvars, scenario>>

(* The first notification is of another user, and the last call by them. *)
MCOwner == [n \in Notes |-> IF n = 1 THEN u2 ELSE u1]
MCCaller == [h \in Calls |-> IF h = h4 THEN u2 ELSE u1]

Scenarios == {"any", "noundo", "serial", "walk"}

Present == [any |-> {1, 2, 3}, noundo |-> {1, 2, 3}, serial |-> {2, 3}, walk |-> {2, 3, 4}]
Calling == [any |-> {h1, h2, h4}, noundo |-> {h1, h2, h4}, serial |-> {h1, h2, h3}, walk |-> {h1}]

(* What takes part in a scenario *)
InScenario ==
  /\ \A n \in Notes : Exists(n) =>
       n \in Present[scenario] /\ (scenario # "walk" => createdAt[n] = 1)
  /\ \A h \in Calls : pc[h] # "new" => h \in Calling[scenario]
  /\ scenario = "noundo" => \A h \in Calls : call[h].op # "undismiss"
  /\ scenario \in {"serial", "walk"} =>
       \A g, h \in Calls : pc[g] \in InFlight /\ pc[h] \in InFlight => g = h
  /\ scenario = "walk" => \A h \in Calls : pc[h] # "failed"
  /\ scenario # "walk" =>
       /\ phase = "none"
       /\ query = [unreadOnly |-> TRUE, includeDismissed |-> FALSE, limit |-> 1]

MCInit == PInit /\ scenario \in Scenarios /\ InScenario

MCNext == PNext /\ UNCHANGED scenario /\ InScenario'

MCSpec == MCInit /\ [][MCNext]_mcvars

-----------------------------------------------------------------------------
(* Properties of one scenario *)

(* Without undismiss, a client told that a notification was read does not    *)
(* show as new one that is.                                                  *)
NoUndoToldTruly == [][scenario = "noundo" => ToldOfOldOne]_mcvars

(* After calls that do not overlap, clients hide exactly what is dismissed   *)
(* (docs/WEB_NOTIFICATIONS_NEXTJS.md, "for UI sync").                        *)
SerialSync == scenario = "serial" => InSync
=============================================================================
