----------------------- MODULE MCNotificationDispatch -----------------------
(***************************************************************************)
(* Small instances of the way of a notification: NotificationDispatch,     *)
(* from the event to the rows, and RealtimeGateway, from a published row   *)
(* to the sockets, in the scenarios of MCRealtimeGateway.  The two share   *)
(* no state.  What happens is chosen at the start and kept:                *)
(*   life     the life of a request up to four events, one dispatched      *)
(*            after another and without faults;                            *)
(*   pair     two events of any kind dispatched side by side, with faults; *)
(*   sockets  clients come and go while notifications are published.       *)
(***************************************************************************)
EXTENDS NotificationDispatch, MCRealtimeGateway

CONSTANTS res, tech, boss, other, o1, o2, b1

VARIABLE way

notifyVars == <<vars, mcvars, way>>

(* The last user is of another organisation. *)
MCUserOrg == [u \in Users |-> IF u = other THEN o2 ELSE o1]
MCBuildingOrg == [b \in Buildings |-> o1]
MCBuilding == [r \in Requests |-> b1]
MCCreator == [r \in Requests |-> res]

OneAfterAnother == Cardinality({e \in Events : pc[e] \in InFlight}) <= 1

NoFaultsNoComments ==
  \A e \in Events : /\ pc[e] \notin {"failed", "lost"}
                    /\ event[e].type # "commented"

NotifyInit ==
  /\ Init /\ MCInit
  /\ way \in {"life", "pair", "sockets"}
  /\ IF way = "sockets" THEN managers = {} /\ admins = {} ELSE scenario = "patient"

Dispatch ==
  /\ Next
  /\ way = "life" => OneAfterAnother' /\ NoFaultsNoComments'
  /\ way = "pair" => \A e \in Events : e > 2 => pc'[e] = "none"

NotifyNext ==
  /\ UNCHANGED way
  /\ \/ way = "sockets" /\ MCNext /\ UNCHANGED vars
     \/ way # "sockets" /\ Dispatch /\ UNCHANGED mcvars

NotifySpec == NotifyInit /\ [][NotifyNext]_notifyVars
=============================================================================
