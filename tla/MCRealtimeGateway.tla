-------------------------- MODULE MCRealtimeGateway --------------------------
(***************************************************************************)
(* Small instances of RealtimeGateway for TLC.  The scenario is chosen at  *)
(* the start and kept:                                                     *)
(*   rooms    one socket of a manager of one organisation or of a platform *)
(*            administrator, and notifications for both;                   *)
(*   crowd    three sockets of the manager, no notifications;              *)
(*   patient  the same, and no client leaves before it has joined.         *)
(***************************************************************************)
EXTENDS RealtimeGateway, TLC

CONSTANTS manager, platform, home, away, n1, n2, s1, s2, s3

VARIABLE scenario

mcvars == <<gatewayVars, scenario>>

MCUsers == {manager, platform}

MCFirstOrg == [u \in GatewayUsers |-> IF u = manager THEN home ELSE NoOrg]

MCNoteRoom == (n1 :> <<home, manager>>) @@ (n2 :> <<away, platform>>)

OneSocket == \A s \in Sockets \ {s1} : sock[s].pc = "new"

ManagersOnly ==
  /\ unread = {}
  /\ superadmins = {platform}
  /\ orgOf[platform] = NoOrg
  /\ \A s \in Sockets : sock[s].user # platform /\ sock[s].override \in {NoOrg, home}

(* Nobody is gone whose handler has yet to join the room. *)
Patient ==
  \A s \in Sockets : sock[s].pc \in {"verifying", "roles", "valid"} => sock[s].open

MCInit == GatewayInit /\ scenario \in {"rooms", "crowd", "patient"}

MCNext ==
  /\ GatewayNext
  /\ UNCHANGED scenario
  /\ IF scenario = "rooms" THEN OneSocket' ELSE ManagersOnly'
  /\ scenario = "patient" => Patient'

MCSpec == MCInit /\ [][MCNext]_mcvars

-----------------------------------------------------------------------------
(* Property of one scenario *)

(* The connection count is exact as long as no client leaves before it has   *)
(* joined its room, failed handshakes and restarts included.                 *)
PatientCountIsExact == scenario = "patient" => CountIsExact
=============================================================================
