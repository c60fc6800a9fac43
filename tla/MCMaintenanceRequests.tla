----------------------- MODULE MCMaintenanceRequests -----------------------
(***************************************************************************)
(* Small instances of MaintenanceRequests for TLC.  The scenario is chosen *)
(* at the start and kept:                                                  *)
(*   serial      calls do not overlap, the status endpoint gets the        *)
(*               documented bodies, and the process stays up; everybody    *)
(*               takes part;                                               *)
(*   documented  overlapping calls of a smaller cast, documented bodies;   *)
(*   any         overlapping calls, any body, a crash at any point.        *)
(***************************************************************************)
EXTENDS MaintenanceRequests, FiniteSets, Naturals, TLC

CONSTANTS res, stf1, stf2, mgr, alien, gone, b1, b2, org1, org2

VARIABLE scenario

mcvars == <<vars, scenario>>

MCUsers == {res, stf1, stf2, mgr, alien, gone}
MCBuildings == {b1, b2}

(* b2 and the user called alien belong to another organisation. *)
MCUserOrg == [u \in MCUsers |-> IF u = alien THEN org2 ELSE org1]
MCBuildingOrg == [b \in MCBuildings |-> IF b = b2 THEN org2 ELSE org1]

(* mgr is STAFF as well as MANAGER: the stronger assignment counts. *)
MCAssignments == {<<stf1, b1, "STAFF">>, <<stf2, b1, "STAFF">>, <<gone, b1, "STAFF">>,
                  <<mgr, b1, "MANAGER">>, <<mgr, b1, "STAFF">>,
                  <<alien, b2, "BUILDING_ADMIN">>}

MCOccupied == [u \in MCUsers |-> IF u = res THEN {b1} ELSE {}]

(* Permissions are not tied to a building: stf2 and alien hold them all. *)
MCPermitted ==
  {stf2, alien} \X {"requests.assign", "requests.update_status", "requests.comment"}

(* docs/API.md: the body of the status endpoint *)
DocumentedBodies == {"IN_PROGRESS", "COMPLETED"}
AnyBody == Status

(* Handlers are interchangeable. *)
HandlerSymmetry == Permutations(Handlers)

-----------------------------------------------------------------------------
InFlight == {h \in Handlers : txn[h].pc # "idle"}

(* Who calls and who is assigned while calls overlap; of the calls that leave *)
(* the row alone, the building's comment stands for all.                     *)
SmallCast ==
  \A h \in InFlight : /\ txn[h].user \in {res, stf1, mgr}
                      /\ txn[h].staff \in {stf1, NoUser}
                      /\ txn[h].op \notin {"residentComment", "attach"}

(* While calls overlap only one text is used, for both fields of an edit. *)
PlainTexts ==
  LET plain == CHOOSE t \in Texts : TRUE
  IN  /\ \A r \in Requests, f \in Fields : row[r].text[f] \in {plain, NoText}
      /\ \A h \in InFlight : txn[h].edit \in {NoEdit, [f \in Fields |-> plain]}

OneAtATime == \A g, h \in InFlight : g = h

BodiesAreDocumented ==
  \A h \in InFlight : txn[h].op = "status" => txn[h].body \in DocumentedBodies

MCInit == Init /\ scenario \in {"serial", "documented", "any"}

MCNext ==
  /\ Serve \/ (scenario = "any" /\ Crash)
  /\ UNCHANGED scenario
  /\ IF scenario = "serial" THEN OneAtATime' ELSE SmallCast' /\ PlainTexts'
  /\ scenario # "any" => BodiesAreDocumented'

MCSpec == MCInit /\ [][MCNext]_mcvars

-----------------------------------------------------------------------------
(* Properties of one scenario *)

(* However handlers overlap, with the documented bodies work is under way    *)
(* only on requests that somebody is assigned to.                            *)
DocumentedWorkHasAssignee == scenario # "any" => WorkHasAssignee

(* After calls that do not overlap, subscribers know the current status.     *)
AnnouncedIsCurrent == scenario = "serial" => LastEventIsCurrent

(* Calls that do not overlap implement the workflow the documentation        *)
(* describes: every write of a row is one of its steps.                      *)
SerialWorkflow ==
  /\ Workflow!Init
  /\ [][scenario = "serial" =>
          Workflow!Next \/ UNCHANGED Workflow!wvars]_mcvars
=============================================================================
