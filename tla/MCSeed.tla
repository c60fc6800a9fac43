--------------------------------- MODULE MCSeed ---------------------------------
(***************************************************************************)
(* A small instance of Seed for TLC: a seed with two permissions and the   *)
(* two roles that accounts are given. How it is run is chosen at the start *)
(* and kept:                                                               *)
(*   serial   three runs, one after the other, and a renaming;             *)
(*   overlap  two runs at once, and no renaming.                           *)
(***************************************************************************)
EXTENDS Seed, TLC

VARIABLE scenario

mcvars == <<seedVars, scenario>>

MCRolePermissions == [org_admin |-> {"users.read", "users.write"},
                      platform_superadmin |-> {"users.read"}]

MCSymmetry == Permutations(Runs) \cup Permutations(OrgIds)

MCInit == SeedInit /\ scenario \in {"serial", "overlap"}

OneAtATime == \A r, s \in Runs : AtWork(r) /\ AtWork(s) => r = s

MCNext ==
  /\ SeedNext
  /\ UNCHANGED scenario
  /\ scenario = "serial" => OneAtATime'
  /\ scenario = "overlap" => /\ Cardinality({s \in Runs : run'[s].pc # "idle"}) <= 2
                             /\ renames' = 0

MCSpec == MCInit /\ [][MCNext]_mcvars

-----------------------------------------------------------------------------
(* Properties of runs that do not overlap *)

(* A run that ends well mends what failed runs and administrators have left  *)
(* half done: everything of the seed is there, in one organisation.          *)
DoneIsWhole ==
  [][scenario = "serial" =>
       \A s \in Runs : run[s].pc # "done" /\ run'[s].pc = "done" /\ run'[s].kept =>
         Whole(run[s].org)']_mcvars

(* However often the seed is run, and wherever its runs fail, there is one   *)
(* building for each organisation, and one organisation and no more for      *)
(* each time it was renamed.                                                 *)
SeededOnce ==
  scenario = "serial" =>
    /\ Cardinality(DOMAIN orgs) <= 1 + renames
    /\ \A o \in DOMAIN orgs : Cardinality(InOrg(o)) <= 1

=================================================================================
