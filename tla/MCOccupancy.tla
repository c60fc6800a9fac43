---------------------------- MODULE MCOccupancy ----------------------------
(***************************************************************************)
(* Small instances of Occupancy for TLC.  The scenario is chosen at the    *)
(* start and kept:                                                         *)
(*   serial   calls do not overlap; three people, two buildings;           *)
(*   overlap  two calls overlap, over two units of one building;           *)
(*   locked   the same, with the operations that lock the unit or read it. *)
(***************************************************************************)
EXTENDS Occupancy, TLC

CONSTANTS ann, bob, new, n1, n2, n3, b1, b2, r1, r2, r3, h1, h2

VARIABLE scenario

mcvars == <<vars, scenario>>

(* Two units of one building and one of another *)
MCUnitBuilding == [n \in Units |-> IF n = n3 THEN b2 ELSE b1]

LockingCalls == {"add", "move", "file"}

(* Rows are interchangeable: they are taken in one order. *)
RowsInOrder ==
  {i \in Rows : occupancy[i].status # "NONE"}
    \in {{}, {r1}, {r1, r2}, {r1, r2, r3}}

OneAtATime == Busy \subseteq {h1}

(* Two people, and a row for every call, while calls overlap *)
SmallCast ==
  /\ \A h \in Busy : txn[h].user \in {ann, new} /\ txn[h].unit \in {n1, n2}
  /\ Cardinality({i \in Rows : occupancy[i].status # "NONE"}) + Cardinality(Busy) <= 3

LocksOnly == \A h \in Busy : txn[h].op \in LockingCalls

MCInit == Init /\ scenario \in {"serial", "overlap", "locked"}

MCNext ==
  /\ Next
  /\ UNCHANGED scenario
  /\ RowsInOrder'
  /\ IF scenario = "serial" THEN OneAtATime' ELSE SmallCast'
  /\ scenario = "locked" => LocksOnly'

(* PostgreSQL queues those who wait for a row, so nobody waits for ever for  *)
(* a lock that keeps being released.  No step that would break a deadlock is *)
(* fair: Abort may happen, and need not.                                     *)
MCSpec ==
  /\ MCInit
  /\ [][MCNext]_mcvars
  /\ \A h \in Handlers : SF_mcvars(Serve(h) /\ MCNext)

-----------------------------------------------------------------------------
(* Properties of one scenario *)

(* Writers that lock the unit give it no second ACTIVE occupancy, however    *)
(* they overlap (Instructions/Phase4.md, "Only one ACTIVE occupancy per      *)
(* unit").                                                                   *)
LockedUnitsAreExclusive == scenario = "locked" => OneActivePerUnit

(* A request that overlaps no MOVE is filed for a unit its author lives in.  *)
FiledFromHome == [][scenario = "serial" => FiledFrom]_mcvars

(* Every call ends without the help of a timeout or of the breaker of        *)
(* deadlocks, whatever it holds and waits for: emails, units and rows.       *)
CallsEnd == \A h \in Handlers : txn[h].pc # "idle" ~> txn[h].pc = "idle"
=============================================================================
