---------------------------- MODULE MCAccessControl ----------------------------
(***************************************************************************)
(* Small instances of the two components that replace a list of links, and *)
(* share no state: UnitAmenities, in the scenarios of MCUnitAmenities, and *)
(* AccessControl, with a user who has a role and is denied one of its      *)
(* permissions, while three changes are made and the permissions of the    *)
(* user are read once. What happens is chosen at the start and kept:       *)
(*   overlap   changes overlap and may fail;                               *)
(*   serial    one at a time, which may fail;                              *)
(*   opposite  they insert the same rows in opposite orders;               *)
(*   units     amenities of units are replaced, access is left alone.      *)
(***************************************************************************)
EXTENDS AccessControl, MCUnitAmenities

CONSTANTS u, r1, r2, read, write, h1, h2, h3

VARIABLE meeting

linksVars == <<vars, mcvars, meeting>>

Link(kind, owner, item, value) == [owner |-> <<kind, owner>>, item |-> item, value |-> value]

FirstAccess ==
  {Link("roles", u, r1, "LINK"), Link("permissions", r1, read, "LINK"),
   Link("permissions", r1, write, "LINK"), Link("overrides", u, write, "DENY")}

Change(mode, kind, owner, want) == [mode |-> mode, owner |-> <<kind, owner>>, want |-> want]

(* Every list of overrides denies "write".                                   *)
Agreeing ==
  {Change("replace", "roles", u, <<<<r2, "LINK">>>>),
   Change("add", "roles", u, <<<<r1, "LINK">>, <<r2, "LINK">>>>),
   Change("replace", "permissions", r1, <<<<write, "LINK">>, <<read, "LINK">>>>),
   Change("add", "permissions", r2, <<<<read, "LINK">>>>),
   Change("replace", "overrides", u, <<<<write, "DENY">>, <<read, "ALLOW">>>>),
   Change("replace", "overrides", u, <<<<read, "DENY">>, <<write, "DENY">>, <<write, "ALLOW">>>>)}

(* Also lists that take away, and one that is refused                        *)
Differing ==
  Agreeing \cup
  {Change("replace", "roles", u, <<>>), Change("replace", "permissions", r1, <<<<read, "LINK">>>>),
   Change("add", "permissions", r2, <<<<"unknown", "LINK">>>>)}

(* Lists that insert the same rows in opposite orders                        *)
Opposite ==
  {Change("add", "permissions", r2, <<<<write, "LINK">>, <<read, "LINK">>>>),
   Change("add", "permissions", r2, <<<<read, "LINK">>, <<write, "LINK">>>>),
   Change("replace", "permissions", r2, <<<<read, "LINK">>>>)}

Changes == [overlap |-> Agreeing, serial |-> Differing, opposite |-> Opposite]

MCChanges == UNION {Changes[k] : k \in DOMAIN Changes}

Begun(h) == txn[h].pc # "idle"

(* Calls are interchangeable: they are begun in one order. *)
InOrder == (Begun(h2) => Begun(h1)) /\ (Begun(h3) => Begun(h2))

LinksInit ==
  /\ Init /\ MCInit
  /\ meeting \in DOMAIN Changes \cup {"units"}
  /\ meeting # "units" => scenario = "count"

AccessChanges ==
  /\ Next
  /\ InOrder'
  /\ \A h \in Calls : txn'[h].pc \in Open => txn'[h].req \in Changes[meeting]
  /\ meeting = "serial" => Cardinality({h \in Calls : txn'[h].pc \in Open}) <= 1

LinksNext ==
  /\ UNCHANGED meeting
  /\ \/ meeting = "units" /\ MCNext /\ UNCHANGED vars
     \/ meeting # "units" /\ AccessChanges /\ UNCHANGED mcvars

LinksSpec == LinksInit /\ [][LinksNext]_linksVars
=============================================================================
