---------------------------- MODULE MCUnitAmenities ----------------------------
(***************************************************************************)
(* Small instances of UnitAmenities for TLC, with two buildings: a unit    *)
(* with two amenities, a place for another unit, and a unit elsewhere with *)
(* an amenity of its own. What happens is chosen at the start and kept:    *)
(*   overlap  three calls overlap with the switching of an amenity;        *)
(*   locked   three calls overlap, and whoever updates amenities names a   *)
(*            column too;                                                  *)
(*   count    two counts of vacant units race with a creation and with     *)
(*            the letting of units.                                        *)
(***************************************************************************)
EXTENDS UnitAmenities, TLC

CONSTANTS u1, u2, v1, a1, a2, z1, here, there

VARIABLE scenario

mcvars == <<unitsVars, scenario>>

MCUnitBuilding == [u \in Units |-> IF u = v1 THEN there ELSE here]

MCAmenityBuilding == [a \in Amenities |-> IF a = z1 THEN there ELSE here]

MCFirstLabel == [u \in Units |-> IF u = u1 THEN "101" ELSE IF u = v1 THEN "1" ELSE NoLabel]

MCFirstLinks == {<<u1, a1>>}

Request(op, u, fields, amenities) ==
  [op |-> op, unit |-> u, fields |-> fields, amenities |-> amenities]

(* What clients send in each scenario *)
Sent ==
  [overlap |->
     {Request("create", u2, [label |-> "102"], Omitted),
      Request("create", u2, [label |-> "101"], {a2}),
      Request("update", u1, [label |-> "102"], {a1, a2}),
      Request("update", u1, <<>>, {a2}),
      Request("update", u1, <<>>, {z1}),
      Request("update", u1, [owner |-> "x"], Omitted)},
   locked |->
     {Request("update", u1, [owner |-> "x"], {a2}), Request("update", u1, [owner |-> "y"], {}),
      Request("update", u1, [type |-> "x"], {a1, a2}), Request("update", u1, [type |-> "y"], Omitted),
      Request("create", u2, [label |-> "102", owner |-> "x"], Omitted)},
   count |->
     {Request("create", u2, [label |-> "102"], Omitted)}]

MCRequests == UNION {Sent[k] : k \in DOMAIN Sent}

MCSymmetry == Permutations(Edits) \cup Permutations(Counts)

MCInit ==
  /\ UnitsInit
  /\ scenario \in DOMAIN Sent
  /\ scenario # "overlap" => default = {}

MCNext ==
  /\ UnitsNext
  /\ UNCHANGED scenario
  /\ \A h \in Edits : edit'[h].pc # "new" => edit'[h].req \in Sent[scenario]
  /\ scenario # "overlap" => UNCHANGED <<active, default>>
  /\ scenario # "count" => UNCHANGED <<occupied, count>>
  /\ scenario = "count" => Cardinality({h \in Edits : edit'[h].pc # "new"}) <= 1

MCSpec == MCInit /\ [][MCNext]_mcvars

-----------------------------------------------------------------------------
(* Properties of a scenario *)

(* "replace set transactionally": where whoever updates amenities names a    *)
(* column too, and so locks the unit, an update that commits leaves the unit *)
(* the amenities it names and no others.                                     *)
ReplacedExactly ==
  [][\A h \in Edits :
       scenario = "locked" /\ edit[h].pc = "committing" /\ edit'[h].pc = "done"
         /\ edit[h].req.op = "update" /\ edit[h].req.amenities # Omitted =>
           {l.link : l \in {k \in links' : k.link[1] = edit[h].req.unit}}
             = {edit[h].req.unit} \X edit[h].req.amenities]_mcvars
=============================================================================
