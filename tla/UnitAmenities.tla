----------------------------- MODULE UnitAmenities -----------------------------
(***************************************************************************)
(* The units of buildings, the catalog of each building's amenities, and   *)
(* the links between them: UnitsService.create, update and countVacant,    *)
(* BuildingAmenitiesService.update.                                        *)
(*                                                                         *)
(* What a call looks up is read before its transaction. A transaction is   *)
(* one step per statement that may wait: what it wrote is its own until it *)
(* commits. The rows of one INSERT are taken together here (the waiting of *)
(* two lists in opposite orders is in AccessControl).                      *)
(***************************************************************************)
EXTENDS Naturals, FiniteSets

CONSTANTS
  Units, Amenities, Buildings,
  UnitBuilding, AmenityBuilding,
  Labels, NoLabel,               \* a unit with NoLabel is not there
  Fields, Values,                \* columns that an update may name, what they hold
  FirstLabel, FirstAmenityLinks,
  Bodies,                        \* what clients send
  Edits, Counts,
  Switched, Rented,              \* amenities that are edited, units that are let
  MaxEdits,
  Omitted                        \* the request names no amenities

ASSUME UnitsAssumption ==
  /\ UnitBuilding \in [Units -> Buildings] /\ AmenityBuilding \in [Amenities -> Buildings]
  /\ Switched \subseteq Amenities /\ Rented \subseteq Units
  /\ NoLabel \notin Labels /\ FirstLabel \in [Units -> Labels \cup {NoLabel}]
  /\ \A u, v \in Units : u # v /\ UnitBuilding[u] = UnitBuilding[v] /\ FirstLabel[u] # NoLabel
                           => FirstLabel[u] # FirstLabel[v]
  /\ \A l \in FirstAmenityLinks :
       /\ l \in Units \X Amenities /\ FirstLabel[l[1]] # NoLabel
       /\ UnitBuilding[l[1]] = AmenityBuilding[l[2]]
  /\ \A r \in Bodies :
       /\ r.op \in {"create", "update"} /\ r.unit \in Units
       /\ r.amenities = Omitted \/ r.amenities \subseteq Amenities

VARIABLES
  label,      \* Unit.label
  data,       \* the other columns of a unit
  links,      \* committed rows of UnitAmenity, and who wrote them
  active,     \* amenities with isActive
  default,    \* amenities with isDefault
  occupied,   \* units with an active occupancy
  edit,       \* call
  count       \* one countVacant by call

unitRows == <<label, data, links>>
others == <<active, default, occupied, count>>
unitsVars == <<unitRows, others, edit>>

HoldsLinks == {"inserting", "committing"}

InTransaction == {"snapshot", "deleting"} \cup HoldsLinks

InFlight == {"defaults", "checking", "writing"} \cup InTransaction

UnitsInit ==
  /\ label = FirstLabel
  /\ data = [u \in Units |-> [f \in Fields |-> "none"]]
  /\ links = {[link |-> l, by |-> "first"] : l \in FirstAmenityLinks}
  /\ active = Amenities /\ default \in SUBSET Switched
  /\ occupied = {}
  /\ edit = [h \in Edits |-> [pc |-> "new"]]
  /\ count = [c \in Counts |-> [pc |-> "new"]]

Exists(u) == label[u] # NoLabel

LinksOf(u) == {l \in links : l.link[1] = u}

-----------------------------------------------------------------------------
(* The steps of one call *)

Goes(h, t) == edit' = [edit EXCEPT ![h] = t] /\ UNCHANGED others

To(h, next) == Goes(h, [edit[h] EXCEPT !.pc = next]) /\ UNCHANGED unitRows

Call(h, r) ==
  /\ edit[h].pc = "new" /\ Cardinality({g \in Edits : edit[g].pc \in InFlight}) < MaxEdits
  /\ (r.op = "update" => Exists(r.unit)) /\ (r.op = "create" => ~Exists(r.unit))
  /\ Goes(h, [pc |-> IF r.amenities # Omitted THEN "checking"
                     ELSE IF r.op = "create" THEN "defaults" ELSE "writing",
              req |-> r, chosen |-> IF r.amenities = Omitted THEN {} ELSE r.amenities,
              seen |-> {}, gone |-> {}, fresh |-> {}])
  /\ UNCHANGED unitRows

(* Active amenities of the building that are its defaults *)
GetDefaultAmenityIds(h) ==
  /\ edit[h].pc = "defaults"
  /\ Goes(h, [edit[h] EXCEPT !.pc = "checking",
                             !.chosen = {a \in active \cap default :
                                           AmenityBuilding[a] = UnitBuilding[edit[h].req.unit]}])
  /\ UNCHANGED unitRows

(* Mutant of Fits: any active amenity *)
FitsAnyBuilding(a, b) == a \in active

Fits(a, b) == a \in active /\ AmenityBuilding[a] = b

AssertAmenityIds(h) ==
  /\ edit[h].pc = "checking"
  /\ To(h, IF \A a \in edit[h].chosen : Fits(a, UnitBuilding[edit[h].req.unit])
           THEN "writing" ELSE "unfit")

-----------------------------------------------------------------------------
(* The transaction *)

Writes(h) == edit[h].pc \in InTransaction /\ edit[h].req.fields # <<>>

Names(r, f) == f \in DOMAIN r.fields

(* The label a transaction has written, and has to itself until it ends *)
HoldsLabel(g, b, l) ==
  Writes(g) /\ Names(edit[g].req, "label") /\ edit[g].req.fields["label"] = l
    /\ UnitBuilding[edit[g].req.unit] = b

LabelTaken(u, l) ==
  \E v \in Units \ {u} : UnitBuilding[v] = UnitBuilding[u] /\ label[v] = l

(* Mutant of RowFree: the row is not locked *)
RowNeverLocked(h, u) == TRUE

(* The lock on the unit's row *)
RowFree(h, u) == \A g \in Edits \ {h} : Writes(g) => edit[g].req.unit # u

(* INSERT, UPDATE or, if the request names no column, SELECT of the unit *)
WriteUnit(h) ==
  LET r == edit[h].req
      b == UnitBuilding[r.unit]
  IN
  /\ edit[h].pc = "writing"
  /\ (r.fields # <<>> => RowFree(h, r.unit))
  /\ (Names(r, "label") => \A g \in Edits \ {h} : ~HoldsLabel(g, b, r.fields["label"]))
  /\ To(h, IF (Names(r, "label") /\ LabelTaken(r.unit, r.fields["label"]))
              \/ (r.op = "create" /\ Exists(r.unit)) THEN "conflict"
           ELSE IF r.op = "update" /\ r.amenities # Omitted THEN "snapshot"
           ELSE "inserting")

(* The DELETE takes the links of its snapshot, and waits for those that *)
(* another transaction has deleted.                                     *)
SnapshotLinks(h) ==
  /\ edit[h].pc = "snapshot"
  /\ Goes(h, [edit[h] EXCEPT !.pc = "deleting", !.seen = LinksOf(edit[h].req.unit)])
  /\ UNCHANGED unitRows

DeleteLinks(h) ==
  /\ edit[h].pc = "deleting"
  /\ \A g \in Edits \ {h} : edit[g].pc \in HoldsLinks => edit[g].gone \cap edit[h].seen = {}
  /\ Goes(h, [edit[h] EXCEPT !.pc = "inserting", !.gone = edit[h].seen \cap links])
  /\ UNCHANGED unitRows

Desired(h) == {edit[h].req.unit} \X edit[h].chosen

(* createMany with skipDuplicates *)
InsertLinks(h) ==
  LET kept == {l.link : l \in links \ edit[h].gone} IN
  /\ edit[h].pc = "inserting"
  /\ \A g \in Edits \ {h} : edit[g].pc \in HoldsLinks =>
       Desired(h) \cap {l.link : l \in edit[g].gone \cup edit[g].fresh} = {}
  /\ Goes(h, [edit[h] EXCEPT !.pc = "committing",
                             !.fresh = {[link |-> k, by |-> h] : k \in Desired(h) \ kept}])
  /\ UNCHANGED unitRows

(* Mutant of MapUnitUpdate: every column, the others emptied *)
MapWholeUnit(d, fields) == [f \in Fields |-> IF f \in DOMAIN fields THEN fields[f] ELSE "none"]

MapUnitUpdate(d, fields) == [f \in Fields |-> IF f \in DOMAIN fields THEN fields[f] ELSE d[f]]

CommitUnit(h) ==
  LET r == edit[h].req IN
  /\ edit[h].pc = "committing"
  /\ label' = IF Names(r, "label") THEN [label EXCEPT ![r.unit] = r.fields["label"]] ELSE label
  /\ data' = [data EXCEPT ![r.unit] = MapUnitUpdate(@, r.fields)]
  /\ links' = (links \ edit[h].gone) \cup edit[h].fresh
  /\ Goes(h, [edit[h] EXCEPT !.pc = "done"])

-----------------------------------------------------------------------------
(* Around them *)

Elsewhere == UNCHANGED <<unitRows, edit>>

(* PATCH of an amenity, whose links stay *)
UpdateAmenity(a) ==
  /\ \/ active' \in {active \cup {a}, active \ {a}} /\ UNCHANGED default
     \/ default' \in {default \cup {a}, default \ {a}} /\ UNCHANGED active
  /\ Elsewhere /\ UNCHANGED <<occupied, count>>

(* Occupancies begin and end as in module Occupancy. *)
Occupy(u) ==
  /\ Exists(u) /\ occupied' = IF u \in occupied THEN occupied \ {u} ELSE occupied \cup {u}
  /\ Elsewhere /\ UNCHANGED <<active, default, count>>

UnitsIn(b) == {u \in Units : Exists(u) /\ UnitBuilding[u] = b}

Counting(c, k) == count' = [count EXCEPT ![c] = k] /\ Elsewhere /\ UNCHANGED <<active, default, occupied>>

CountVacant(c, b) ==
  /\ count[c].pc = "new"
  /\ Counting(c, [pc |-> "counting", building |-> b, left |-> {"total", "vacant"},
                  total |-> 0, vacant |-> 0, first |-> UnitsIn(b)])

VacantIn(b) == UnitsIn(b) \ occupied

(* Two queries, answered in either order *)
CountQuery(c, q) ==
  LET k == count[c] IN
  /\ k.pc = "counting" /\ q \in k.left
  /\ Counting(c, [k EXCEPT !.left = @ \ {q},
                           !.pc = IF k.left = {q} THEN "done" ELSE @,
                           !.total = IF q = "total" THEN Cardinality(UnitsIn(k.building)) ELSE @,
                           !.vacant = IF q = "vacant" THEN Cardinality(VacantIn(k.building)) ELSE @])

Handle(h) ==
  \/ GetDefaultAmenityIds(h) \/ AssertAmenityIds(h) \/ WriteUnit(h)
  \/ SnapshotLinks(h) \/ DeleteLinks(h) \/ InsertLinks(h) \/ CommitUnit(h)

UnitsNext ==
  \/ \E h \in Edits : (\E r \in Bodies : Call(h, r)) \/ Handle(h)
  \/ \E a \in Switched : UpdateAmenity(a)
  \/ \E u \in Rented : Occupy(u)
  \/ \E c \in Counts : (\E b \in Buildings : CountVacant(c, b)) \/ (\E q \in {"total", "vacant"} : CountQuery(c, q))

UnitsSpec == UnitsInit /\ [][UnitsNext]_unitsVars

-----------------------------------------------------------------------------
(* Properties *)

UnitsTypeOK ==
  /\ label \in [Units -> Labels \cup {NoLabel}]
  /\ data \in [Units -> [Fields -> Values \cup {"none"}]]
  /\ \A l \in links : l.link \in Units \X Amenities /\ Exists(l.link[1])
  /\ \A k, l \in links : k.link = l.link => k = l
  /\ \A u, v \in Units : u # v /\ UnitBuilding[u] = UnitBuilding[v] /\ Exists(u) => label[u] # label[v]

(* "cannot attach an amenity from Building A to a Unit in Building B"        *)
LinkedWithinBuilding ==
  \A l \in links : UnitBuilding[l.link[1]] = AmenityBuilding[l.link[2]]

(* Updates that name different columns do not undo each other, whatever they *)
(* have read: what only one of them names is as it says.                     *)
UpdatesMerge ==
  \A h \in Edits : \A f \in Fields :
    edit[h].pc = "done" /\ Names(edit[h].req, f)
      /\ (\A g \in Edits \ {h} : edit[g].pc = "done" /\ edit[g].req.unit = edit[h].req.unit
                                   => ~Names(edit[g].req, f))
    => data[edit[h].req.unit][f] = edit[h].req.fields[f]

=============================================================================
