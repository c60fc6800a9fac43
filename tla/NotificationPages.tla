-------------------------- MODULE NotificationPages --------------------------
(***************************************************************************)
(* NotificationsService.listForUser: a client walks through the            *)
(* notifications of one user page by page, while the calls of              *)
(* NotificationInbox mark them and the dispatch adds to them.              *)
(*                                                                         *)
(* A row may become visible after one that bears a later time: inserts     *)
(* take their time before they commit.                                     *)
(***************************************************************************)
EXTENDS NotificationInbox

CONSTANTS
  Walker,   \* the user who reads
  Limits    \* page sizes asked for

ASSUME PagesAssumption == Limits \subseteq Nat \ {0}

VARIABLES
  phase,    \* of the walk: "none", "on" or "over"
  query,    \* the filters and the page size, the same for every page
  cursor,   \* where the next page begins
  page,     \* the notifications of the last page
  listed,   \* history: of the pages before it
  steady    \* history: those that have matched the filters all along

walk == <<phase, query, cursor, page, listed>>
pvars == <<vars, walk, steady>>

Query == [unreadOnly : BOOLEAN, includeDismissed : BOOLEAN, limit : Limits]

NoCursor == [at |-> MaxTime + 1, id |-> 0]

EncodeCursor(n) == [at |-> createdAt[n], id |-> n]

(* orderBy createdAt desc, id desc *)
Before(m, n) == createdAt[m] > createdAt[n] \/ (createdAt[m] = createdAt[n] /\ m > n)

(* Mutant of AfterCursor: ties are lost *)
AfterTime(n) == createdAt[n] < cursor.at

AfterCursor(n) == createdAt[n] < cursor.at \/ (createdAt[n] = cursor.at /\ n < cursor.id)

Matches(n) ==
  /\ Exists(n) /\ Owner[n] = Walker
  /\ query.unreadOnly => readAt[n] = Never
  /\ ~query.includeDismissed => dismissedAt[n] = Never

(* The first k of a set of notifications *)
Take(k, notes) == {n \in notes : Cardinality({m \in notes : Before(m, n)}) < k}

PInit ==
  /\ Init
  /\ phase = "none" /\ query \in Query /\ cursor = NoCursor
  /\ page = {} /\ listed = {} /\ steady = {}

StartWalk ==
  /\ phase = "none" /\ phase' = "on"
  /\ steady' = {n \in Notes : Matches(n)}
  /\ UNCHANGED <<vars, query, cursor, page, listed>>

(* One row more than the page is fetched, to see whether there is more. *)
ListForUser ==
  LET found == {n \in Notes : Matches(n) /\ AfterCursor(n)}
      hasMore == Cardinality(found) > query.limit
  IN
  /\ phase = "on"
  /\ page' = Take(query.limit, found)
  /\ listed' = listed \cup page
  /\ \/ /\ hasMore
        /\ \E last \in page' : /\ \A n \in page' \ {last} : Before(n, last)
                               /\ cursor' = EncodeCursor(last)
        /\ UNCHANGED phase
     \/ ~hasMore /\ phase' = "over" /\ UNCHANGED cursor
  /\ UNCHANGED <<vars, query, steady>>

(* Something happens between two pages. *)
Meanwhile ==
  /\ Next /\ UNCHANGED walk
  /\ steady' = {n \in steady : Matches(n)'}

PNext == StartWalk \/ ListForUser \/ Meanwhile

PSpec == PInit /\ [][PNext]_pvars

-----------------------------------------------------------------------------
(* Properties *)

PTypeOK ==
  /\ TypeOK
  /\ phase \in {"none", "on", "over"} /\ query \in Query
  /\ cursor \in [at : 0 .. MaxTime + 1, id : Notes \cup {0}]
  /\ page \subseteq Notes /\ listed \subseteq Notes /\ steady \subseteq Notes

(* "Ensure no duplicates across pages; ensure stable ordering even when      *)
(* createdAt ties": whatever is added, read or dismissed between two pages,  *)
(* each page comes after all before it.                                      *)
PagesDescend == \A m \in listed, n \in page : Before(m, n)

(* Whatever matched from the first page to the last was on one of them.      *)
NothingIsSkipped == phase = "over" => steady \subseteq listed \cup page
=============================================================================
