--------------------------- MODULE RealtimeGateway ---------------------------
(***************************************************************************)
(* NotificationsGateway: a socket is authenticated, joins the room of its  *)
(* user, and is told how many notifications are unread, while              *)
(* notifications are stored and published, clients leave, accounts change  *)
(* and the process restarts.                                               *)
(*                                                                         *)
(* handleConnection is cut at each await; a query is the moment the        *)
(* database answers, and the continuation that uses the answer a later     *)
(* step.  A client may leave at any moment; the handler carries on.        *)
(***************************************************************************)
EXTENDS Integers, FiniteSets

CONSTANTS
  GatewayUsers, Orgs,
  Sockets,
  Notes,        \* notifications
  NoteRoom,     \* the organisation and the recipient of each
  NoOrg, NoOne, NoRoom,
  FirstOrg,     \* organisations of the accounts at the start
  MaxRestarts

ASSUME GatewayAssumption ==
  /\ NoOrg \notin Orgs /\ NoOne \notin GatewayUsers /\ NoRoom \notin Orgs \X GatewayUsers
  /\ IsFiniteSet(Sockets)
  /\ \A n \in Notes : NoteRoom[n] \in Orgs \X GatewayUsers
  /\ FirstOrg \in [GatewayUsers -> Orgs \cup {NoOrg}]
  /\ MaxRestarts \in Nat

VARIABLES
  orgOf,           \* organisation of each account
  superadmins,     \* accounts with the role platform_superadmin
  unread,          \* notifications stored, neither read nor dismissed
  pending,         \* notifications whose publication is still to come
  missed,          \* notifications whose publication was given up
  sock,            \* the connections and their handlers
  connectedCount,
  restarts

accounts == <<orgOf, superadmins>>
notes == <<unread, pending, missed>>
gatewayVars == <<accounts, notes, sock, connectedCount, restarts>>

RoomForUser(org, user) == <<org, user>>

New == [pc |-> "new", open |-> FALSE, user |-> NoOne, org |-> NoOrg, override |-> NoOrg,
        data |-> NoRoom, joined |-> FALSE, counted |-> {}, shown |-> {}]

GatewayInit ==
  /\ orgOf = FirstOrg
  /\ superadmins = {u \in GatewayUsers : FirstOrg[u] = NoOrg}
  /\ unread = {} /\ pending = {} /\ missed = {}
  /\ sock = [s \in Sockets |-> New]
  /\ connectedCount = 0 /\ restarts = 0

-----------------------------------------------------------------------------
(* The handlers of a connection *)

Over == [New EXCEPT !.pc = "over"]

(* The client is gone; its handler, unless it has ended, carries on. *)
Gone(k) ==
  IF k.pc = "greeted" THEN Over
  ELSE [k EXCEPT !.open = FALSE, !.joined = FALSE, !.data = NoRoom, !.shown = {}]

Disconnect(s, k, counts) ==
  /\ sock' = [sock EXCEPT ![s] = k]
  /\ connectedCount' = IF counts /\ connectedCount > 0
                       THEN connectedCount - 1 ELSE connectedCount

(* Mutant of HandleDisconnect: nobody is discounted *)
DisconnectNone(s, k) == Disconnect(s, k, FALSE)

HandleDisconnect(s, k) == Disconnect(s, k, sock[s].data # NoRoom)

Continue(s, k) ==
  /\ sock' = [sock EXCEPT ![s] = k]
  /\ UNCHANGED <<accounts, notes, connectedCount, restarts>>

(* client.disconnect() does nothing to a client that has left. *)
Refuse(s) ==
  \/ ~sock[s].open /\ Continue(s, Over)
  \/ /\ sock[s].open /\ HandleDisconnect(s, Over)
     /\ UNCHANGED <<accounts, notes, restarts>>

(* A client presents a token, which bears the organisation its user had      *)
(* when it was issued, and may ask for an organisation.                      *)
Connect(s, user, org, override) ==
  /\ sock[s].pc = "new"
  /\ IF user = NoOne THEN org = NoOrg /\ override = NoOrg ELSE org \in {NoOrg, orgOf[user]}
  /\ Continue(s, [New EXCEPT !.pc = "verifying", !.open = TRUE,
                    !.user = user, !.org = org, !.override = override])

(* No such user, an inactive one, or a token that does not verify: NoOne *)
FindUser(s) ==
  LET k == sock[s] IN
  /\ k.pc = "verifying"
  /\ \/ (k.user \in GatewayUsers => k.org # orgOf[k.user]) /\ Refuse(s)
     \/ k.user \in GatewayUsers /\ k.org = orgOf[k.user]
        /\ \/ k.org # NoOrg /\ Continue(s, [k EXCEPT !.pc = "valid"])
           \/ k.org = NoOrg /\ k.override = NoOrg /\ Refuse(s)
           \/ k.org = NoOrg /\ k.override # NoOrg /\ Continue(s, [k EXCEPT !.pc = "roles"])

GetRoleKeys(s) ==
  LET k == sock[s] IN
  /\ k.pc = "roles"
  /\ \/ k.user \in superadmins /\ Continue(s, [k EXCEPT !.pc = "valid"])
     \/ k.user \notin superadmins /\ Refuse(s)

EffectiveOrg(k) == IF k.org # NoOrg THEN k.org ELSE k.override

(* A client that has left joins no room, but is counted. *)
Join(s) ==
  LET k == sock[s] IN
  /\ k.pc = "valid"
  /\ sock' = [sock EXCEPT ![s] = [k EXCEPT !.pc = "joined", !.joined = k.open,
                                    !.data = RoomForUser(EffectiveOrg(k), k.user)]]
  /\ connectedCount' = connectedCount + 1
  /\ UNCHANGED <<accounts, notes, restarts>>

UnreadOf(room) == {n \in unread : NoteRoom[n] = room}

(* The room a handler has joined, even if the socket's data is gone since *)
RoomOf(k) == RoomForUser(EffectiveOrg(k), k.user)

CountUnread(s) ==
  /\ sock[s].pc = "joined"
  /\ Continue(s, [sock[s] EXCEPT !.pc = "counted", !.counted = UnreadOf(RoomOf(sock[s]))])

Hello(s) ==
  /\ sock[s].pc = "counted"
  /\ Continue(s, IF sock[s].open THEN [sock[s] EXCEPT !.pc = "greeted"] ELSE Over)

(* A query fails: the catch clause. *)
FailHandshake(s) == sock[s].pc \in {"verifying", "roles", "joined"} /\ Refuse(s)

(* The client closes the connection, or it breaks. *)
Leave(s) ==
  /\ sock[s].open
  /\ HandleDisconnect(s, Gone(sock[s]))
  /\ UNCHANGED <<accounts, notes, restarts>>

-----------------------------------------------------------------------------
(* What happens around them *)

Around(rows) == rows /\ UNCHANGED <<accounts, sock, connectedCount, restarts>>

(* A notification is stored, or restored: a publication follows. *)
Store(n) ==
  /\ n \notin unread \cup pending /\ orgOf[NoteRoom[n][2]] = NoteRoom[n][1]
  /\ Around(unread' = unread \cup {n} /\ pending' = pending \cup {n} /\ UNCHANGED missed)

(* It is read or dismissed. *)
Clear(n) ==
  /\ n \in unread
  /\ Around(unread' = unread \ {n} /\ UNCHANGED <<pending, missed>>)

(* The dispatch fails between the insert and the publication. *)
GiveUp(n) ==
  /\ n \in pending
  /\ Around(pending' = pending \ {n} /\ missed' = missed \cup {n} /\ UNCHANGED unread)

PublishIn(n, members) ==
  /\ n \in pending /\ pending' = pending \ {n}
  /\ sock' = [s \in Sockets |-> IF s \in members
                THEN [sock[s] EXCEPT !.shown = @ \cup {n}] ELSE sock[s]]
  /\ UNCHANGED <<accounts, unread, missed, connectedCount, restarts>>

(* Mutant of PublishToUser: to those already greeted *)
PublishToGreeted(n) ==
  PublishIn(n, {s \in Sockets : sock[s].joined /\ sock[s].data = NoteRoom[n]
                                  /\ sock[s].pc = "greeted"})

PublishToUser(n) ==
  PublishIn(n, {s \in Sockets : sock[s].joined /\ sock[s].data = NoteRoom[n]})

Account == UNCHANGED <<notes, sock, connectedCount, restarts>>

(* Provisioning links an account without organisation; two calls that        *)
(* overlap may link it to one and then to another.                           *)
LinkAccount(u, o) ==
  /\ FirstOrg[u] = NoOrg /\ orgOf' = [orgOf EXCEPT ![u] = o]
  /\ UNCHANGED superadmins /\ Account

ReplaceUserRoles(u) ==
  /\ superadmins' = superadmins \ {u} /\ UNCHANGED orgOf /\ Account

(* Memory is lost: every connection and every publication under way. *)
Restart ==
  /\ restarts < MaxRestarts /\ restarts' = restarts + 1
  /\ sock' = [s \in Sockets |->
                IF sock[s].pc = "new" THEN New ELSE Over]
  /\ pending' = {} /\ connectedCount' = 0
  /\ UNCHANGED <<accounts, unread, missed>>

-----------------------------------------------------------------------------
Handle(s) ==
  FindUser(s) \/ GetRoleKeys(s) \/ Join(s) \/ CountUnread(s) \/ Hello(s)

GatewayNext ==
  \/ \E s \in Sockets :
       \/ \E u \in GatewayUsers \cup {NoOne}, o, ask \in Orgs \cup {NoOrg} : Connect(s, u, o, ask)
       \/ Handle(s) \/ FailHandshake(s) \/ Leave(s)
  \/ \E n \in Notes : Store(n) \/ Clear(n) \/ GiveUp(n) \/ PublishToUser(n)
  \/ \E u \in GatewayUsers : (\E o \in Orgs : LinkAccount(u, o)) \/ ReplaceUserRoles(u)
  \/ Restart

GatewaySpec == GatewayInit /\ [][GatewayNext]_gatewayVars

-----------------------------------------------------------------------------
(* Properties *)

Room == Orgs \X GatewayUsers

Socket == [pc : {"new", "verifying", "roles", "valid", "joined", "counted", "greeted", "over"},
           open : BOOLEAN, user : GatewayUsers \cup {NoOne}, org : Orgs \cup {NoOrg},
           override : Orgs \cup {NoOrg}, data : Room \cup {NoRoom}, joined : BOOLEAN,
           counted : SUBSET Notes, shown : SUBSET Notes]

GatewayTypeOK ==
  /\ orgOf \in [GatewayUsers -> Orgs \cup {NoOrg}] /\ superadmins \subseteq GatewayUsers
  /\ unread \subseteq Notes /\ pending \subseteq Notes /\ missed \subseteq Notes
  /\ sock \in [Sockets -> Socket]
  /\ connectedCount \in Nat /\ restarts \in 0 .. MaxRestarts

Members == {s \in Sockets : sock[s].joined}

(* The room is joined before the count is read: what is unread was counted   *)
(* in the hello or shown, whenever it was stored, unless its dispatch failed *)
(* or it is about to be published.                                           *)
NothingFallsBetween ==
  \A s \in Members : sock[s].pc = "greeted" =>
     UnreadOf(sock[s].data) \ (pending \cup missed) \subseteq sock[s].counted \cup sock[s].shown

(* The connection count is exact if no client leaves before it has joined:   *)
(* one that does is counted, and never discounted.                           *)
CountIsExact == connectedCount = Cardinality(Members)
=============================================================================
