----------------------------- MODULE AuthSessions -----------------------------
(***************************************************************************)
(* AuthService: register, login, refresh and changePassword, over the two  *)
(* hashes a user's row holds.                                              *)
(*                                                                         *)
(* A call reads the row and decides by what it read, however long the      *)
(* verification takes; signs; stores; and answers after two more queries.  *)
(* A refresh token says whose it is and in which second it was signed, and *)
(* nothing else: two signed in one second are the same token.  A hash is   *)
(* modelled by what it is the hash of.                                     *)
(***************************************************************************)
EXTENDS Naturals, FiniteSets

CONSTANTS
  Users,          \* emails
  Passwords,
  NoPassword,     \* there is no account
  FirstPassword,
  NoToken,
  Calls,
  MaxTime,        \* bound on the clock, in seconds
  Lifetime,       \* of a refresh token
  MaxOverlap,     \* bound on the calls in flight
  MayFail         \* queries may fail

Tokens == [user : Users, at : 0 .. MaxTime]

ASSUME AuthAssumption ==
  /\ NoPassword \notin Passwords /\ NoToken \notin Tokens
  /\ FirstPassword \in [Users -> Passwords \cup {NoPassword}]
  /\ MaxTime \in Nat /\ Lifetime \in Nat /\ IsFiniteSet(Calls)

VARIABLES
  password,       \* passwordHash
  mustChange,     \* mustChangePassword
  active,         \* isActive, which only the operators of the database change
  stored,         \* refreshTokenHash
  now,
  call,
  pc

account == <<password, mustChange, active, stored>>
vars == <<account, now, call, pc>>

InFlight == {"vacant", "verified", "issued", "saved"}

Init ==
  /\ password = FirstPassword
  /\ mustChange = [u \in Users |-> FirstPassword[u] # NoPassword]
  /\ active = Users
  /\ stored = [u \in Users |-> NoToken]
  /\ now = 0
  /\ call = [h \in Calls |-> [op |-> "none"]]
  /\ pc = [h \in Calls |-> "new"]

Exists(u) == password[u] # NoPassword

-----------------------------------------------------------------------------
Begin(h, c, next) ==
  /\ pc[h] = "new" /\ Cardinality({g \in Calls : pc[g] \in InFlight}) < MaxOverlap
  /\ call' = [call EXCEPT ![h] = c]
  /\ pc' = [pc EXCEPT ![h] = next]
  /\ UNCHANGED <<account, now>>

Register(h, u, p) ==
  Begin(h, [op |-> "register", user |-> u, given |-> p],
        IF Exists(u) THEN "refused" ELSE "vacant")

(* The unique index on the email decides between two that found it free. *)
CreateUser(h) ==
  LET c == call[h] IN
  /\ pc[h] = "vacant"
  /\ IF ~Exists(c.user)
     THEN /\ password' = [password EXCEPT ![c.user] = c.given]
          /\ mustChange' = [mustChange EXCEPT ![c.user] = FALSE]
          /\ pc' = [pc EXCEPT ![h] = "verified"]
     ELSE UNCHANGED <<password, mustChange>> /\ pc' = [pc EXCEPT ![h] = "failed"]
  /\ UNCHANGED <<active, stored, now, call>>

Verdict(ok) == IF ok THEN "verified" ELSE "refused"

Login(h, u, p) ==
  Begin(h, [op |-> "login", user |-> u, given |-> p],
        Verdict(u \in active /\ p = password[u]))

(* Mutant of Refresh: any token that verifies will do *)
RefreshUnstored(h, t) ==
  Begin(h, [op |-> "refresh", user |-> t.user, given |-> t], Verdict(now < t.at + Lifetime))

(* RefreshTokenGuard, and the comparison with the stored hash *)
Refresh(h, t) ==
  Begin(h, [op |-> "refresh", user |-> t.user, given |-> t],
        Verdict(now < t.at + Lifetime /\ stored[t.user] = t))

(* Mutant of ChangePassword: the session is enough *)
ChangeUnverified(h, u, p, q) ==
  Begin(h, [op |-> "change", user |-> u, given |-> p, fresh |-> q], Verdict(u \in active))

ChangePassword(h, u, p, q) ==
  Begin(h, [op |-> "change", user |-> u, given |-> p, fresh |-> q],
        Verdict(u \in active /\ p = password[u]))

UpdatePasswordHash(h) ==
  LET c == call[h] IN
  /\ pc[h] = "verified" /\ c.op = "change"
  /\ password' = [password EXCEPT ![c.user] = c.fresh]
  /\ mustChange' = [mustChange EXCEPT ![c.user] = FALSE]
  /\ pc' = [pc EXCEPT ![h] = "done"]
  /\ UNCHANGED <<active, stored, now, call>>

TokenOf(h) == [user |-> call[h].user, at |-> call[h].at]

Signed(h) == pc[h] \in {"issued", "saved", "done"} /\ call[h].op # "change"

IssueTokens(h) ==
  /\ pc[h] = "verified" /\ call[h].op # "change"
  /\ call' = [call EXCEPT ![h] = [op |-> @.op, user |-> @.user, given |-> @.given, at |-> now]]
  /\ pc' = [pc EXCEPT ![h] = "issued"]
  /\ UNCHANGED <<account, now>>

Save(h, t) ==
  /\ pc[h] = "issued"
  /\ stored' = [stored EXCEPT ![call[h].user] = t]
  /\ pc' = [pc EXCEPT ![h] = "saved"]
  /\ UNCHANGED <<password, mustChange, active, now, call>>

SaveRefreshToken(h) == Save(h, TokenOf(h))

(* The roles and assignments are read for the answer. *)
Answer(h) ==
  /\ pc[h] = "saved" /\ pc' = [pc EXCEPT ![h] = "done"]
  /\ UNCHANGED <<account, now, call>>

Fail(h) ==
  /\ MayFail /\ pc[h] \in InFlight /\ pc' = [pc EXCEPT ![h] = "failed"]
  /\ UNCHANGED <<account, now, call>>

Deactivate(u) ==
  /\ u \in active /\ active' = active \ {u}
  /\ UNCHANGED <<password, mustChange, stored, now, call, pc>>

Tick ==
  /\ now < MaxTime /\ now' = now + 1
  /\ UNCHANGED <<account, call, pc>>

-----------------------------------------------------------------------------
(* The tokens clients were given *)
Held == {TokenOf(h) : h \in {g \in Calls : Signed(g) /\ pc[g] = "done"}}

Next ==
  \/ \E h \in Calls :
       \/ \E u \in Users, p \in Passwords :
            Register(h, u, p) \/ Login(h, u, p) \/ \E q \in Passwords : ChangePassword(h, u, p, q)
       \/ \E t \in Held : Refresh(h, t)
       \/ CreateUser(h) \/ UpdatePasswordHash(h)
       \/ IssueTokens(h) \/ SaveRefreshToken(h) \/ Answer(h) \/ Fail(h)
  \/ \E u \in Users : Deactivate(u)
  \/ Tick

Spec == Init /\ [][Next]_vars

-----------------------------------------------------------------------------
(* Properties *)

Asked == [op : {"login", "register"}, user : Users, given : Passwords]
         \cup [op : {"refresh"}, user : Users, given : Tokens]

Call == Asked \cup [op : {"none"}]
        \cup [op : {"change"}, user : Users, given : Passwords, fresh : Passwords]
        \cup [op : {"login", "register"}, user : Users, given : Passwords, at : 0 .. MaxTime]
        \cup [op : {"refresh"}, user : Users, given : Tokens, at : 0 .. MaxTime]

TypeOK ==
  /\ password \in [Users -> Passwords \cup {NoPassword}]
  /\ mustChange \in [Users -> BOOLEAN] /\ active \subseteq Users
  /\ stored \in [Users -> Tokens \cup {NoToken}]
  /\ now \in 0 .. MaxTime
  /\ call \in [Calls -> Call]
  /\ pc \in [Calls -> InFlight \cup {"new", "done", "refused", "failed"}]

(* "Refresh tokens are ... rotated on refresh": each buys one pair of tokens *)
(* at most.                                                                  *)
RotatedOnce ==
  \A g, h \in {k \in Calls : Signed(k) /\ call[k].op = "refresh"} :
    call[g].given = call[h].given => g = h

(* Unless a call failed after it had signed, somebody holds the token whose  *)
(* hash is stored, whatever the order in which calls sign and store.         *)
SomeoneCanRefresh ==
  (\A h \in Calls : /\ pc[h] \notin InFlight
                    /\ pc[h] = "failed" => "at" \notin DOMAIN call[h]) =>
     \A u \in Users : stored[u] # NoToken => stored[u] \in Held

(* What a step does while calls do not overlap: only the current password    *)
(* changes the password, and only the current password or the last token     *)
(* stores a new token.                                                       *)
ByCurrentCredentials ==
  /\ \A u \in Users : password'[u] # password[u] /\ Exists(u) =>
       \E h \in Calls : pc'[h] # pc[h] /\ call[h].user = u /\ call[h].given = password[u]
  /\ \A u \in Users : stored'[u] # stored[u] =>
       \E h \in Calls : pc'[h] # pc[h] /\ call[h].user = u
                          /\ call[h].given \in {password[u], stored[u]}
=============================================================================
