-------------------------- MODULE AuthSessionsProofs --------------------------
(***************************************************************************)
(* What holds of sessions for any users, passwords and calls, and however  *)
(* long the clock runs.                                                    *)
(*                                                                         *)
(* However calls overlap, the token whose hash is stored was signed by a   *)
(* call that stored it (Backed), so somebody was given it unless that call *)
(* failed.                                                                 *)
(*                                                                         *)
(* Of calls that do not overlap, what a call has verified stays true until *)
(* it stores (Current).  If besides no two tokens are signed in one        *)
(* second, a token that was refreshed is never the stored one again        *)
(* (Spent), for the tokens stored later are signed by other calls than the *)
(* one that gave it (Given).                                               *)
(***************************************************************************)
EXTENDS MCAuthSessions, TLAPS

USE AuthAssumption

Points == InFlight \cup {"new", "done", "refused", "failed"}

(* What a call is at each point                                              *)
CallOK(h) ==
  /\ call[h] \in Call
  /\ pc[h] # "new" => call[h].op # "none"
  /\ pc[h] = "vacant" => call[h].op = "register"
  /\ pc[h] \in {"issued", "saved"} => call[h].op # "change" /\ "at" \in DOMAIN call[h]
  /\ pc[h] = "done" => call[h].op = "change" \/ "at" \in DOMAIN call[h]

Backer(h) ==
  /\ pc[h] \in {"saved", "done", "failed"} /\ call[h].op # "change"
  /\ "at" \in DOMAIN call[h]

Backed ==
  \A u \in Users : stored[u] # NoToken => \E h \in Calls : Backer(h) /\ stored[u] = TokenOf(h)

CallsOK == \A h \in Calls : CallOK(h)

-----------------------------------------------------------------------------
(* Types *)

(* The fields of a call by what is asked                                     *)
LEMMA CallFields ==
  ASSUME NEW c \in Call, c.op # "none"
  PROVE  /\ c.op \in {"login", "register", "refresh", "change"}
         /\ c.user \in Users
         /\ c.op \in {"login", "register"} => c.given \in Passwords
         /\ c.op = "refresh" => c.given \in Tokens
         /\ c.op = "change" => c.given \in Passwords /\ c.fresh \in Passwords
         /\ "at" \in DOMAIN c => c.op # "change" /\ c.at \in 0 .. MaxTime
BY DEF Call, Asked

LEMMA IssuedIs ==
  ASSUME NEW c \in Call, c.op \notin {"none", "change"}, NEW t \in 0 .. MaxTime
  PROVE  /\ [op |-> c.op, user |-> c.user, given |-> c.given, at |-> t] \in Call
         /\ "at" \in DOMAIN [op |-> c.op, user |-> c.user, given |-> c.given, at |-> t]
BY CallFields DEF Call

TypeInv == TypeOK /\ CallsOK

(* Calls begun: by anybody, with what they have                              *)
LEMMA BegunIs ==
  ASSUME NEW u \in Users
  PROVE  /\ \A op \in {"login", "register"}, p \in Passwords :
              [op |-> op, user |-> u, given |-> p] \in Call
         /\ \A t \in Tokens : [op |-> "refresh", user |-> u, given |-> t] \in Call
         /\ \A p, q \in Passwords :
              [op |-> "change", user |-> u, given |-> p, fresh |-> q] \in Call
BY DEF Call, Asked

(* What a client was given is a token                                        *)
LEMMA HeldIs ==
  ASSUME TypeInv
  PROVE  Held \subseteq Tokens
<1>1. ASSUME NEW h \in Calls, Signed(h), pc[h] = "done"
      PROVE  TokenOf(h) \in Tokens
  <2>1. CallOK(h)
    BY DEF TypeInv, CallsOK
  <2>2. call[h] \in Call /\ call[h].op # "none" /\ "at" \in DOMAIN call[h]
    BY <1>1, <2>1 DEF CallOK, Signed
  <2>. QED  BY <2>2, CallFields DEF TokenOf, Tokens
<1>. QED  BY <1>1 DEF Held

(* What a call that begins has verified                                      *)
Verified(c) ==
  /\ c.op \in {"login", "change"} => c.given = password[c.user]
  /\ c.op = "refresh" => c.given = stored[c.user] /\ c.given \in Held /\ c.given.user = c.user

(* The four ways to begin as one                                             *)
Beginning(h) ==
  \E c \in Call, next \in {"vacant", "verified", "refused"} :
    /\ c.op # "none" /\ "at" \notin DOMAIN c
    /\ next = "vacant" => c.op = "register"
    /\ next = "verified" => c.op # "register" /\ Verified(c)
    /\ Begin(h, c, next)

LEMMA BeginningIs ==
  ASSUME TypeInv, NEW h \in Calls,
         \/ \E u \in Users, p \in Passwords :
              Register(h, u, p) \/ Login(h, u, p) \/ \E q \in Passwords : ChangePassword(h, u, p, q)
         \/ \E t \in Held : Refresh(h, t)
  PROVE  Beginning(h)
<1>1. ASSUME NEW u \in Users, NEW p \in Passwords, Register(h, u, p)
      PROVE  Beginning(h)
  <2> DEFINE c == [op |-> "register", user |-> u, given |-> p]
             next == IF Exists(u) THEN "refused" ELSE "vacant"
  <2>1. c \in Call /\ c.op = "register" /\ "at" \notin DOMAIN c
    BY BegunIs
  <2>2. Begin(h, c, next) /\ next \in {"refused", "vacant"}
    BY <1>1 DEF Register
  <2> HIDE DEF c, next
  <2>. QED  BY <2>1, <2>2 DEF Beginning
<1>2. ASSUME NEW u \in Users, NEW p \in Passwords, Login(h, u, p)
      PROVE  Beginning(h)
  <2> DEFINE c == [op |-> "login", user |-> u, given |-> p]
             next == Verdict(u \in active /\ p = password[u])
  <2>1. c \in Call /\ c.op = "login" /\ c.user = u /\ c.given = p /\ "at" \notin DOMAIN c
    BY BegunIs
  <2>2. Begin(h, c, next) /\ next \in {"refused", "verified"}
        /\ (next = "verified" => p = password[u])
    BY <1>2 DEF Login, Verdict
  <2> HIDE DEF c, next
  <2>. QED  BY <2>1, <2>2 DEF Beginning, Verified
<1>3. ASSUME NEW u \in Users, NEW p \in Passwords, NEW q \in Passwords, ChangePassword(h, u, p, q)
      PROVE  Beginning(h)
  <2> DEFINE c == [op |-> "change", user |-> u, given |-> p, fresh |-> q]
             next == Verdict(u \in active /\ p = password[u])
  <2>1. c \in Call /\ c.op = "change" /\ c.user = u /\ c.given = p /\ "at" \notin DOMAIN c
    BY BegunIs
  <2>2. Begin(h, c, next) /\ next \in {"refused", "verified"}
        /\ (next = "verified" => p = password[u])
    BY <1>3 DEF ChangePassword, Verdict
  <2> HIDE DEF c, next
  <2>. QED  BY <2>1, <2>2 DEF Beginning, Verified
<1>4. ASSUME NEW t \in Held, Refresh(h, t)
      PROVE  Beginning(h)
  <2> DEFINE c == [op |-> "refresh", user |-> t.user, given |-> t]
             next == Verdict(now < t.at + Lifetime /\ stored[t.user] = t)
  <2>1. t \in Tokens /\ t.user \in Users
    BY HeldIs DEF Tokens
  <2>2. c \in Call /\ c.op = "refresh" /\ c.user = t.user /\ c.given = t /\ "at" \notin DOMAIN c
    BY <2>1, BegunIs
  <2>3. Begin(h, c, next) /\ next \in {"refused", "verified"}
        /\ (next = "verified" => stored[t.user] = t)
    BY <1>4 DEF Refresh, Verdict
  <2> HIDE DEF c, next
  <2>. QED  BY <2>2, <2>3 DEF Beginning, Verified
<1>. QED  BY <1>1, <1>2, <1>3, <1>4

(* Every step is one of these.                                               *)
LEMMA NextIs ==
  ASSUME TypeInv, Next
  PROVE  \/ \E h \in Calls :
              \/ Beginning(h) \/ CreateUser(h) \/ UpdatePasswordHash(h)
              \/ IssueTokens(h) \/ SaveRefreshToken(h) \/ Answer(h) \/ Fail(h)
         \/ (\E u \in Users : Deactivate(u)) \/ Tick
BY BeginningIs DEF Next

LEMMA TypeInit == Init => TypeInv
<1>1. ASSUME Init
      PROVE  TypeOK
  BY <1>1 DEF Init, TypeOK, Call
<1>2. ASSUME Init
      PROVE  CallsOK
  BY <1>2 DEF Init, CallsOK, CallOK, Call
<1>. QED  BY <1>1, <1>2 DEF TypeInv

(* One call moves, the others stay what they are.                            *)
LEMMA OneMoves ==
  ASSUME TypeInv, NEW h \in Calls, NEW c \in Call, NEW next \in Points,
         call' = [call EXCEPT ![h] = c], pc' = [pc EXCEPT ![h] = next]
  PROVE  /\ call'[h] = c /\ pc'[h] = next
         /\ \A g \in Calls \ {h} : call'[g] = call[g] /\ pc'[g] = pc[g]
         /\ call' \in [Calls -> Call] /\ pc' \in [Calls -> Points]
BY DEF TypeInv, TypeOK, Points

LEMMA StaysOK ==
  ASSUME CallsOK, NEW h \in Calls, CallOK(h)',
         \A g \in Calls \ {h} : call'[g] = call[g] /\ pc'[g] = pc[g]
  PROVE  CallsOK'
BY DEF CallsOK, CallOK

LEMMA TypeNext == TypeInv /\ [Next]_vars => TypeInv'
<1> SUFFICES ASSUME TypeInv, [Next]_vars
             PROVE  TypeInv'
  OBVIOUS
<1>1. ASSUME NEW h \in Calls, Beginning(h)
      PROVE  TypeInv'
  <2>1. PICK c \in Call, next \in {"vacant", "verified", "refused"} :
          /\ c.op # "none" /\ "at" \notin DOMAIN c
          /\ next = "vacant" => c.op = "register"
          /\ Begin(h, c, next)
    BY <1>1 DEF Beginning
  <2>2. /\ call' = [call EXCEPT ![h] = c] /\ pc' = [pc EXCEPT ![h] = next] /\ next \in Points
        /\ UNCHANGED <<account, now>>
    BY <2>1 DEF Begin, Points, InFlight
  <2>3. CallsOK'
    BY <2>1, <2>2, OneMoves, StaysOK DEF CallOK, TypeInv
  <2>4. TypeOK'
    BY <2>2, OneMoves DEF TypeInv, TypeOK, account, Points
  <2>. QED  BY <2>3, <2>4 DEF TypeInv
<1>2. ASSUME NEW h \in Calls, IssueTokens(h)
      PROVE  TypeInv'
  <2> DEFINE c == [op |-> call[h].op, user |-> call[h].user, given |-> call[h].given, at |-> now]
  <2>1. CallOK(h) /\ now \in 0 .. MaxTime /\ pc[h] = "verified" /\ call[h].op # "change"
    BY <1>2 DEF TypeInv, TypeOK, CallsOK, IssueTokens
  <2>2. c \in Call /\ "at" \in DOMAIN c /\ c.op = call[h].op /\ c.op \notin {"none", "change"}
    BY <2>1, IssuedIs DEF CallOK
  <2>3. call' = [call EXCEPT ![h] = c] /\ pc' = [pc EXCEPT ![h] = "issued"] /\ UNCHANGED <<account, now>>
    BY <1>2 DEF IssueTokens, TypeInv, TypeOK
  <2> HIDE DEF c
  <2>4. "issued" \in Points
    BY DEF Points, InFlight
  <2>5. CallsOK'
    BY <2>2, <2>3, <2>4, OneMoves, StaysOK DEF CallOK, TypeInv
  <2>6. TypeOK'
    BY <2>2, <2>3, <2>4, OneMoves DEF TypeInv, TypeOK, account, Points
  <2>. QED  BY <2>5, <2>6 DEF TypeInv
<1>3. ASSUME NEW h \in Calls,
             \/ CreateUser(h) \/ UpdatePasswordHash(h) \/ SaveRefreshToken(h)
             \/ Answer(h) \/ Fail(h)
      PROVE  TypeInv'
  <2>1. CallOK(h) /\ call[h] \in Call /\ pc \in [Calls -> Points] /\ call \in [Calls -> Call]
    BY DEF TypeInv, TypeOK, CallsOK, Points
  <2>2. call' = call /\ now' = now /\ active' = active
    BY <1>3 DEF CreateUser, UpdatePasswordHash, SaveRefreshToken, Save, Answer, Fail, account
  <2>3. PICK next \in Points : pc' = [pc EXCEPT ![h] = next]
    BY <1>3 DEF CreateUser, UpdatePasswordHash, SaveRefreshToken, Save, Answer, Fail, Points, InFlight
  <2>4. CallsOK'
    <3>1. CallOK(h)'
      BY <1>3, <2>1, <2>2
      DEF CreateUser, UpdatePasswordHash, SaveRefreshToken, Save, Answer, Fail, CallOK, InFlight
    <3>. QED  BY <2>1, <2>2, <2>3, <3>1, StaysOK DEF TypeInv
  <2>5. password' \in [Users -> Passwords \cup {NoPassword}] /\ mustChange' \in [Users -> BOOLEAN]
    <3>1. CASE CreateUser(h)
      <4>1. pc[h] = "vacant" /\ call[h].op = "register"
        BY <2>1, <3>1 DEF CreateUser, CallOK
      <4>2. call[h].given \in Passwords
        BY <2>1, <4>1, CallFields
      <4>. QED  BY <3>1, <4>2 DEF CreateUser, TypeInv, TypeOK
    <3>2. CASE UpdatePasswordHash(h)
      <4>1. call[h].op = "change"
        BY <3>2 DEF UpdatePasswordHash
      <4>2. call[h].fresh \in Passwords
        BY <2>1, <4>1, CallFields
      <4>. QED  BY <3>2, <4>2 DEF UpdatePasswordHash, TypeInv, TypeOK
    <3>3. CASE SaveRefreshToken(h) \/ Answer(h) \/ Fail(h)
      BY <3>3 DEF SaveRefreshToken, Save, Answer, Fail, account, TypeInv, TypeOK
    <3>. QED  BY <1>3, <3>1, <3>2, <3>3
  <2>6. stored' \in [Users -> Tokens \cup {NoToken}]
    <3>1. CASE SaveRefreshToken(h)
      <4>1. pc[h] = "issued"
        BY <3>1 DEF SaveRefreshToken, Save
      <4>2. call[h].op # "none" /\ "at" \in DOMAIN call[h]
        BY <2>1, <4>1 DEF CallOK
      <4>3. TokenOf(h) \in Tokens
        BY <2>1, <4>2, CallFields DEF TokenOf, Tokens
      <4>. QED  BY <3>1, <4>3 DEF SaveRefreshToken, Save, TypeInv, TypeOK
    <3>2. CASE ~SaveRefreshToken(h)
      BY <1>3, <3>2 DEF CreateUser, UpdatePasswordHash, Answer, Fail, account, TypeInv, TypeOK
    <3>. QED  BY <3>1, <3>2
  <2>7. pc' \in [Calls -> Points]
    BY <2>1, <2>3
  <2>8. TypeOK'
    BY <2>2, <2>5, <2>6, <2>7 DEF TypeInv, TypeOK, Points
  <2>. QED  BY <2>4, <2>8 DEF TypeInv
<1>4. CASE (\E u \in Users : Deactivate(u)) \/ Tick \/ UNCHANGED vars
  BY <1>4 DEF Deactivate, Tick, vars, account, TypeInv, TypeOK, CallsOK, CallOK
<1>. QED  BY <1>1, <1>2, <1>3, <1>4, NextIs

(* The row, the clock and the calls keep their types; only a registration    *)
(* waits to create a row, and what stores a token has signed it.             *)
THEOREM SessionTypes == Spec => []TypeInv
BY TypeInit, TypeNext, PTL DEF Spec

-----------------------------------------------------------------------------
(* The stored token *)

LEMMA BackedNext ==
  ASSUME TypeInv, Backed, [Next]_vars
  PROVE  Backed'
<1>1. CASE \E h \in Calls : SaveRefreshToken(h)
  <2>1. PICK h \in Calls : SaveRefreshToken(h)
    BY <1>1
  <2>2. CallOK(h) /\ pc[h] = "issued" /\ pc' = [pc EXCEPT ![h] = "saved"] /\ call' = call
        /\ stored' = [stored EXCEPT ![call[h].user] = TokenOf(h)]
    BY <2>1 DEF SaveRefreshToken, Save, TypeInv, CallsOK
  <2>3. Backer(h)' /\ TokenOf(h)' = TokenOf(h)
    BY <2>2 DEF CallOK, Backer, TokenOf, TypeInv, TypeOK
  <2>4. \A g \in Calls : Backer(g) => Backer(g)' /\ TokenOf(g)' = TokenOf(g)
    BY <2>2 DEF Backer, TokenOf, TypeInv, TypeOK
  <2>5. \A u \in Users : stored'[u] = stored[u] \/ stored'[u] = TokenOf(h)
    BY <2>2 DEF TypeInv, TypeOK
  <2>. QED  BY <2>3, <2>4, <2>5 DEF Backed
<1>2. CASE stored' = stored
  <2>1. ASSUME NEW g \in Calls, Backer(g)
        PROVE  Backer(g)' /\ TokenOf(g)' = TokenOf(g)
    <3>1. ASSUME NEW h \in Calls, Beginning(h) \/ IssueTokens(h)
          PROVE  call'[g] = call[g] /\ pc'[g] = pc[g]
      BY <2>1, <3>1 DEF Beginning, Begin, IssueTokens, Backer, TypeInv, TypeOK
    <3>2. ASSUME NEW h \in Calls,
                 CreateUser(h) \/ UpdatePasswordHash(h) \/ SaveRefreshToken(h)
          PROVE  call'[g] = call[g] /\ pc'[g] = pc[g]
      BY <2>1, <3>2 DEF CreateUser, UpdatePasswordHash, SaveRefreshToken, Save, Backer, TypeInv, TypeOK
    <3>3. ASSUME NEW h \in Calls, Answer(h) \/ Fail(h)
          PROVE  call'[g] = call[g] /\ (pc'[g] = pc[g] \/ pc'[g] \in {"done", "failed"})
      BY <2>1, <3>3 DEF Answer, Fail, Backer, TypeInv, TypeOK
    <3>4. ASSUME (\E u \in Users : Deactivate(u)) \/ Tick \/ UNCHANGED vars
          PROVE  call'[g] = call[g] /\ pc'[g] = pc[g]
      BY <3>4 DEF Deactivate, Tick, vars
    <3>5. call'[g] = call[g] /\ (pc'[g] = pc[g] \/ pc'[g] \in {"done", "failed"})
      BY <3>1, <3>2, <3>3, <3>4, NextIs
    <3>. QED  BY <2>1, <3>5 DEF Backer, TokenOf
  <2>. QED  BY <1>2, <2>1 DEF Backed
<1>3. stored' = stored \/ \E h \in Calls : SaveRefreshToken(h)
  <2>1. ASSUME NEW h \in Calls, Beginning(h)
        PROVE  stored' = stored
    BY <2>1 DEF Beginning, Begin, account
  <2>2. ASSUME NEW h \in Calls, CreateUser(h) \/ UpdatePasswordHash(h) \/ IssueTokens(h)
                                 \/ Answer(h) \/ Fail(h)
        PROVE  stored' = stored
    BY <2>2 DEF CreateUser, UpdatePasswordHash, IssueTokens, Answer, Fail, account
  <2>3. CASE (\E u \in Users : Deactivate(u)) \/ Tick \/ UNCHANGED vars
    BY <2>3 DEF Deactivate, Tick, vars, account
  <2>. QED  BY <2>1, <2>2, <2>3, NextIs
<1>. QED  BY <1>1, <1>2, <1>3

(* However calls overlap and whichever fail: unless one failed after it had  *)
(* signed, once all are over somebody holds the token that is stored.        *)
THEOREM StoredTokenIsHeld == Spec => []SomeoneCanRefresh
<1>1. Init => Backed
  BY DEF Init, Backed
<1>2. TypeInv /\ Backed /\ [Next]_vars => Backed'
  BY BackedNext
<1>3. TypeInv /\ Backed => SomeoneCanRefresh
  <2>1. ASSUME TypeInv, Backed, NEW u \in Users, stored[u] # NoToken,
               \A h \in Calls : /\ pc[h] \notin InFlight
                                /\ pc[h] = "failed" => "at" \notin DOMAIN call[h]
        PROVE  stored[u] \in Held
    <3>1. PICK h \in Calls : Backer(h) /\ stored[u] = TokenOf(h)
      BY <2>1 DEF Backed
    <3>2. pc[h] = "done" /\ Signed(h)
      BY <2>1, <3>1 DEF Backer, InFlight, Signed
    <3>. QED  BY <3>1, <3>2 DEF Held
  <2>. QED  BY <2>1 DEF SomeoneCanRefresh
<1>. QED  BY <1>1, <1>2, <1>3, SessionTypes, PTL DEF Spec

-----------------------------------------------------------------------------
(* Calls that do not overlap *)

(* What the calls in flight have verified is what the row holds.             *)
Current ==
  \A h \in Calls : pc[h] \in {"verified", "issued"} =>
    /\ call[h].op = "refresh" => call[h].given = stored[call[h].user]
    /\ call[h].op # "refresh" => call[h].given = password[call[h].user]

LEMMA CurrentNext ==
  ASSUME TypeInv, Current, OneAtATime, OneAtATime', [Next]_vars
  PROVE  Current'
<1>1. ASSUME NEW h \in Calls, Beginning(h)
      PROVE  Current'
  <2>1. PICK c \in Call, next \in {"vacant", "verified", "refused"} :
          /\ next = "verified" => c.op # "register" /\ Verified(c)
          /\ c.op # "none" /\ Begin(h, c, next)
    BY <1>1 DEF Beginning
  <2>2. /\ call' = [call EXCEPT ![h] = c] /\ pc' = [pc EXCEPT ![h] = next] /\ next \in Points
        /\ password' = password /\ stored' = stored
    BY <2>1 DEF Begin, Points, InFlight, account
  <2>3. c.op \in {"login", "register", "refresh", "change"}
    BY <2>1, CallFields
  <2>. QED  BY <2>1, <2>2, <2>3, OneMoves DEF Current, Verified
<1>2. ASSUME NEW h \in Calls, CreateUser(h) \/ UpdatePasswordHash(h) \/ SaveRefreshToken(h)
      PROVE  Current'
  <2>1. /\ call' = call /\ pc[h] \in InFlight /\ CallOK(h)
        /\ \A g \in Calls \ {h} : pc'[g] = pc[g]
    BY <1>2 DEF CreateUser, UpdatePasswordHash, SaveRefreshToken, Save, InFlight, TypeInv, CallsOK, TypeOK
  <2>2. \A g \in Calls \ {h} : pc'[g] \notin {"verified", "issued"}
    BY <2>1 DEF OneAtATime, InFlight
  <2>3. CASE CreateUser(h)
    <3>1. call[h].op = "register"
      BY <2>1, <2>3 DEF CreateUser, CallOK
    <3>2. call[h].user \in Users
      BY <2>1, <3>1, CallFields DEF CallOK
    <3>. QED  BY <2>1, <2>2, <2>3, <3>1, <3>2 DEF CreateUser, Current, TypeInv, TypeOK
  <2>4. CASE UpdatePasswordHash(h) \/ SaveRefreshToken(h)
    <3>1. pc'[h] \notin {"verified", "issued"}
      BY <2>4 DEF UpdatePasswordHash, SaveRefreshToken, Save, TypeInv, TypeOK
    <3>. QED  BY <2>2, <3>1 DEF Current
  <2>. QED  BY <1>2, <2>3, <2>4
<1>3. ASSUME NEW h \in Calls, IssueTokens(h)
      PROVE  Current'
  <2>1. /\ pc[h] = "verified" /\ pc'[h] = "issued" /\ password' = password /\ stored' = stored
        /\ call'[h].op = call[h].op /\ call'[h].user = call[h].user
        /\ call'[h].given = call[h].given
        /\ \A g \in Calls \ {h} : pc'[g] = pc[g] /\ call'[g] = call[g]
    BY <1>3 DEF IssueTokens, account, TypeInv, TypeOK
  <2>. QED  BY <2>1 DEF Current
<1>4. ASSUME NEW h \in Calls, Answer(h) \/ Fail(h)
      PROVE  Current'
  BY <1>4 DEF Answer, Fail, account, Current, TypeInv, TypeOK
<1>5. CASE (\E u \in Users : Deactivate(u)) \/ Tick \/ UNCHANGED vars
  BY <1>5 DEF Deactivate, Tick, vars, account, Current
<1>. QED  BY <1>1, <1>2, <1>3, <1>4, <1>5, NextIs

(* What may change a row that exists                                         *)
LEMMA StepIsByCurrent ==
  ASSUME TypeInv, Current, [Next]_vars
  PROVE  ByCurrentCredentials
<1>1. ASSUME NEW h \in Calls, CreateUser(h)
      PROVE  ByCurrentCredentials
  <2>1. \A u \in Users : Exists(u) => password'[u] = password[u]
    BY <1>1 DEF CreateUser, Exists, TypeInv, TypeOK
  <2>2. stored' = stored
    BY <1>1 DEF CreateUser
  <2>. QED  BY <2>1, <2>2 DEF ByCurrentCredentials
<1>2. ASSUME NEW h \in Calls, UpdatePasswordHash(h)
      PROVE  ByCurrentCredentials
  <2>1. /\ \A u \in Users : u # call[h].user => password'[u] = password[u]
        /\ pc'[h] # pc[h] /\ stored' = stored
    BY <1>2 DEF UpdatePasswordHash, TypeInv, TypeOK
  <2>2. call[h].given = password[call[h].user]
    BY <1>2 DEF UpdatePasswordHash, Current
  <2>. QED  BY <2>1, <2>2 DEF ByCurrentCredentials
<1>3. ASSUME NEW h \in Calls, SaveRefreshToken(h)
      PROVE  ByCurrentCredentials
  <2>1. /\ \A u \in Users : u # call[h].user => stored'[u] = stored[u]
        /\ pc'[h] # pc[h] /\ password' = password
    BY <1>3 DEF SaveRefreshToken, Save, TypeInv, TypeOK
  <2>2. call[h].given \in {password[call[h].user], stored[call[h].user]}
    BY <1>3 DEF SaveRefreshToken, Save, Current
  <2>. QED  BY <2>1, <2>2 DEF ByCurrentCredentials
<1>4. CASE password' = password /\ stored' = stored
  BY <1>4 DEF ByCurrentCredentials
<1>5. ASSUME NEW h \in Calls, Beginning(h) \/ IssueTokens(h) \/ Answer(h) \/ Fail(h)
      PROVE  password' = password /\ stored' = stored
  BY <1>5 DEF Beginning, Begin, IssueTokens, Answer, Fail, account
<1>6. CASE (\E u \in Users : Deactivate(u)) \/ Tick \/ UNCHANGED vars
  BY <1>4, <1>6 DEF Deactivate, Tick, vars, account
<1>. QED  BY <1>1, <1>2, <1>3, <1>4, <1>5, <1>6, NextIs

(* While calls do not overlap, only the current password changes a password, *)
(* and only it or the last token stores a new one.                           *)
THEOREM SerialChangesAreEntitled == Spec /\ []OneAtATime => [][ByCurrentCredentials]_vars
<1>1. Init => Current
  BY DEF Init, Current
<1>2. TypeInv /\ Current /\ OneAtATime /\ OneAtATime' /\ [Next]_vars => Current'
  BY CurrentNext
<1>3. TypeInv /\ Current /\ [Next]_vars => [ByCurrentCredentials]_vars
  BY StepIsByCurrent
<1>. QED  BY <1>1, <1>2, <1>3, SessionTypes, PTL DEF Spec

-----------------------------------------------------------------------------
(* Tokens signed in seconds of their own *)

Spends(h) == Signed(h) /\ call[h].op = "refresh"

(* Another call gave the token that a refresh has verified, to its user.     *)
Given(h) ==
  call[h].op = "refresh" /\ pc[h] \in {"verified", "issued", "saved", "done"} =>
    /\ call[h].given.user = call[h].user
    /\ \E g \in Calls : Signed(g) /\ pc[g] = "done" /\ TokenOf(g) = call[h].given

(* A token that was refreshed, and its successor stored, is no longer the    *)
(* stored one.                                                               *)
Spent(h) == Spends(h) /\ pc[h] # "issued" => stored[call[h].user] # call[h].given

SpentInv == \A h \in Calls : Given(h) /\ Spent(h)

(* A step that stores nothing                                                *)
LEMMA SpentKept ==
  ASSUME TypeInv, SpentInv, RotatedOnce, stored' = stored, NEW h \in Calls,
         \A g \in Calls \ {h} : call'[g] = call[g] /\ pc'[g] = pc[g],
         pc[h] # "done", Given(h)', Spent(h)',
         \A g \in Calls \ {h} : Spends(h)' /\ Spends(g) => call'[h].given # call[g].given
  PROVE  SpentInv' /\ RotatedOnce'
<1>1. \A g \in Calls : Signed(g) /\ pc[g] = "done" =>
        (Signed(g) /\ pc[g] = "done")' /\ TokenOf(g)' = TokenOf(g)
  BY DEF Signed, TokenOf
<1>2. ASSUME NEW k \in Calls \ {h}
      PROVE  Given(k)' /\ Spent(k)' /\ (Spends(k)' <=> Spends(k))
  BY <1>1, <1>2 DEF SpentInv, Given, Spent, Spends, Signed
<1>3. SpentInv'
  BY <1>2 DEF SpentInv
<1>4. RotatedOnce'
  BY <1>2 DEF RotatedOnce, Spends
<1>. QED  BY <1>3, <1>4

LEMMA SpentNext ==
  ASSUME TypeInv, Current, OneAtATime, OwnSecond, SpentInv, RotatedOnce, [Next]_vars
  PROVE  SpentInv' /\ RotatedOnce'
<1>1. ASSUME NEW h \in Calls, Beginning(h)
      PROVE  SpentInv' /\ RotatedOnce'
  <2>1. PICK c \in Call, next \in {"vacant", "verified", "refused"} :
          /\ next = "verified" => Verified(c)
          /\ Begin(h, c, next)
    BY <1>1 DEF Beginning
  <2>2. /\ pc[h] = "new" /\ stored' = stored /\ next \in Points
        /\ call' = [call EXCEPT ![h] = c] /\ pc' = [pc EXCEPT ![h] = next]
    BY <2>1 DEF Begin, Points, InFlight, account
  <2>3. /\ call'[h] = c /\ pc'[h] = next
        /\ \A g \in Calls \ {h} : call'[g] = call[g] /\ pc'[g] = pc[g]
    BY <2>2, OneMoves
  <2>4. ~Spends(h)'
    BY <2>3 DEF Spends, Signed
  <2>5. Given(h)'
    <3>1. ASSUME c.op = "refresh", next = "verified"
          PROVE  /\ c.given.user = c.user
                 /\ \E g \in Calls : Signed(g) /\ pc[g] = "done" /\ TokenOf(g) = c.given
      BY <2>1, <3>1 DEF Verified, Held
    <3>2. \A g \in Calls : Signed(g) /\ pc[g] = "done" =>
            (Signed(g) /\ pc[g] = "done")' /\ TokenOf(g)' = TokenOf(g)
      BY <2>2, <2>3 DEF Signed, TokenOf
    <3>. QED  BY <2>3, <3>1, <3>2 DEF Given
  <2>. QED  BY <2>2, <2>3, <2>4, <2>5, SpentKept DEF Spent
<1>2. ASSUME NEW h \in Calls,
             CreateUser(h) \/ UpdatePasswordHash(h) \/ Answer(h) \/ Fail(h)
      PROVE  SpentInv' /\ RotatedOnce'
  <2>1. /\ call' = call /\ stored' = stored /\ pc[h] \in InFlight
        /\ \A g \in Calls \ {h} : pc'[g] = pc[g]
    BY <1>2 DEF CreateUser, UpdatePasswordHash, Answer, Fail, account, InFlight, TypeInv, TypeOK
  <2>2. CASE Answer(h)
    <3>1. pc[h] = "saved" /\ pc'[h] = "done"
      BY <2>2 DEF Answer, TypeInv, TypeOK
    <3>2. Signed(h) <=> Signed(h)'
      BY <2>1, <3>1 DEF Signed
    <3>3. \A g \in Calls : Signed(g) /\ pc[g] = "done" =>
            (Signed(g) /\ pc[g] = "done")' /\ TokenOf(g)' = TokenOf(g)
      BY <2>1, <3>1 DEF Signed, TokenOf
    <3>4. Given(h)' /\ Spent(h)'
      BY <2>1, <3>1, <3>2, <3>3 DEF SpentInv, Given, Spent, Spends
    <3>5. \A g \in Calls \ {h} : Spends(h)' /\ Spends(g) => call'[h].given # call[g].given
      BY <2>1, <3>2 DEF Spends, RotatedOnce
    <3>. QED  BY <2>1, <3>1, <3>4, <3>5, SpentKept
  <2>3. CASE ~Answer(h)
    <3>1. pc[h] # "done" /\ ~Signed(h)' /\ Given(h)'
      <4>1. CASE CreateUser(h)
        <5>1. call[h].op = "register" /\ pc'[h] \in {"verified", "failed"}
          BY <4>1 DEF CreateUser, TypeInv, TypeOK, CallsOK, CallOK
        <5>. QED  BY <2>1, <5>1 DEF Signed, Given, InFlight
      <4>2. CASE UpdatePasswordHash(h)
        <5>1. call[h].op = "change"
          BY <4>2 DEF UpdatePasswordHash
        <5>. QED  BY <2>1, <5>1 DEF Signed, Given, InFlight
      <4>3. CASE Fail(h)
        <5>1. pc'[h] = "failed"
          BY <4>3 DEF Fail, TypeInv, TypeOK
        <5>. QED  BY <2>1, <5>1 DEF Signed, Given, InFlight
      <4>. QED  BY <1>2, <2>3, <4>1, <4>2, <4>3
    <3>. QED  BY <2>1, <3>1, SpentKept DEF Spent, Spends
  <2>. QED  BY <2>2, <2>3
<1>3. ASSUME NEW h \in Calls, IssueTokens(h)
      PROVE  SpentInv' /\ RotatedOnce'
  <2>1. /\ pc[h] = "verified" /\ pc'[h] = "issued" /\ stored' = stored
        /\ call'[h].op = call[h].op /\ call'[h].user = call[h].user
        /\ call'[h].given = call[h].given
        /\ \A g \in Calls \ {h} : pc'[g] = pc[g] /\ call'[g] = call[g]
    BY <1>3 DEF IssueTokens, account, TypeInv, TypeOK
  <2>2. \A g \in Calls : Signed(g) /\ pc[g] = "done" =>
          (Signed(g) /\ pc[g] = "done")' /\ TokenOf(g)' = TokenOf(g)
    BY <2>1 DEF Signed, TokenOf
  <2>3. Given(h)' /\ Spent(h)'
    BY <2>1, <2>2 DEF SpentInv, Given, Spent
  <2>4. ASSUME NEW g \in Calls \ {h}, Spends(g), call[h].op = "refresh",
               call[g].given = call[h].given
        PROVE  FALSE
    <3>1. pc[g] = "done"
      BY <2>1, <2>4 DEF OneAtATime, InFlight, Spends, Signed
    <3>2. call[g].user = call[h].user
      BY <2>1, <2>4, <3>1 DEF SpentInv, Given, Spends
    <3>3. stored[call[g].user] # call[g].given
      BY <2>4, <3>1 DEF SpentInv, Spent
    <3>4. call[h].given = stored[call[h].user]
      BY <2>1, <2>4 DEF Current
    <3>. QED  BY <2>4, <3>2, <3>3, <3>4
  <2>. QED  BY <2>1, <2>3, <2>4, SpentKept DEF Spends
<1>4. ASSUME NEW h \in Calls, SaveRefreshToken(h)
      PROVE  SpentInv' /\ RotatedOnce'
  <2>1. /\ pc[h] = "issued" /\ pc'[h] = "saved" /\ call' = call /\ CallOK(h)
        /\ \A g \in Calls \ {h} : pc'[g] = pc[g]
        /\ stored' = [stored EXCEPT ![call[h].user] = TokenOf(h)]
    BY <1>4 DEF SaveRefreshToken, Save, TypeInv, TypeOK, CallsOK
  <2>2. \A g \in Calls : Signed(g)' = Signed(g)
    BY <2>1 DEF Signed
  <2>3. ASSUME NEW k \in Calls, Spends(k)'
        PROVE  Spent(k)'
    <3>1. Spends(k) /\ Given(k)
      BY <2>1, <2>2, <2>3 DEF Spends, SpentInv
    <3>2. PICK g \in Calls : Signed(g) /\ pc[g] = "done" /\ TokenOf(g) = call[k].given
      BY <3>1 DEF Given, Spends, Signed
    <3>3. call[g].at # call[h].at
      BY <2>1, <3>2 DEF OwnSecond, Signed, CallOK
    <3>4. TokenOf(h) # call[k].given
      BY <3>2, <3>3 DEF TokenOf
    <3>5. k = h \/ pc[k] = "done"
      BY <2>1, <3>1 DEF OneAtATime, InFlight, Spends, Signed
    <3>6. k # h => stored[call[k].user] # call[k].given
      BY <2>1, <3>1, <3>5 DEF SpentInv, Spent
    <3>7. call[k].user \in Users
      BY <3>1, CallFields DEF Spends, TypeInv, CallsOK, CallOK
    <3>. QED  BY <2>1, <3>4, <3>6, <3>7 DEF Spent, TypeInv, TypeOK
  <2>4. ASSUME NEW k \in Calls
        PROVE  Given(k)'
    <3>1. Given(k)
      BY DEF SpentInv
    <3>2. call[k].op = "refresh" /\ pc'[k] \in {"verified", "issued", "saved", "done"} =>
            pc[k] \in {"verified", "issued", "saved", "done"}
      BY <2>1
    <3>3. \A g \in Calls : pc[g] = "done" => pc'[g] = "done"
      BY <2>1
    <3>. QED  BY <2>1, <2>2, <3>1, <3>2, <3>3 DEF Given, TokenOf
  <2>5. SpentInv'
    BY <2>3, <2>4 DEF SpentInv, Spent
  <2>6. RotatedOnce'
    BY <2>1, <2>2 DEF RotatedOnce
  <2>. QED  BY <2>5, <2>6
<1>5. CASE (\E u \in Users : Deactivate(u)) \/ Tick \/ UNCHANGED vars
  <2>1. call' = call /\ pc' = pc /\ stored' = stored
    BY <1>5 DEF Deactivate, Tick, vars, account
  <2>. QED  BY <2>1 DEF SpentInv, Given, Spent, Spends, Signed, TokenOf, RotatedOnce
<1>. QED  BY <1>1, <1>2, <1>3, <1>4, <1>5, NextIs

(* While calls do not overlap, and no two sign in one second, each refresh   *)
(* token buys one pair of tokens at most.                                    *)
THEOREM SerialRefreshesRotate ==
  Spec /\ []OneAtATime /\ []OwnSecond => []RotatedOnce
<1>1. Init => Current /\ SpentInv /\ RotatedOnce
  BY DEF Init, Current, SpentInv, Given, Spent, Spends, Signed, RotatedOnce
<1>2. TypeInv /\ Current /\ OneAtATime /\ OneAtATime' /\ [Next]_vars => Current'
  BY CurrentNext
<1>3. TypeInv /\ Current /\ OneAtATime /\ OwnSecond /\ SpentInv /\ RotatedOnce /\ [Next]_vars
        => SpentInv' /\ RotatedOnce'
  BY SpentNext
<1>. QED  BY <1>1, <1>2, <1>3, SessionTypes, PTL DEF Spec

-----------------------------------------------------------------------------
(* The scenarios *)

Serial == scenario = "serial"

LEMMA ScenarioIsKept ==
  MCSpec => /\ Spec
            /\ []Serial \/ []~Serial
            /\ []Serial => []OneAtATime /\ []OwnSecond
<1>1. MCInit => Init /\ (Serial => OneAtATime /\ OwnSecond)
  BY DEF MCInit, Init, OneAtATime, OwnSecond, InFlight, Signed
<1>2. [MCNext]_mcvars => [Next]_vars /\ (Serial <=> Serial')
  BY DEF MCNext, mcvars, Serial
<1>3. [MCNext]_mcvars /\ Serial /\ OneAtATime /\ OwnSecond => OneAtATime' /\ OwnSecond'
  BY DEF MCNext, mcvars, vars, Serial, OneAtATime, OwnSecond, Signed
<1>. QED  BY <1>1, <1>2, <1>3, PTL DEF MCSpec, Spec

(* In the serial scenario a refresh token buys one pair of tokens.           *)
THEOREM SerialScenarioRotates == MCSpec => []SerialRotation
<1>1. SerialRotation <=> (Serial => RotatedOnce)
  BY DEF SerialRotation, Serial
<1>. QED  BY <1>1, ScenarioIsKept, SerialRefreshesRotate, PTL

(* In the serial scenario the current credentials alone change a row.        *)
THEOREM SerialScenarioIsEntitled == MCSpec => CurrentCredentials
<1>1. [ByCurrentCredentials]_vars /\ [MCNext]_mcvars
        => [Serial => ByCurrentCredentials]_mcvars
  BY DEF MCNext, mcvars, vars, account, ByCurrentCredentials, Serial
<1>2. ~Serial => [Serial => ByCurrentCredentials]_mcvars
  OBVIOUS
<1>3. CurrentCredentials <=> [][Serial => ByCurrentCredentials]_mcvars
  BY DEF CurrentCredentials, Serial
<1>. QED  BY <1>1, <1>2, <1>3, ScenarioIsKept, SerialChangesAreEntitled, PTL DEF MCSpec
=============================================================================
