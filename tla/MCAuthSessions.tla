---------------------------- MODULE MCAuthSessions ----------------------------
(***************************************************************************)
(* Small instances of AuthSessions for TLC: an account made by an          *)
(* administrator, and an email that has none yet.  The scenario is chosen  *)
(* at the start and kept:                                                  *)
(*   overlap  three calls overlap within two seconds, for both emails;     *)
(*   serial   calls of the account, one after the other over four seconds, *)
(*            no two of which sign in one second; any query may fail.      *)
(***************************************************************************)
EXTENDS AuthSessions

CONSTANTS given, free

VARIABLE scenario

mcvars == <<vars, scenario>>

MCUsers == {given, free}

MCFirstPassword == [u \in Users |-> IF u = given THEN CHOOSE p \in Passwords : TRUE ELSE NoPassword]

OneAtATime == \A g, h \in Calls : {pc[g], pc[h]} \subseteq InFlight => g = h

(* No two tokens are signed in one second. *)
OwnSecond == \A g, h \in Calls : Signed(g) /\ Signed(h) /\ call[g].at = call[h].at => g = h

(* No call fails once it has verified what it was given. *)
NoFailure ==
  \A h \in Calls : pc[h] \in {"verified", "issued", "saved"} => pc'[h] # "failed"

MCInit == Init /\ scenario \in {"overlap", "serial"}

MCNext ==
  /\ Next
  /\ UNCHANGED scenario
  /\ scenario = "overlap" => now' <= 1 /\ NoFailure
  /\ scenario = "serial" =>
       /\ OneAtATime' /\ OwnSecond'
       /\ \A h \in Calls : pc'[h] # "new" => call'[h].user = given

MCSpec == MCInit /\ [][MCNext]_mcvars

-----------------------------------------------------------------------------
(* Properties of one scenario *)

(* A refresh token presented by calls that do not overlap, and signed in a   *)
(* second of its own, buys one pair of tokens at most (README.md, "rotated   *)
(* on refresh").                                                             *)
SerialRotation == scenario = "serial" => RotatedOnce

(* Calls that do not overlap change a password or a token only by the        *)
(* current credentials.                                                      *)
CurrentCredentials == [][scenario = "serial" => ByCurrentCredentials]_mcvars
=============================================================================
