------------------------------- MODULE MCAuth -------------------------------
(***************************************************************************)
(* Values for the run of Auth: two servers of a database, one setpassword, *)
(* a browser; a password with a blank around it, one that is all blank and *)
(* one too long to hash; half seconds; environments with a password and    *)
(* one secret, without a password and with the other, with auth off, with  *)
(* the password that is too long, and two that config.Load refuses.        *)
(***************************************************************************)
EXTENDS Auth, TLC

CONSTANTS v1, v2, cli1, b1, pw, padded, blank, long, sec1, sec2

MCTrimmed == (pw :> pw) @@ (padded :> pw) @@ (blank :> NoPassword) @@ (long :> long)

Env(auth, password, secret, ttl) ==
  [auth |-> auth, password |-> password, secret |-> secret, ttl |-> ttl]

MCSettings ==
  { Env(TRUE, pw, sec1, 3), Env(TRUE, NoPassword, sec2, 2), Env(FALSE, NoPassword, NoSecret, 2),
    Env(TRUE, long, sec2, 2), Env(TRUE, padded, NoSecret, 2), Env(TRUE, pw, sec1, 0) }
=============================================================================
