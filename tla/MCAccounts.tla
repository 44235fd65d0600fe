----------------------------- MODULE MCAccounts -----------------------------
(***************************************************************************)
(* A small instance of Accounts for TLC.                                   *)
(***************************************************************************)
EXTENDS Accounts, TLC

Symmetry == Permutations(Requests) \cup Permutations(Emails)
              \cup Permutations(Passwords)

(* Bound: a JWT is watched only while at most one token has been drawn. *)
OneTokenWithJwt == sessions = {} \/ lastToken <= 1

(* Bound: when every id and every token has been given out, requests come  *)
(* one after the other. *)
Calm == births + lastToken <= 3 \/ \E r \in Requests : req[r] = Idle
=============================================================================
