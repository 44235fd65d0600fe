------------------------------- MODULE MCAdmins -------------------------------
(* A small instance of Admins for TLC. *)
EXTENDS Admins, TLC

(* Admins treats people alike, and passwords, and requests. *)
Symmetric ==
  Permutations(People) \cup Permutations(Passwords) \cup Permutations(Requests)
=============================================================================
