----------------------------- MODULE MCProfiles -----------------------------
(* A small instance of Profiles for TLC. *)
EXTENDS Profiles, TLC

(* Profiles treats ids alike, and texts, and requests. *)
Symmetric ==
  Permutations(Clients) \cup Permutations(Jobs) \cup Permutations(Texts)
    \cup Permutations(Requests)
=============================================================================
