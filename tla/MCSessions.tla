----------------------------- MODULE MCSessions ------------------------------
(* A small instance of Sessions for TLC. *)
EXTENDS Sessions, TLC, FiniteSets

Symmetry == Permutations(Requests)

(* Bound: with the clock at its end, one request at a time. *)
OneAtTheEnd ==
  now = Horizon => Cardinality({r \in Requests : req[r] # Idle}) <= 1
=============================================================================
