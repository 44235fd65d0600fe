---------------------------- MODULE MCRateLimiter ----------------------------
(***************************************************************************)
(* A small instance of RateLimiter for TLC.                                *)
(***************************************************************************)
EXTENDS RateLimiter, TLC

Symmetry == Permutations(IPs) \cup Permutations(Requests)
              \cup Permutations(Buckets)
=============================================================================
