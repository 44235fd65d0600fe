----------------------------- MODULE MCJobBoard -----------------------------
(***************************************************************************)
(* A small instance of JobBoard for TLC.  No symmetry: the run checks a    *)
(* liveness property.                                                      *)
(***************************************************************************)
EXTENDS JobBoard
=============================================================================
