------------------------------- MODULE MCTexts -------------------------------
(* A small instance of Texts for TLC. *)
EXTENDS Texts
=============================================================================
