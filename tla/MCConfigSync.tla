---------------------------- MODULE MCConfigSync ----------------------------
(***************************************************************************)
(* Two phones, two edits and two uploads: one phone's offer may stay open  *)
(* while the other edits, uploads and makes the server restart.            *)
(***************************************************************************)
EXTENDS ConfigSync, TLC

Symmetry == Permutations(Phones) \cup Permutations(Edits)
=============================================================================
