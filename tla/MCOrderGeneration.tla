------------------------- MODULE MCOrderGeneration -------------------------
(***************************************************************************)
(* Instances of OrderGeneration for TLC.                                   *)
(***************************************************************************)
EXTENDS OrderGeneration, TLC

Symmetry == Permutations(Runs) \cup Permutations(Products)
=============================================================================
