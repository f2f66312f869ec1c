--------------------------- MODULE MCIngestionRun ---------------------------
(***************************************************************************)
(* Instances of IngestionRun for TLC.                                      *)
(***************************************************************************)
EXTENDS IngestionRun, TLC

Symmetry == Permutations(Attempts)
=============================================================================
