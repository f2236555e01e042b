------------------------- MODULE MCStorageMigration -------------------------
(* Small instances of StorageMigration.                                     *)
EXTENDS StorageMigration, TLC

Symmetry == Permutations(Workers)
=============================================================================
