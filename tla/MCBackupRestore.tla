-------------------------- MODULE MCBackupRestore --------------------------
(* BackupRestore on a small instance: one row at a time, of either kind.    *)
EXTENDS BackupRestore, TLC
CONSTANTS w1, w2, w3

Incarnations == {w1, w2, w3}
TwoKinds     == [j \in Jobs |-> IF j = 1 THEN "fal" ELSE "openai"]
Both         == {1, 2}
NoJobs       == {}
Symmetry     == Permutations(Workers)
=============================================================================
