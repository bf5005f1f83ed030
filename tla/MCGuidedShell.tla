---------------------------- MODULE MCGuidedShell ----------------------------
(* GuidedShell on small instances.                                          *)
EXTENDS GuidedShell, TLC
CONSTANTS f1, f2, o1, o2

TwoFolders  == {f1, f2}
TwoOps      == {o1, o2}
BothVerdicts == {"PASS", "FAIL"}
AnyStart    == {"empty", "described", "approved"}
OthersWrite == {"man", "audit", "approval", "master"}
Exchange    == Permutations({f1, f2}) \union Permutations({o1, o2})
=============================================================================
