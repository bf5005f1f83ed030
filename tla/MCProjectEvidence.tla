--------------------------- MODULE MCProjectEvidence ---------------------------
(* ProjectEvidence on small instances.                                      *)
EXTENDS ProjectEvidence, TLC
CONSTANTS t1, t2

TwoTabs      == {t1, t2}
TwoContents  == {1, 2}
FirstIsJpeg  == {1}
Exchange     == Permutations({t1, t2})
\* Two tabs that save, and other programs that write what is saved.
Saving    == [kinds  |-> {"metadata", "reaudit", "master", "approve"},
              edited |-> {"bytes", "manifest"}, events |-> 3]
\* Audits of the desk, which need no earlier one, and what is made of them.
Auditing  == [kinds  |-> {"audit", "approve"}, edited |-> {"bytes", "audit"}, events |-> 3]
\* Exports among the operations that would spoil them.
Exporting == [kinds  |-> {"reaudit", "master", "export"}, edited |-> {"bytes"}, events |-> 2]
AllPlans   == {Saving, Auditing, Exporting}
SavingOnly == {Saving}
================================================================================
