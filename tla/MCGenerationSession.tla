------------------------- MODULE MCGenerationSession -------------------------
(* GenerationSession on small instances.                                    *)
EXTENDS GenerationSession, TLC
CONSTANTS t1, t2, a1, a2, p1, p2

TwoTabs    == {t1, t2}
TwoAssets  == {a1, a2}
OneEarlier == {a1}
TwoPrompts == {p1, p2}
=============================================================================
