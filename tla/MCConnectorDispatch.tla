------------------------ MODULE MCConnectorDispatch ------------------------
(* ConnectorDispatch on small instances.                                    *)
EXTENDS ConnectorDispatch, TLC
CONSTANTS w1, w2

TwoWorkers   == {w1, w2}
TwoJobs      == {1, 2}
FalAndOpenAI == [j \in Jobs |-> IF j = 1 THEN "fal" ELSE "openai"]
NoJobs       == {}
ThreeJobs    == {1, 2, 3}
\* A fal row, an openai row and, where Malformed is Job3, a malformed one.
Kinds        == [j \in Jobs |-> IF j = 2 THEN "openai" ELSE "fal"]
Job2         == {2}
Job3         == {3}
Symmetry     == Permutations(Workers)
=============================================================================
