------------------------- MODULE MCGenerationQueue -------------------------
(***************************************************************************)
(* GenerationQueue on small instances.                                      *)
(***************************************************************************)
EXTENDS GenerationQueue, TLC
CONSTANTS w1, w2

TwoRows       == 1 .. 2
TwoWorkers    == {w1, w2}
TwoPriorities == 0 .. 1
TwoIds        == 1 .. 2
Symmetry      == Permutations(Workers)
=============================================================================
