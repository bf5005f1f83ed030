------------------------- MODULE MCHandlerDispatch -------------------------
(* HandlerDispatch on a small instance.                                     *)
EXTENDS HandlerDispatch, TLC
CONSTANTS w1, w2

OneJob     == {1}
TwoWorkers == {w1, w2}
Zero       == {0}
Ids        == {1}
Symmetry   == Permutations(Workers)
=============================================================================
