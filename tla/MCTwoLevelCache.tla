--------------------------- MODULE MCTwoLevelCache ---------------------------
(* Small instances of TwoLevelCache.                                        *)
EXTENDS TwoLevelCache

CONSTANTS p1, p2, c1, c2
=============================================================================
