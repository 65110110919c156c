---------------------------- MODULE MCRampOrders ----------------------------
(* Small instances of RampOrders.                                           *)
EXTENDS RampOrders, TLC

CONSTANTS o1, o2, h1, h2

Symmetry == Permutations(Handlers)
=============================================================================
