-------------------------- MODULE MCIndexerCatchUp --------------------------
(* Small instances of IndexerCatchUp.                                       *)
EXTENDS IndexerCatchUp

CONSTANT p1
=============================================================================
