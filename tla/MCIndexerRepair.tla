--------------------------- MODULE MCIndexerRepair ---------------------------
(* Small instances of IndexerRepair.                                        *)
EXTENDS IndexerRepair

CONSTANTS p1, r1
=============================================================================
