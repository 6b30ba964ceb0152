--------------------------- MODULE MCParallelExecute ---------------------------
EXTENDS ParallelExecute

CONSTANTS account1, slot1, t1, t2

MCAccountPieces == {{account1}}
MCStoragePieces == {{slot1}}
=============================================================================
