--------------------------- MODULE MC_ProcessWait ---------------------------
EXTENDS ProcessWait

CONSTANTS k1, k2
MCKids == {k1, k2}
=============================================================================
