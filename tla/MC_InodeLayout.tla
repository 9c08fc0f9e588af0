--------------------------- MODULE MC_InodeLayout ---------------------------
EXTENDS InodeLayout, TLC

CONSTANTS f1, f2

MCFiles == {f1, f2}
MCSymmetry == Permutations(MCFiles)
=============================================================================
