----------------------------- MODULE MC_FileSys -------------------------------
(* FileSys with the model values of MC_BufferCache.                         *)
EXTENDS FileSys, TLC

CONSTANTS t1, s1, s2, v0, v1, e1, e2, e3

MCSlots == {e1, e2, e3}
MCSymmetry == Permutations(Slots)
=============================================================================
