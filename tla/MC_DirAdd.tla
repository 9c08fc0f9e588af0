------------------------------ MODULE MC_DirAdd ------------------------------
EXTENDS DirAdd, TLC

CONSTANTS t1, t2, a, b, c

\* Threads and names are interchangeable: no definition tells two apart.
MCSymmetry == Permutations({t1, t2}) \cup Permutations({a, b, c})
=============================================================================
