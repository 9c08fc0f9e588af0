--------------------------- MODULE MC_InodeTable ----------------------------
EXTENDS InodeTable, TLC

CONSTANTS t1, t2, h1, h2, h3

\* Two files: inode sectors 1 and 2, each with one direct data sector.
MCDirect == [f \in {1, 2} |-> {f + 2}]
MCNoIndirect == [f \in {1, 2} |-> {}]
\* File 2 also has one indirect block, sector 5, naming data sector 6.
MCIndirect == (1 :> {}) @@ (2 :> {5})
MCData == 5 :> {6}
MCSymmetry == Permutations({t1, t2}) \cup Permutations({h1, h2, h3})
=============================================================================
