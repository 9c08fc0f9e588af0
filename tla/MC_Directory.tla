--------------------------- MODULE MC_Directory ----------------------------
EXTENDS Directory, TLC

CONSTANTS p1, p2, o1, o2

\* Every path of up to three characters over "a", "/" and ".".
MCPaths == UNION {[1 .. n -> {"a", "/", "."}] : n \in 1 .. 3}
MCPlainPaths == UNION {[1 .. n -> {"a", "/"}] : n \in 1 .. 3}
\* Paths whose every component is a name: no "." component and no
\* trailing '/', so build_path never yields the name ".".
\* One path relative to the working directory, one absolute and nested.
MCNamePaths == {<<"a">>, <<"/", "a", "/", "a">>}
MCTwoObjs == {o1, o2}
\* Which struct dir object holds a working directory does not matter.
MCSymmetry == Permutations(MCTwoObjs)
=============================================================================
