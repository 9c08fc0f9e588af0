----------------------------- MODULE MC_FdTable ------------------------------
(* FdTable with a four-entry table: slots 2 and 3 are the ones open fills, *)
(* 4 is one past the end, tell accepts up to 2.                            *)
EXTENDS FdTable

CONSTANTS o1, o2, o3

MC_Size == 4
MC_TellMax == 2
MC_Objs == {o1, o2, o3}
MC_MinFds == -2
=============================================================================
