--------------------------- MODULE MC_BufferCache ---------------------------
(***************************************************************************)
(* Model-checking instance of BufferCache: model values for threads,       *)
(* sectors, contents and cache_info memory; the 64-entry pool shrunk to 2  *)
(* entries so that evictions happen within a few calls.                    *)
(***************************************************************************)
EXTENDS BufferCache, TLC

CONSTANTS t1, t2, s1, s2, s3, v0, v1, v2, e1, e2, e3, e4

\* Memory for one more cache_info than the pool holds per thread: enough for
\* a full list plus one entry being filled by each thread.
MCSlots1 == {e1, e2, e3}
MCSlots2 == {e1, e2, e3, e4}

MCSymmetry == Permutations(Slots)
=============================================================================
