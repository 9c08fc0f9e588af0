---------------------------- MODULE MC_FrameTable -----------------------------
(* FrameTable with two threads, two user pages and one swap slot: enough   *)
(* for every frame to be in use, so that a call has to evict.              *)
EXTENDS FrameTable

CONSTANTS t1, t2

MC_Threads == {t1, t2}
MC_NPages == 2
MC_SwapSlots == 1
=============================================================================
