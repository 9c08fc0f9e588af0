---------------------------- MODULE SectorStore ----------------------------
(***************************************************************************)
(* What the buffer cache promises its callers: a store of sector contents  *)
(* in which a sector changes only when a caller's write of it takes        *)
(* effect, once per call, with the caller's value.  Caching, eviction,     *)
(* flushing, shutdown and remount are invisible.                           *)
(***************************************************************************)
CONSTANTS Threads, Sectors, Vals, InitVal, NoReq

VARIABLES
  store,  \* the contents of every sector as callers see them
  wreq    \* wreq[t]: the write call t has made and that has not taken effect

Init ==
  /\ store = [s \in Sectors |-> InitVal]
  /\ wreq = [t \in Threads |-> NoReq]

\* Thread t calls write for sector s with value v.
Call(t, s, v) ==
  /\ wreq[t] = NoReq
  /\ wreq' = [wreq EXCEPT ![t] = [sector |-> s, val |-> v]]
  /\ UNCHANGED store

\* The write of thread t takes effect.
Commit(t) ==
  /\ wreq[t] # NoReq
  /\ store' = [store EXCEPT ![wreq[t].sector] = wreq[t].val]
  /\ wreq' = [wreq EXCEPT ![t] = NoReq]

Next ==
  \/ \E t \in Threads, s \in Sectors, v \in Vals : Call(t, s, v)
  \/ \E t \in Threads : Commit(t)

Spec == Init /\ [][Next]_<<store, wreq>>
=============================================================================
