----------------------------- MODULE FrameTable ------------------------------
(***************************************************************************)
(* The frame table of vm/frame.c: get_free_frame and frame_create taking   *)
(* frame_lock, reusing a frame that is not in use, allocating a new one    *)
(* with palloc_get_page, or evicting one with the second-chance loop of    *)
(* evict_policy and frame_evict (swap_insert for all but FILEIO pages).    *)
(* The callers (the page-fault handler) are not in the tree: a thread that *)
(* got a frame links a page of some kind to it (set_frame), and the rest   *)
(* of the system may touch, pin, unpin or free a frame or read a page back *)
(* from swap at any time.  One loop iteration of evict_policy is a step.   *)
(***************************************************************************)
EXTENDS Integers, Sequences, FiniteSets

CONSTANTS Threads,    \* kernel threads asking for frames
          NPages,     \* user pages palloc_get_page can hand out
          SwapSlots,  \* page-sized slots of the swap block
          NoOwner,    \* a model value: frame_lock is free
          NoPage      \* a model value: frame->page is NULL

Kinds == {"FILEIO", "SWAP_TABLE", "FRAME_TABLE", "MMAP"}   \* enum type
FrameIds == 1 .. NPages      \* a frame is named by the page it was made for
NoFrame == 0

VARIABLES
  frames,    \* frame_table, front first
  made,      \* frames malloc'ed so far (palloc_get_page calls that succeeded)
  inUse,     \* frame->in_use
  evicting,  \* frame->evicting
  pinned,    \* frame->pinned
  page,      \* the kind of frame->page, or NoPage
  accessed,  \* the accessed bit of the frame's mappings
  owner,     \* the holder of frame_lock
  pc,        \* where each thread is
  held,      \* the frame each thread's last call returned
  swapUsed,  \* swap slots in use
  panic      \* the kernel faulted or PANICked

vars == <<frames, made, inUse, evicting, pinned, page, accessed, owner, pc,
          held, swapUsed, panic>>

Init ==
  /\ frames = <<>>
  /\ made = 0
  /\ inUse = [f \in FrameIds |-> FALSE]
  /\ evicting = [f \in FrameIds |-> FALSE]
  /\ pinned = [f \in FrameIds |-> FALSE]
  /\ page = [f \in FrameIds |-> NoPage]
  /\ accessed = [f \in FrameIds |-> FALSE]
  /\ owner = NoOwner
  /\ pc = [t \in Threads |-> "idle"]
  /\ held = [t \in Threads |-> NoFrame]
  /\ swapUsed = 0
  /\ panic = FALSE

\* Set one field of a frame.
Upd(fn, f, v) == [fn EXCEPT ![f] = v]

-----------------------------------------------------------------------------
(* A thread calling get_free_frame or frame_create.                        *)

\* Enter get_free_frame or frame_create and call lock_acquire.
Call(t, fn) ==
  /\ pc[t] = "idle" /\ held[t] = NoFrame
  /\ pc' = [pc EXCEPT ![t] = fn]
  /\ UNCHANGED <<frames, made, inUse, evicting, pinned, page, accessed, owner,
                 held, swapUsed, panic>>

\* lock_acquire returns once frame_lock is free; acquiring a lock the
\* thread already holds fails lock_acquire's assertion.
Acquire(t) ==
  /\ pc[t] \in {"get", "create"}
  /\ owner \in {NoOwner, t}
  /\ IF owner = t THEN panic' = TRUE /\ UNCHANGED <<owner, pc>>
     ELSE /\ owner' = t
          /\ pc' = [pc EXCEPT ![t] = IF pc[t] = "get" THEN "scan" ELSE "alloc"]
          /\ UNCHANGED panic
  /\ UNCHANGED <<frames, made, inUse, evicting, pinned, page, accessed, held,
                 swapUsed>>

\* Return frame f from a call and release frame_lock (or keep it).
Return(t, f, release) ==
  /\ held' = [held EXCEPT ![t] = f]
  /\ pc' = [pc EXCEPT ![t] = "idle"]
  /\ owner' = IF release THEN NoOwner ELSE owner

\* palloc_get_page succeeded: malloc a frame and push it on frame_table.
NewFrame(u, p) ==
  LET f == made + 1 IN
  /\ made' = f
  /\ frames' = Append(frames, f)
  /\ inUse' = Upd(inUse, f, u) /\ pinned' = Upd(pinned, f, p)
  /\ evicting' = Upd(evicting, f, FALSE) /\ page' = Upd(page, f, NoPage)

\* get_free_frame under the lock: take the first frame of frame_table that
\* is not in use, else a new frame, else go on to evict.
GetScan(t) ==
  /\ pc[t] = "scan"
  /\ LET free == {i \in 1 .. Len(frames) : ~inUse[frames[i]]} IN
     IF free # {}
       THEN LET f == frames[CHOOSE i \in free : \A j \in free : i <= j] IN
            /\ inUse' = Upd(inUse, f, TRUE)
            /\ Return(t, f, TRUE)
            /\ UNCHANGED <<frames, made, evicting, pinned, page>>
     ELSE IF made < NPages
       THEN /\ NewFrame(TRUE, FALSE)
            /\ Return(t, made + 1, TRUE)
     ELSE /\ pc' = [pc EXCEPT ![t] = "evict_get"]
          /\ UNCHANGED <<frames, made, inUse, evicting, pinned, page, owner,
                         held>>
  /\ UNCHANGED <<accessed, swapUsed, panic>>

\* frame_create under the lock: a new frame whose in_use and pinned are
\* whatever malloc left there, else evict.
CreateAlloc(t) ==
  /\ pc[t] = "alloc"
  /\ IF made < NPages
       THEN \E u, p \in BOOLEAN :
              /\ NewFrame(u, p)
              /\ Return(t, made + 1, TRUE)
       ELSE /\ pc' = [pc EXCEPT ![t] = "evict_create"]
            /\ UNCHANGED <<frames, made, inUse, evicting, pinned, page, owner,
                           held>>
  /\ UNCHANGED <<accessed, swapUsed, panic>>

\* frame_evict(f): write a FILEIO page back, put any other in swap (PANIC
\* when swap is full), and clear in_use.
Evict(f) ==
  /\ IF page[f] = "FILEIO" THEN UNCHANGED swapUsed
     ELSE /\ swapUsed < SwapSlots
          /\ swapUsed' = swapUsed + 1

\* One iteration of evict_policy's loop: pop the front frame and give it a
\* second chance if it is accessed, evicting or pinned, skip it if its page
\* is FRAME_TABLE, and otherwise evict it.  get_free_frame then resets the
\* victim and releases the lock; frame_create returns it still holding it.
EvictStep(t) ==
  /\ pc[t] \in {"evict_get", "evict_create"}
  /\ IF frames = <<>> \/ page[Head(frames)] = NoPage
       THEN /\ panic' = TRUE
            /\ UNCHANGED <<frames, inUse, evicting, pinned, accessed, owner, pc,
                           held, swapUsed>>
       ELSE LET f == Head(frames) IN
         IF accessed[f] \/ evicting[f] \/ pinned[f]
           THEN /\ accessed' = Upd(accessed, f, FALSE)
                /\ evicting' = Upd(evicting, f, TRUE)
                /\ frames' = Append(Tail(frames), f)
                /\ UNCHANGED <<inUse, pinned, owner, pc, held, swapUsed, panic>>
         ELSE IF page[f] = "FRAME_TABLE"
           THEN /\ frames' = Append(Tail(frames), f)
                /\ UNCHANGED <<inUse, evicting, pinned, accessed, owner, pc,
                               held, swapUsed, panic>>
         ELSE /\ frames' = Tail(frames)
              /\ \/ Evict(f) /\ UNCHANGED panic
                 \/ page[f] # "FILEIO" /\ swapUsed = SwapSlots
                    /\ panic' = TRUE /\ UNCHANGED swapUsed
              /\ IF pc[t] = "evict_get"
                   THEN /\ evicting' = Upd(evicting, f, FALSE)
                        /\ inUse' = Upd(inUse, f, TRUE)
                        /\ pinned' = Upd(pinned, f, FALSE)
                        /\ Return(t, f, TRUE)
                   ELSE /\ evicting' = Upd(evicting, f, TRUE)
                        /\ inUse' = Upd(inUse, f, FALSE)
                        /\ Return(t, f, FALSE)
                        /\ UNCHANGED pinned
              /\ UNCHANGED accessed
  /\ UNCHANGED <<made, page>>

\* set_frame: the caller links a page of kind k to the frame it got.
SetFrame(t, k) ==
  /\ pc[t] = "idle" /\ held[t] # NoFrame
  /\ page' = Upd(page, held[t], k)
  /\ held' = [held EXCEPT ![t] = NoFrame]
  /\ UNCHANGED <<frames, made, inUse, evicting, pinned, accessed, owner, pc,
                 swapUsed, panic>>

-----------------------------------------------------------------------------
(* The rest of the system.                                                  *)

\* A user access sets the accessed bit of a mapped frame.
Touch(f) ==
  /\ f <= made /\ page[f] # NoPage /\ ~accessed[f]
  /\ accessed' = Upd(accessed, f, TRUE)
  /\ UNCHANGED <<frames, made, inUse, evicting, pinned, page, owner, pc, held,
                 swapUsed, panic>>

\* free_func (process exit) calls frame_free on a page's frame.
FreeFrame(f) ==
  /\ f <= made /\ page[f] # NoPage /\ inUse[f]
  /\ inUse' = Upd(inUse, f, FALSE)
  /\ UNCHANGED <<frames, made, evicting, pinned, page, accessed, owner, pc,
                 held, swapUsed, panic>>

\* pin_page and unpin_page.
SetPinned(f, b) ==
  /\ f <= made /\ page[f] # NoPage /\ pinned[f] # b
  /\ pinned' = Upd(pinned, f, b)
  /\ UNCHANGED <<frames, made, inUse, evicting, page, accessed, owner, pc,
                 held, swapUsed, panic>>

\* swap_out reads a page back and frees its slot (can_swap).
SwapOut ==
  /\ swapUsed > 0
  /\ swapUsed' = swapUsed - 1
  /\ UNCHANGED <<frames, made, inUse, evicting, pinned, page, accessed, owner,
                 pc, held, panic>>

Kernel(t) == Acquire(t) \/ GetScan(t) \/ CreateAlloc(t) \/ EvictStep(t)

Next ==
  /\ ~panic
  /\ \/ \E t \in Threads : \/ Call(t, "get") \/ Call(t, "create")
                           \/ Kernel(t)
                           \/ \E k \in Kinds : SetFrame(t, k)
     \/ \E f \in FrameIds : Touch(f) \/ FreeFrame(f)
                            \/ \E b \in BOOLEAN : SetPinned(f, b)
     \/ SwapOut

\* A thread inside a call keeps running (round-robin scheduling), and a
\* thread waiting in lock_acquire gets the lock if it is free infinitely
\* often (the lock's semaphore wakes its waiters in order).
Fairness == \A t \in Threads : /\ SF_vars(Acquire(t))
                               /\ WF_vars(GetScan(t) \/ CreateAlloc(t) \/ EvictStep(t))

Spec == Init /\ [][Next]_vars /\ Fairness

-----------------------------------------------------------------------------
(* Properties.                                                             *)

TypeOK ==
  /\ frames \in Seq(FrameIds) /\ made \in 0 .. NPages
  /\ inUse \in [FrameIds -> BOOLEAN] /\ evicting \in [FrameIds -> BOOLEAN]
  /\ pinned \in [FrameIds -> BOOLEAN] /\ accessed \in [FrameIds -> BOOLEAN]
  /\ page \in [FrameIds -> Kinds \cup {NoPage}]
  /\ owner \in Threads \cup {NoOwner}
  /\ pc \in [Threads -> {"idle", "get", "create", "scan", "alloc",
                         "evict_get", "evict_create"}]
  /\ held \in [Threads -> FrameIds \cup {NoFrame}]
  /\ swapUsed \in 0 .. SwapSlots /\ panic \in BOOLEAN

\* get_free_frame and frame_create return: a thread that has called one
\* of them gets back to its caller (or the kernel stops with a fault).  It
\* fails if evict_policy spins or frame_lock is never released.
RequestsReturn ==
  \A t \in Threads : pc[t] # "idle" ~> (pc[t] = "idle" \/ panic)

\* Every frame malloc'ed stays on frame_table, where get_free_frame and
\* evict_policy can find it again.
FramesTracked ==
  \A f \in 1 .. made : \E i \in 1 .. Len(frames) : frames[i] = f
=============================================================================
