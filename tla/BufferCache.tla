---------------------------- MODULE BufferCache ----------------------------
(***************************************************************************)
(* The buffer cache of filesys/cache.c: a list of cache_info objects,      *)
(* least recently used at the front, shared by every kernel thread that    *)
(* reads or writes a sector, plus the periodic flush (refresh_cache) and   *)
(* the shutdown flush (delete_cache).                                      *)
(*                                                                         *)
(* A thread's operation is split into steps at the points where it can     *)
(* block and so be preempted: the list scan of get_info, the acquire of an *)
(* entry's rw_lock, the device read of a miss, and the device write of an  *)
(* eviction.  The list operations between two such points are one step.    *)
(* Sector contents are abstracted to one value of Vals per sector.         *)
(*                                                                         *)
(* latest, okv and ret are history variables: latest[s] is the value the   *)
(* last completed copy into sector s stored, okv[t] the values a read by t *)
(* may legally return (the value current when it started, and every value  *)
(* written while it ran), ret[t] the value it returned.                    *)
(***************************************************************************)
EXTENDS Naturals, Sequences, SequencesExt, FiniteSets

CONSTANTS
  Threads,    \* kernel threads calling into the cache
  Sectors,    \* sector numbers of fs_device
  Vals,       \* contents a sector can hold
  InitVal,    \* contents of every sector when the device is formatted
  Slots,      \* memory that malloc can hand out for a struct cache_info
  Capacity,   \* the literal 64 of list_size(&cache_list) == 64
  Flusher,    \* TRUE when some thread calls refresh_cache periodically
  NoSlot      \* a null pointer

ASSUME InitVal \in Vals /\ Capacity \in Nat \ {0} /\ NoSlot \notin Slots
ASSUME Flusher \in BOOLEAN

VARIABLES
  cacheList,  \* cache_list, as a sequence of cache_info objects
  entry,      \* entry[e]: the sector, cache_data and is_dirty of object e
  alloc,      \* cache_info objects currently malloc'd
  locked,     \* objects whose rw_lock is held across a device write
  disk,       \* contents of fs_device
  mounted,    \* between filesys_init and filesys_done
  pc,         \* where each thread is inside its current call
  op,         \* the call each thread is executing
  ptr,        \* the cache_info pointer a thread holds (hit or victim)
  buf,        \* the new cache_info a missing thread has filled
  flush,      \* the object refresh_cache has written and not yet marked clean
  latest, okv, ret

vars == <<cacheList, entry, alloc, locked, disk, mounted, pc, op, ptr, buf,
          flush, latest, okv, ret>>

Kinds == {"read", "write", "ahead", "sector"}
Entry == [sector : Sectors, data : Vals, dirty : BOOLEAN]
\* What a freed object holds; reading it yields an arbitrary value.
Garbage == [sector |-> CHOOSE s \in Sectors : TRUE, data |-> InitVal,
            dirty |-> FALSE]
NoOp == [kind |-> "read", sector |-> Garbage.sector, val |-> InitVal]

TypeOK ==
  /\ cacheList \in Seq(Slots)
  /\ entry \in [Slots -> Entry]
  /\ alloc \subseteq Slots
  /\ locked \subseteq Slots
  /\ disk \in [Sectors -> Vals]
  /\ mounted \in BOOLEAN
  /\ pc \in [Threads -> {"idle", "hit", "miss", "evict", "done"}]
  /\ op \in [Threads -> [kind : Kinds, sector : Sectors, val : Vals]]
  /\ ptr \in [Threads -> Slots \cup {NoSlot}]
  /\ buf \in [Threads -> Entry]
  /\ flush \in Slots \cup {NoSlot}
  /\ latest \in [Sectors -> Vals]
  /\ okv \in [Threads -> SUBSET Vals]
  /\ ret \in [Threads -> Vals]

Init ==
  /\ cacheList = << >>
  /\ entry = [e \in Slots |-> Garbage]
  /\ alloc = {}
  /\ locked = {}
  /\ disk = [s \in Sectors |-> InitVal]
  /\ mounted = TRUE
  /\ pc = [t \in Threads |-> "idle"]
  /\ op = [t \in Threads |-> NoOp]
  /\ ptr = [t \in Threads |-> NoSlot]
  /\ buf = [t \in Threads |-> Garbage]
  /\ flush = NoSlot
  /\ latest = [s \in Sectors |-> InitVal]
  /\ okv = [t \in Threads |-> {}]
  /\ ret = [t \in Threads |-> InitVal]

-----------------------------------------------------------------------------
(* Helpers of cache.c                                                       *)

(* Each helper below that a plausible bug could change is preceded by the  *)
(* variant with that bug; the mutation checks of the runs substitute the   *)
(* variant for the helper and expect a property to fail.                   *)

\* get_info: position of the first object caching s, 0 if none.
GetInfo(s) == SelectInSeq(cacheList, LAMBDA e : entry[e].sector = s)

\* Variant: the list position, not the object, is pushed back.
MoveIndexToBack(i) == Append(RemoveAt(cacheList, i), i)

\* get_info on a hit: the found object moves to the back of the list.
MoveToBack(i) == Append(RemoveAt(cacheList, i), cacheList[i])

\* The test list_size(&cache_list) == 64 made before every insertion.
CacheFull == Len(cacheList) = Capacity

\* Variant: a new entry filled by write_block starts clean, as the read
\* path's initialisation does.
MissDirtyAsRead(k) == FALSE

\* is_dirty of a new entry: set by write_block only.
MissDirty(k) == k = "write"

\* Variant: evict_cache writes the victim back only when it is dirty.
WriteBackIfDirty(v) ==
  IF entry[v].dirty THEN [disk EXCEPT ![entry[v].sector] = entry[v].data]
                    ELSE disk

\* Variant: evict_cache frees the victim without writing it back.
WriteBackSkipped(v) == disk

\* evict_cache's block_write of the victim, whether dirty or not.
WriteBack(v) == [disk EXCEPT ![entry[v].sector] = entry[v].data]

\* A completed copy of v into sector s: every read of s in progress may now
\* return v.
RecordWrite(s, v) ==
  /\ latest' = [latest EXCEPT ![s] = v]
  /\ okv' = [u \in Threads |->
               IF op[u].kind = "read" /\ op[u].sector = s
                  /\ pc[u] \in {"hit", "miss"}
               THEN okv[u] \cup {v} ELSE okv[u]]

\* The state a call leaves its thread in once it has copied its data.
After(t) == IF op[t].kind = "read" THEN "done" ELSE "idle"

\* malloc of a new cache_info holding new, then list_push_back: the object
\* may be any memory not in use, including the one evict_cache just freed.
PushBack(lst, inUse, ent, new) ==
  \E e \in Slots \ inUse :
    /\ alloc' = inUse \cup {e}
    /\ entry' = [ent EXCEPT ![e] = new]
    /\ cacheList' = Append(lst, e)

-----------------------------------------------------------------------------
(* The four entry points.  Each scans the list (get_info); on a hit it      *)
(* moves the entry to the back and, for read and write, goes on to copy    *)
(* under the entry's lock; on a miss it goes on to read the device.        *)

Begin(t, k, s, v) ==
  /\ mounted
  /\ pc[t] = "idle"
  /\ op' = [op EXCEPT ![t] = [kind |-> k, sector |-> s, val |-> v]]
  /\ okv' = [okv EXCEPT ![t] = IF k = "read" THEN {latest[s]} ELSE {}]

\* read_block(sector, ...): hit, then copy out under rw_lock; or miss.
ReadBlock(t, s) ==
  /\ Begin(t, "read", s, InitVal)
  /\ LET i == GetInfo(s) IN
       IF i # 0
       THEN /\ cacheList' = MoveToBack(i)
            /\ ptr' = [ptr EXCEPT ![t] = cacheList[i]]
            /\ pc' = [pc EXCEPT ![t] = "hit"]
       ELSE /\ pc' = [pc EXCEPT ![t] = "miss"]
            /\ UNCHANGED <<cacheList, ptr>>
  /\ UNCHANGED <<entry, alloc, locked, disk, mounted, buf, flush, latest, ret>>

\* write_block(sector, ...): a hit sets is_dirty before taking rw_lock.
WriteBlock(t, s, v) ==
  /\ Begin(t, "write", s, v)
  /\ LET i == GetInfo(s) IN
       IF i # 0
       THEN /\ cacheList' = MoveToBack(i)
            /\ entry' = [entry EXCEPT ![cacheList[i]].dirty = TRUE]
            /\ ptr' = [ptr EXCEPT ![t] = cacheList[i]]
            /\ pc' = [pc EXCEPT ![t] = "hit"]
       ELSE /\ pc' = [pc EXCEPT ![t] = "miss"]
            /\ UNCHANGED <<cacheList, entry, ptr>>
  /\ UNCHANGED <<alloc, locked, disk, mounted, buf, flush, latest, ret>>

\* read_ahead(sector) and cache_sector(sector): a hit only reorders the
\* list; a miss fills a new entry without copying data out.
Populate(t, k, s) ==
  /\ Begin(t, k, s, InitVal)
  /\ LET i == GetInfo(s) IN
       IF i # 0
       THEN /\ cacheList' = MoveToBack(i)
            /\ UNCHANGED pc
       ELSE /\ pc' = [pc EXCEPT ![t] = "miss"]
            /\ UNCHANGED cacheList
  /\ UNCHANGED <<entry, alloc, locked, disk, mounted, ptr, buf, flush, latest, ret>>

ReadAhead(t, s) == Populate(t, "ahead", s)

CacheSector(t, s) == Populate(t, "sector", s)

\* The hit branch of read_block / write_block after lock_acquire: memcpy
\* between the caller's buffer and the entry.  The pointer came from a scan
\* done before the thread blocked; if evict_cache has since freed the
\* object, the copy reads freed memory or writes into memory that may now be
\* another sector's entry.
HitCopy(t) ==
  LET e == ptr[t]
      s == op[t].sector
  IN
  /\ pc[t] = "hit"
  /\ e \notin locked
  /\ IF op[t].kind = "read"
     THEN /\ \/ e \in alloc /\ ret' = [ret EXCEPT ![t] = entry[e].data]
             \/ e \notin alloc /\ \E g \in Vals : ret' = [ret EXCEPT ![t] = g]
          /\ UNCHANGED <<entry, latest, okv>>
     ELSE /\ entry' = IF e \in alloc
                      THEN [entry EXCEPT ![e].data = op[t].val]
                      ELSE entry
          /\ RecordWrite(s, op[t].val)
          /\ UNCHANGED ret
  /\ pc' = [pc EXCEPT ![t] = After(t)]
  /\ ptr' = [ptr EXCEPT ![t] = NoSlot]
  /\ UNCHANGED <<cacheList, alloc, locked, disk, mounted, op, buf, flush>>

\* The new entry of a miss of thread t: malloc, the fields, block_read of
\* the sector into it and, for write_block, the caller's bytes over it.
NewEntry(t) ==
  [sector |-> op[t].sector,
   data   |-> IF op[t].kind = "write" THEN op[t].val ELSE disk[op[t].sector],
   dirty  |-> MissDirty(op[t].kind)]

\* The miss branch once block_read returns: the new entry holds the device
\* contents (with the caller's bytes copied over them for write_block, and
\* is then dirty); read_block copies them out.  Then, with no blocking in
\* between, the size test: below capacity the entry is pushed at the back;
\* at capacity evict_cache unlinks the front entry and takes its rw_lock.
MissFill(t) ==
  LET s   == op[t].sector
      k   == op[t].kind
      new == NewEntry(t)
  IN
  /\ pc[t] = "miss"
  /\ buf' = [buf EXCEPT ![t] = new]
  /\ ret' = IF k = "read" THEN [ret EXCEPT ![t] = disk[s]] ELSE ret
  /\ IF k = "write" THEN RecordWrite(s, op[t].val)
                    ELSE UNCHANGED <<latest, okv>>
  /\ IF CacheFull
     THEN /\ cacheList' = Tail(cacheList)
          /\ locked' = locked \cup {Head(cacheList)}
          /\ ptr' = [ptr EXCEPT ![t] = Head(cacheList)]
          /\ pc' = [pc EXCEPT ![t] = "evict"]
          /\ UNCHANGED <<entry, alloc>>
     ELSE /\ PushBack(cacheList, alloc, entry, new)
          /\ pc' = [pc EXCEPT ![t] = After(t)]
          /\ UNCHANGED <<locked, ptr>>
  /\ UNCHANGED <<disk, mounted, op, flush>>

\* free (cur_info) of the victim v and the caller's list_push_back of its
\* new entry: new_info was malloc'd before evict_cache ran, so it never
\* takes the victim's slot.
PushVictimFreed(v, new) ==
  \E e \in Slots \ alloc :
    /\ alloc' = (alloc \ {v}) \cup {e}
    /\ entry' = [entry EXCEPT ![v] = Garbage, ![e] = new]
    /\ cacheList' = Append(cacheList, e)

\* Mutant: the victim's rw_lock is never released.
EvictWriteKeepLock(t) ==
  LET v == ptr[t] IN
  /\ pc[t] = "evict"
  /\ disk' = WriteBack(v)
  /\ UNCHANGED locked
  /\ PushVictimFreed(v, buf[t])
  /\ ptr' = [ptr EXCEPT ![t] = NoSlot]
  /\ pc' = [pc EXCEPT ![t] = After(t)]
  /\ UNCHANGED <<mounted, op, buf, flush, latest, okv, ret>>

\* evict_cache once block_write of the victim completes: release and free
\* the victim; back in the caller, push the new entry.
EvictWrite(t) ==
  LET v == ptr[t] IN
  /\ pc[t] = "evict"
  /\ disk' = WriteBack(v)
  /\ locked' = locked \ {v}
  /\ PushVictimFreed(v, buf[t])
  /\ ptr' = [ptr EXCEPT ![t] = NoSlot]
  /\ pc' = [pc EXCEPT ![t] = After(t)]
  /\ UNCHANGED <<mounted, op, buf, flush, latest, okv, ret>>

\* The caller of read_block receives its bytes.
Return(t) ==
  /\ pc[t] = "done"
  /\ pc' = [pc EXCEPT ![t] = "idle"]
  /\ ret' = [ret EXCEPT ![t] = InitVal]
  /\ okv' = [okv EXCEPT ![t] = {}]
  /\ UNCHANGED <<cacheList, entry, alloc, locked, disk, mounted, op, ptr, buf, flush,
                 latest>>

-----------------------------------------------------------------------------
(* Flushing.                                                                *)

\* One iteration of refresh_cache: a dirty entry is written to the device
\* under its lock.
RefreshEntry(e) ==
  /\ Flusher
  /\ mounted
  /\ flush = NoSlot
  /\ e \in Range(cacheList)
  /\ entry[e].dirty
  /\ e \notin locked
  /\ disk' = [disk EXCEPT ![entry[e].sector] = entry[e].data]
  /\ flush' = e
  /\ UNCHANGED <<cacheList, entry, alloc, locked, mounted, pc, op, ptr, buf,
                 latest, okv, ret>>

\* The rest of the iteration, after lock_release: is_dirty = false.  If the
\* object was evicted meanwhile the store goes to freed memory, or to the
\* object malloc has since handed out again.
RefreshClear ==
  /\ flush # NoSlot
  /\ entry' = IF flush \in alloc THEN [entry EXCEPT ![flush].dirty = FALSE]
                                 ELSE entry
  /\ flush' = NoSlot
  /\ UNCHANGED <<cacheList, alloc, locked, disk, mounted, pc, op, ptr, buf,
                 latest, okv, ret>>

\* The device after delete_cache's pass over lst: each dirty entry, front
\* to back, is written.
FlushDirty(d, lst) ==
  FoldLeft(LAMBDA dd, e : IF entry[e].dirty
                          THEN [dd EXCEPT ![entry[e].sector] = entry[e].data]
                          ELSE dd,
           d, lst)

\* filesys_done: delete_cache, at shutdown once no thread is inside a call.
DeleteCache ==
  /\ mounted
  /\ \A t \in Threads : pc[t] = "idle"
  /\ flush = NoSlot
  /\ disk' = FlushDirty(disk, cacheList)
  /\ cacheList' = << >>
  /\ alloc' = {}
  /\ entry' = [e \in Slots |-> Garbage]
  /\ mounted' = FALSE
  /\ UNCHANGED <<locked, pc, op, ptr, buf, flush, latest, okv, ret>>

\* filesys_init after a reboot: cache_init leaves the list empty.  What the
\* device holds is from now on what reads must see (whether the shutdown
\* lost a write is ShutdownDurable's question), so the history restarts.
FilesysInit ==
  /\ ~mounted
  /\ mounted' = TRUE
  /\ latest' = disk
  /\ UNCHANGED <<cacheList, entry, alloc, locked, disk, pc, op, ptr, buf, flush,
                 okv, ret>>

Next ==
  \/ \E t \in Threads, s \in Sectors :
       ReadBlock(t, s) \/ ReadAhead(t, s) \/ CacheSector(t, s)
  \/ \E t \in Threads, s \in Sectors, v \in Vals : WriteBlock(t, s, v)
  \/ \E t \in Threads : HitCopy(t) \/ MissFill(t) \/ EvictWrite(t) \/ Return(t)
  \/ \E e \in Slots : RefreshEntry(e)
  \/ RefreshClear
  \/ DeleteCache
  \/ FilesysInit

Spec == Init /\ [][Next]_vars

\* Every thread is scheduled again (Pintos preempts on the timer tick), so
\* each step a thread can take is weakly fair; a thread blocked on an
\* rw_lock is woken by lock_release's sema_up and gets the lock when it is
\* free infinitely often, so the lock-taking HitCopy is strongly fair.
\* Calls, the flusher and shutdown are the environment's and need no
\* fairness.
FairSpec ==
  /\ Spec
  /\ \A t \in Threads : /\ SF_vars(HitCopy(t))
                      /\ WF_vars(MissFill(t) \/ EvictWrite(t) \/ Return(t))

-----------------------------------------------------------------------------
(* Properties                                                               *)

\* Objects some thread still holds: entries pending eviction, and
\* entries a missing thread has filled but not yet pushed.
Victims == {ptr[t] : t \in {u \in Threads : pc[u] = "evict"}}
Pending == {buf[t] : t \in {u \in Threads : pc[u] = "evict"}}

\* get_info returns the first match only, so a second entry for a sector
\* shadows or is shadowed by the first: the list must never hold two
\* entries for one sector (two threads missing the same sector between the
\* scan and the push would create them).
OneEntryPerSector ==
  \A i, j \in 1..Len(cacheList) :
    i # j => entry[cacheList[i]].sector # entry[cacheList[j]].sector

\* The pool never exceeds its capacity: eviction is triggered only when the
\* size equals 64 exactly, so once it is overshot it is never evicted again.
CacheBounded == Len(cacheList) <= Capacity

\* A read_block returns the value of the last write completed before it
\* began, or of a write that ran concurrently with it; never an older one
\* (a miss that reads the device while the dirty copy is still being
\* written back by an eviction would).
ReadsLinearizable == \A t \in Threads : pc[t] = "done" => ret[t] \in okv[t]

\* While mounted, a sector with no copy in memory (in the list, pending
\* eviction or about to be pushed) holds its latest value on the device:
\* eviction writes back before it frees, so no write is lost.
NoLostWrite ==
  mounted =>
  \A s \in Sectors :
    (/\ \A e \in Range(cacheList) \cup Victims : entry[e].sector # s
     /\ \A n \in Pending : n.sector # s)
    => disk[s] = latest[s]

\* After filesys_done the device holds the latest value of every sector:
\* the shutdown flush writes every entry whose data differs from disk.
ShutdownDurable == ~mounted => \A s \in Sectors : disk[s] = latest[s]

\* A thread copying under a pointer it obtained from get_info copies into
\* the live entry of its sector, not into memory evict_cache has freed.
NoUseAfterFree ==
  \A t \in Threads :
    pc[t] = "hit" => ptr[t] \in alloc /\ entry[ptr[t]].sector = op[t].sector

-----------------------------------------------------------------------------
(* Refinement of SectorStore.  The contents a caller would see for sector  *)
(* s: the data of the entry get_info would find, else of the entry a       *)
(* thread is about to push, else of the victim being written back, else    *)
(* the device.                                                              *)

Contents ==
  [s \in Sectors |->
     LET i == GetInfo(s)
         pend == {n \in Pending : n.sector = s}
         vict == {e \in Victims : entry[e].sector = s}
     IN  IF i # 0 THEN entry[cacheList[i]].data
         ELSE IF pend # {} THEN (CHOOSE n \in pend : TRUE).data
         ELSE IF vict # {} THEN entry[CHOOSE e \in vict : TRUE].data
         ELSE disk[s]]

\* A write call that has been made and has not yet copied its bytes.
WriteRequests ==
  [t \in Threads |->
     IF op[t].kind = "write" /\ pc[t] \in {"hit", "miss"}
     THEN [sector |-> op[t].sector, val |-> op[t].val]
     ELSE NoSlot]

Abstract == INSTANCE SectorStore WITH store <- Contents, wreq <- WriteRequests,
                                      NoReq <- NoSlot

\* The cache is transparent: what callers see of a sector changes only
\* when a pending write_block of that sector copies its bytes, once, with
\* its value; never by an eviction, a flush, the shutdown flush or a
\* remount.
CacheRefinesStore == Abstract!Spec

\* Every read_block, write_block, read_ahead and cache_sector call returns
\* to its caller: an eviction's victim lock is always released, so a later
\* hit on a slot malloc hands out again is never blocked for good.
CallsReturn == \A t \in Threads : pc[t] # "idle" ~> pc[t] = "idle"
=============================================================================
