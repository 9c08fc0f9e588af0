---------------------------- MODULE InodeTable -----------------------------
(***************************************************************************)
(* The in-memory inode table of filesys/inode.c (open_inodes, inode_open,  *)
(* inode_reopen, inode_close, inode_remove, inode_deny_write,              *)
(* inode_allow_write) and the free map it returns sectors to, driven by    *)
(* the callers that open, close and remove files by name: dir_lookup2 and  *)
(* dir_remove (filesys/directory.c) and the file layer above them.         *)
(*                                                                         *)
(* A thread's call is split where it can block: between the directory      *)
(* lookup and inode_open, between inode_open's scan of open_inodes and its *)
(* push (malloc may block), between dir_remove's erase of the entry and    *)
(* its inode_remove, and inside inode_close between --open_cnt and         *)
(* list_remove: no lock guards open_inodes, and the timer may preempt a    *)
(* thread between the two statements.                                      *)
(***************************************************************************)
EXTENDS Naturals, Sequences, SequencesExt, FiniteSets

CONSTANTS
  Threads,
  Files,      \* inode sectors of the files on disk
  Handles,    \* memory a struct inode can be malloc'd in
  DirectOf,   \* DirectOf[f]: data sectors f's direct pointers name
  IndirectOf, \* IndirectOf[f]: f's indirect index blocks
  DataOf,     \* DataOf[b]: data sectors indirect block b points to
  Garbage,    \* what an uninitialised block_sector_t may hold
  MaxOpen,    \* most files one thread keeps open at once
  NoHandle    \* no struct inode

SectorsOf(f) == {f} \cup DirectOf[f] \cup IndirectOf[f]
                \cup UNION {DataOf[b] : b \in IndirectOf[f]}
AllSectors == UNION {SectorsOf(f) : f \in Files}

VARIABLES
  openList, \* open_inodes, front first
  hinfo,    \* hinfo[h]: sector, open_cnt, deny_write_cnt, removed of h
  halloc,   \* struct inode objects currently malloc'd
  used,     \* sectors the free map has allocated
  linked,   \* files that have a directory entry
  held,     \* held[t][h]: files thread t has open on h
  denied,   \* denied[t][h]: those of them that deny writes
  pc, tgt, why, hnd,
  closing   \* closing[t]: the inode whose last close t is finishing

vars == <<openList, hinfo, halloc, used, linked, held, denied, pc, tgt, why,
          hnd, closing>>

Info == [sector : Files, open : Nat, deny : Nat, removed : BOOLEAN]
Free == [sector |-> CHOOSE f \in Files : TRUE, open |-> 0, deny |-> 0,
         removed |-> FALSE]

TypeOK ==
  /\ openList \in Seq(Handles)
  /\ hinfo \in [Handles -> Info]
  /\ halloc \subseteq Handles
  /\ used \subseteq AllSectors
  /\ linked \subseteq Files
  /\ held \in [Threads -> [Handles -> 0 .. MaxOpen]]
  /\ denied \in [Threads -> [Handles -> 0 .. MaxOpen]]
  /\ pc \in [Threads -> {"idle", "scan", "alloc", "erase", "unlink",
                             "close"}]
  /\ tgt \in [Threads -> Files]
  /\ why \in [Threads -> {"open", "remove"}]
  /\ hnd \in [Threads -> Handles \cup {NoHandle}]
  /\ closing \in [Threads -> Handles \cup {NoHandle}]

Init ==
  /\ openList = << >>
  /\ hinfo = [h \in Handles |-> Free]
  /\ halloc = {}
  /\ used = AllSectors
  /\ linked = Files
  /\ held = [t \in Threads |-> [h \in Handles |-> 0]]
  /\ denied = [t \in Threads |-> [h \in Handles |-> 0]]
  /\ pc = [t \in Threads |-> "idle"]
  /\ tgt = [t \in Threads |-> CHOOSE f \in Files : TRUE]
  /\ why = [t \in Threads |-> "open"]
  /\ hnd = [t \in Threads |-> NoHandle]
  /\ closing = [t \in Threads |-> NoHandle]

-----------------------------------------------------------------------------
(* inode_close and the free-map release of a removed inode.                 *)

\* The loop over an indirect block (lines 383-389): memcpy (db, ...) copies
\* into the address an uninitialised db holds, never into db, so what
\* free_map_release receives in each iteration is db's garbage: 0 (skipped)
\* or whatever sector that stack slot last held.
IndirectRelease(f) ==
  {UNION {choice[b] : b \in IndirectOf[f]} :
     choice \in [IndirectOf[f] -> SUBSET (Garbage \ {0})]}

\* Sectors inode_close releases for a removed inode f (lines 364-415).
ReleaseSets(f) ==
  {{f} \cup DirectOf[f] \cup IndirectOf[f] \cup g : g \in IndirectRelease(f)}

\* inode_remove (h): mark it for deletion at the last close.
InodeRemove(info, h) == [info EXCEPT ![h].removed = TRUE]

\* inode_close (h) by thread t, from the table state info, up to the test
\* of --open_cnt: a thread that dropped the last reference goes on to
\* InodeRelease, any other returns.
InodeClose(info, h, t) ==
  /\ hinfo' = [info EXCEPT ![h].open = @ - 1]
  /\ IF info[h].open = 1
     THEN /\ pc' = [pc EXCEPT ![t] = "close"]
          /\ closing' = [closing EXCEPT ![t] = h]
     ELSE /\ pc' = [pc EXCEPT ![t] = "idle"]
          /\ UNCHANGED closing
  /\ UNCHANGED <<openList, halloc, used>>

\* The rest of the last close: list_remove, then, if the inode is removed
\* (read now, not at the decrement), release its sectors, and free it.
\* After list_remove no scan can find h, so the rest is one step.
InodeRelease(t) ==
  LET h == closing[t] IN
  /\ pc[t] = "close"
  /\ openList' = SelectSeq(openList, LAMBDA x : x # h)
  /\ halloc' = halloc \ {h}
  /\ IF hinfo[h].removed
     THEN \E rel \in ReleaseSets(hinfo[h].sector) : used' = used \ rel
     ELSE UNCHANGED used
  /\ pc' = [pc EXCEPT ![t] = "idle"]
  /\ closing' = [closing EXCEPT ![t] = NoHandle]
  /\ UNCHANGED <<hinfo, linked, held, denied, tgt, why, hnd>>

-----------------------------------------------------------------------------
(* Opening by name: the directory lookup, then inode_open.                  *)

\* lookup () finds f's entry; dir_lookup2 (or dir_remove) goes on to
\* inode_open (e.inode_sector).
Lookup(t, f, w) ==
  /\ pc[t] = "idle"
  /\ f \in linked
  /\ w = "open" => SumFunction(held[t]) < MaxOpen
  /\ pc' = [pc EXCEPT ![t] = "scan"]
  /\ tgt' = [tgt EXCEPT ![t] = f]
  /\ why' = [why EXCEPT ![t] = w]
  /\ UNCHANGED <<openList, hinfo, halloc, used, linked, held, denied, hnd,
                 closing>>

\* inode_open has handle h for the caller: a file open records it, and
\* dir_remove goes on to erase the entry.
Opened(t, h) ==
  IF why[t] = "open"
  THEN /\ held' = [held EXCEPT ![t][h] = @ + 1]
       /\ pc' = [pc EXCEPT ![t] = "idle"]
       /\ UNCHANGED hnd
  ELSE /\ hnd' = [hnd EXCEPT ![t] = h]
       /\ pc' = [pc EXCEPT ![t] = "erase"]
       /\ UNCHANGED held

\* inode_reopen (h): open_cnt++.
InodeReopen(info, h) == [info EXCEPT ![h].open = @ + 1]

\* inode_open's scan of open_inodes: a match is reopened.
OpenScan(t) ==
  LET i == SelectInSeq(openList, LAMBDA h : hinfo[h].sector = tgt[t]) IN
  /\ pc[t] = "scan"
  /\ IF i # 0
     THEN /\ hinfo' = InodeReopen(hinfo, openList[i])
          /\ Opened(t, openList[i])
     ELSE /\ pc' = [pc EXCEPT ![t] = "alloc"]
          /\ UNCHANGED <<hinfo, held, hnd>>
  /\ UNCHANGED <<openList, halloc, used, linked, denied, tgt, why, closing>>

\* The rest of inode_open after malloc: push the new inode at the front.
OpenNew(t) ==
  /\ pc[t] = "alloc"
  /\ \E h \in Handles \ halloc :
       /\ halloc' = halloc \cup {h}
       /\ openList' = <<h>> \o openList
       /\ hinfo' = [hinfo EXCEPT ![h] = [sector |-> tgt[t], open |-> 1,
                                         deny |-> 0, removed |-> FALSE]]
       /\ Opened(t, h)
  /\ UNCHANGED <<used, linked, denied, tgt, why, closing>>

-----------------------------------------------------------------------------
(* dir_remove once it has the inode: erase the entry, inode_remove, close.  *)

\* The entry's in_use is cleared and written back (lines 323-324).
Erase(t) ==
  /\ pc[t] = "erase"
  /\ linked' = linked \ {tgt[t]}
  /\ pc' = [pc EXCEPT ![t] = "unlink"]
  /\ UNCHANGED <<openList, hinfo, halloc, used, held, denied, tgt, why,
                 hnd, closing>>

\* dir_remove after the erase: inode_remove, then inode_close.
RemoveClose(t) ==
  /\ pc[t] = "unlink"
  /\ InodeClose(InodeRemove(hinfo, hnd[t]), hnd[t], t)
  /\ hnd' = [hnd EXCEPT ![t] = NoHandle]
  /\ UNCHANGED <<linked, held, denied, tgt, why>>

-----------------------------------------------------------------------------
(* The file layer (file.c): deny and allow writes, close.                   *)

\* inode_deny_write and inode_allow_write; their ASSERTs are the deny
\* count staying within 0 .. open_cnt, which RefCountsExact implies.
InodeDenyWrite(info, h) == [info EXCEPT ![h].deny = @ + 1]
InodeAllowWrite(info, h) == [info EXCEPT ![h].deny = @ - 1]

\* file_deny_write: once per file.
DenyWrite(t, h) ==
  /\ pc[t] = "idle"
  /\ denied[t][h] < held[t][h]
  /\ denied' = [denied EXCEPT ![t][h] = @ + 1]
  /\ hinfo' = InodeDenyWrite(hinfo, h)
  /\ UNCHANGED <<openList, halloc, used, linked, held, pc, tgt, why,
                 hnd, closing>>

\* file_allow_write: only a file that denied writes.
AllowWrite(t, h) ==
  /\ pc[t] = "idle"
  /\ denied[t][h] > 0
  /\ denied' = [denied EXCEPT ![t][h] = @ - 1]
  /\ hinfo' = InodeAllowWrite(hinfo, h)
  /\ UNCHANGED <<openList, halloc, used, linked, held, pc, tgt, why,
                 hnd, closing>>

\* file_close: a file that denied writes allows them again, then
\* inode_close.
FileClose(t, h) ==
  /\ pc[t] = "idle"
  /\ held[t][h] > denied[t][h]
  /\ held' = [held EXCEPT ![t][h] = @ - 1]
  /\ InodeClose(hinfo, h, t)
  /\ UNCHANGED <<linked, denied, tgt, why, hnd>>

-----------------------------------------------------------------------------
(* filesys_create_file: allocate the inode sector, inode_create, dir_add.   *)
(* A file is identified by its inode sector, so a removed file whose        *)
(* sectors are all free again can be created anew in the same sectors.      *)

Create(t, f) ==
  /\ pc[t] = "idle"
  /\ f \notin linked
  /\ SectorsOf(f) \cap used = {}
  /\ used' = used \cup SectorsOf(f)
  /\ linked' = linked \cup {f}
  /\ UNCHANGED <<openList, hinfo, halloc, held, denied, pc, tgt, why,
                 hnd, closing>>

Next ==
  \E t \in Threads :
    \/ \E f \in Files, w \in {"open", "remove"} : Lookup(t, f, w)
    \/ OpenScan(t)
    \/ OpenNew(t)
    \/ Erase(t)
    \/ RemoveClose(t)
    \/ InodeRelease(t)
    \/ \E h \in Handles : DenyWrite(t, h) \/ AllowWrite(t, h) \/ FileClose(t, h)
    \/ \E f \in Files : Create(t, f)

Spec == Init /\ [][Next]_vars

-----------------------------------------------------------------------------
(* Properties                                                               *)

\* References to h: the files open on it and a dir_remove holding it.
Refs(h) == SumFunction([t \in Threads |-> held[t][h]])
           + Cardinality({t \in Threads : hnd[t] = h})

\* open_cnt and deny_write_cnt of every struct inode equal the references
\* and denials its users hold, and nobody holds one that inode_close freed:
\* the reopen/close/remove sequences of several threads keep the counts
\* exact (inode_open, inode_reopen, inode_close, file_deny_write).
RefCountsExact ==
  \A h \in Handles :
    IF h \in halloc
    THEN /\ hinfo[h].open = Refs(h)
         /\ hinfo[h].deny = SumFunction([t \in Threads |-> denied[t][h]])
    ELSE Refs(h) = 0

\* inode_open returns the one struct inode of a sector: open_inodes never
\* holds two for the same sector, so removal and deny-write are seen by all
\* openers.
OneHandlePerSector ==
  \A h1, h2 \in halloc : h1 # h2 => hinfo[h1].sector # hinfo[h2].sector

\* No sector of an inode that is open is back in the free map: inode_close
\* releases a removed inode's sectors only at its last close.
NoReleaseWhileOpen ==
  \A h \in halloc : SectorsOf(hinfo[h].sector) \subseteq used

\* A removed file that nobody has open, and nobody is about to open, has
\* all its sectors back in the free map: inode_close releases everything
\* inode_create and inode_extend allocated.
NoLeakAfterRemove ==
  \A f \in Files :
    ( /\ f \notin linked
      /\ \A h \in halloc : hinfo[h].sector # f
      /\ \A t \in Threads : pc[t] \in {"scan", "alloc"} => tgt[t] # f )
    => SectorsOf(f) \cap used = {}

====
