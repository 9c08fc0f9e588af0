------------------------------ MODULE FileSys --------------------------------
(***************************************************************************)
(* The buffer cache composed with the inode layer that uses it.  The inode *)
(* layer reaches sectors in two ways: inode_read_at, inode_write_at, the   *)
(* index reads of byte_to_sector and the length updates go through the     *)
(* cache (read_block, write_block); inode_create and inode_extend write    *)
(* every sector they allocate straight to fs_device with block_write, and  *)
(* inode_close releases a removed file's sectors with free_map_release.    *)
(* Neither path tells the cache, so a sector released and allocated again  *)
(* can still have the old file's copy in cache_list.                        *)
(*                                                                         *)
(* BufferCache's actions are used as they are; the cache calls the inode  *)
(* layer makes are restricted to allocated sectors.  A block_write is one  *)
(* step: it completes a write of the sector, so it is recorded in latest   *)
(* like a write_block's copy.                                               *)
(***************************************************************************)
EXTENDS BufferCache

VARIABLES
  used    \* sectors the free map has allocated

fsVars == <<vars, used>>

FsInit == Init /\ used = {}

\* free_map_allocate_one followed by block_write (fs_device, sector, buf):
\* inode_create and inode_extend give every new sector its initial
\* contents (zeros, an index block or the inode) on the device itself.
Alloc(s, v) ==
  /\ mounted
  /\ s \notin used
  /\ used' = used \cup {s}
  /\ disk' = [disk EXCEPT ![s] = v]
  /\ RecordWrite(s, v)
  /\ UNCHANGED <<cacheList, entry, alloc, locked, mounted, pc, op, ptr, buf,
                 flush, ret>>

\* inode_close of the last opener of a removed file: free_map_release of
\* its sectors.  The cache keeps whatever it holds for them.
Release(s) ==
  /\ s \in used
  /\ used' = used \ {s}
  /\ UNCHANGED vars

\* A cache step that is not a new call on a sector.
CacheStep ==
  \/ \E t \in Threads : HitCopy(t) \/ MissFill(t) \/ EvictWrite(t) \/ Return(t)
  \/ \E e \in Slots : RefreshEntry(e)
  \/ RefreshClear
  \/ DeleteCache
  \/ FilesysInit

FsNext ==
  \/ /\ \/ \E t \in Threads, s \in used :
              ReadBlock(t, s) \/ ReadAhead(t, s) \/ CacheSector(t, s)
        \/ \E t \in Threads, s \in used, v \in Vals : WriteBlock(t, s, v)
        \/ CacheStep
     /\ UNCHANGED used
  \/ \E s \in Sectors, v \in Vals : Alloc(s, v)
  \/ \E s \in Sectors : Release(s)

FsSpec == FsInit /\ [][FsNext]_fsVars
=============================================================================
