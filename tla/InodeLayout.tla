---------------------------- MODULE InodeLayout ----------------------------
(***************************************************************************)
(* The on-disk block tree of filesys/inode.c: how inode_create and         *)
(* inode_extend allocate direct, indirect and double-indirect blocks, and  *)
(* how byte_to_sector walks the tree back.  Each file is created, then     *)
(* grown by the extensions inode_write_at asks for.                        *)
(*                                                                         *)
(* The code's constants are parameters: ND, NI, NDI are NUM_DIRECT,        *)
(* NUM_INDIRECT, NUM_DOUBLE_INDIRECT; K is the 64 pointers the code puts   *)
(* in one index block (BLOCK_SECTOR_SIZE / 8); a sector buffer has room    *)
(* for BufSlots = 2K four-byte pointers (BLOCK_SECTOR_SIZE / 4); SS is     *)
(* BLOCK_SECTOR_SIZE in bytes.  Sector contents other than pointers are    *)
(* left out: a data sector is only ever zeroed here.                       *)
(*                                                                         *)
(* Each operation runs to completion in one step: its loops are the        *)
(* RECURSIVE operators below, threading an accumulator record through the  *)
(* free-map allocations and block writes in the order the code makes them. *)
(***************************************************************************)
EXTENDS Naturals, FiniteSets

CONSTANTS Files, ND, NI, NDI, K, SS,
          DeviceSectors,  \* size of the device; allocation stays below it
          MaxLen,         \* largest file length (bytes) an extension asks for
          MaxGrowth,      \* most bytes one write may add past end of file
          CreateLens      \* initial sizes passed to filesys_create

BufSlots == 2 * K
\* Variant: a sector buffer sized in pointers (BLOCK_SECTOR_SIZE / 8)
\* rather than in four-byte slots.
ZerosHalf == [k \in 0 .. K - 1 |-> 0]
\* static char zeros[BLOCK_SECTOR_SIZE], as pointer slots.
Zeros == [k \in 0 .. BufSlots - 1 |-> 0]
\* Sector 0 holds the free map and sector 1 the root directory.
FirstFree == 2
\* A pointer read from outside any buffer, or from a sector that is not on
\* the device: not a value the model can predict.
Undef == DeviceSectors
MaxSectors == ND + NI * K + NDI * K * K

ASSUME /\ {ND, NI, NDI, K, SS} \subseteq Nat \ {0}
       /\ CreateLens \subseteq 0 .. MaxLen
       /\ MaxLen <= MaxSectors * SS

VARIABLES
  next,         \* the free map: every sector below next is allocated
  blk,          \* blk[s]: the pointer slots of sector s on the device
  dinode,       \* dinode[f]: the inode_disk of file f (sector 0: none yet)
  createDirect, \* the static char direct[] of inode_create (line 200)
  extendDirect, \* the static char direct[] of inode_extend (line 566)
  ovf           \* some write or read went outside its buffer or array

vars == <<next, blk, dinode, createDirect, extendDirect, ovf>>

Buffer == [0 .. BufSlots - 1 -> 0 .. Undef]
DiskInode == [sector : 0 .. Undef, length : 0 .. MaxLen,
              direct : [0 .. ND - 1 -> 0 .. Undef],
              indirect : [0 .. NI - 1 -> 0 .. Undef],
              dbl : [0 .. NDI - 1 -> 0 .. Undef]]

TypeOK ==
  /\ next \in FirstFree .. DeviceSectors
  /\ blk \in [0 .. DeviceSectors - 1 -> Buffer]
  /\ dinode \in [Files -> DiskInode]
  /\ createDirect \in Buffer /\ extendDirect \in Buffer
  /\ ovf \in BOOLEAN

NoInode == [sector |-> 0, length |-> 0,
            direct |-> [i \in 0 .. ND - 1 |-> 0],
            indirect |-> [i \in 0 .. NI - 1 |-> 0],
            dbl |-> [i \in 0 .. NDI - 1 |-> 0]]

Init ==
  /\ next = FirstFree
  /\ blk = [s \in 0 .. DeviceSectors - 1 |-> Zeros]
  /\ dinode = [f \in Files |-> NoInode]
  /\ createDirect = Zeros /\ extendDirect = Zeros
  /\ ovf = FALSE

-----------------------------------------------------------------------------
(* Arithmetic.                                                              *)

DivRoundUp(a, b) == (a + b - 1) \div b

BytesToSectors(size) == DivRoundUp(size, SS)

\* A size_t difference compared with a loop bound: when a < b it wraps to
\* a value above every bound, so the loop runs no iteration.
USub(a, b) == IF a >= b THEN a - b ELSE MaxSectors * BufSlots

\* Reading slot k of a buffer: outside the buffer the value is undefined.
Slot(b, k) == IF k \in DOMAIN b THEN b[k] ELSE Undef

\* block_read of sector s.
BlockAt(s) == IF s \in DOMAIN blk THEN blk[s] ELSE [k \in 0 .. BufSlots - 1 |-> Undef]

-----------------------------------------------------------------------------
(* The loops.  An accumulator r has the free-map position (next), the       *)
(* device (blk), the overflow flag (ovf), the pointer buffer the loop       *)
(* fills (buf), the inode array it fills (arr) and, for double-indirect     *)
(* blocks, the buffer of indirect pointers (ibuf).                          *)

\* memcpy of pointer v into slot k of buffer b; a slot past the buffer is
\* a write outside it, recorded in ovf and otherwise lost.
Put(b, k, v) == IF k \in DOMAIN b THEN [b EXCEPT ![k] = v] ELSE b

RECURSIVE Fill(_, _, _)
\* for (k = from; k < to; k++) { s = free_map_allocate_one ();
\*   block_write (s, zeros); buf[k] = s; }
Fill(r, k, to) ==
  IF k >= to THEN r
  ELSE Fill([r EXCEPT !.next = @ + 1,
                      !.blk = IF r.next \in DOMAIN @ THEN [@ EXCEPT ![r.next] = Zeros] ELSE @,
                      !.buf = Put(@, k, r.next),
                      !.ovf = @ \/ k \notin DOMAIN r.buf], k + 1, to)

\* block_write of buf to sector s.
WriteBuf(r, s) ==
  [r EXCEPT !.blk = IF s \in DOMAIN @ THEN [@ EXCEPT ![s] = r.buf] ELSE @]

RECURSIVE CreateIndirects(_, _, _, _)
\* inode_create's indirect loop: block i of cnt gets K data sectors, the last
\* one indirect_direct, filled into the one static buffer and written out.
CreateIndirects(r, i, cnt, lastFill) ==
  IF i >= cnt THEN r
  ELSE LET s  == r.next
           r2 == Fill([r EXCEPT !.next = @ + 1, !.arr = Put(@, i, s)],
                      0, IF i = cnt - 1 THEN lastFill ELSE K)
       IN  CreateIndirects(WriteBuf(r2, s), i + 1, cnt, lastFill)

RECURSIVE FullIndirects(_, _)
\* The else branch of the double-indirect loops: K indirect blocks of K
\* data sectors each; the statics used here are written in full.
FullIndirects(r, j) ==
  IF j >= K THEN r
  ELSE LET s  == r.next
           r2 == Fill([r EXCEPT !.next = @ + 1, !.buf = Zeros,
                                !.ibuf = [@ EXCEPT ![j] = s]], 0, K)
       IN  FullIndirects(WriteBuf(r2, s), j + 1)

RECURSIVE DoubleLoop(_, _, _)
\* for (i = 0; i < cnt; i++): a double-indirect block and a full subtree.
\* Its partial branch tests i == cnt, which the loop bound never allows.
DoubleLoop(r, i, cnt) ==
  IF i >= cnt THEN r
  ELSE LET d  == r.next
           r2 == FullIndirects([r EXCEPT !.next = @ + 1, !.arr = Put(@, i, d),
                                         !.ovf = @ \/ i \notin DOMAIN r.arr,
                                         !.ibuf = Zeros], 0)
       IN  DoubleLoop([r2 EXCEPT !.blk = IF d \in DOMAIN @
                                       THEN [@ EXCEPT ![d] = r2.ibuf] ELSE @],
                      i + 1, cnt)

-----------------------------------------------------------------------------
(* inode_create, called by filesys_create_file on a freshly allocated       *)
(* sector.                                                                  *)

\* The tier counts of inode_create for n sectors (lines 166-186).
DirectCount(n)   == IF n <= ND THEN n ELSE ND
IndirectCount(n) == IF n <= ND THEN 0
                    ELSE IF n <= ND + NI * K THEN DivRoundUp(n - ND, K) ELSE NI
IndirectLast(n)  == IF n <= ND + NI * K THEN (n - ND) % K ELSE K
DoubleCount(n)   == IF n <= ND + NI * K THEN 0
                    ELSE DivRoundUp(n - ND - NI * K, K * K)

Create(f, len) ==
  LET n  == BytesToSectors(len)
      r0 == [next |-> next + 1, blk |-> blk, ovf |-> ovf,
             buf |-> [i \in 0 .. ND - 1 |-> 0], arr |-> Zeros, ibuf |-> Zeros]
      rD == Fill(r0, 0, DirectCount(n))
      rI == CreateIndirects([rD EXCEPT !.buf = createDirect,
                                       !.arr = [i \in 0 .. NI - 1 |-> 0]],
                            0, IndirectCount(n), IndirectLast(n))
      rB == DoubleLoop([rI EXCEPT !.arr = [i \in 0 .. NDI - 1 |-> 0]],
                       0, DoubleCount(n))
  IN
  /\ dinode[f].sector = 0
  /\ rB.next <= DeviceSectors
  /\ next' = rB.next
  /\ blk' = rB.blk
  /\ ovf' = rB.ovf
  /\ createDirect' = rI.buf
  /\ dinode' = [dinode EXCEPT ![f] = [sector |-> next, length |-> len,
                 direct |-> rD.buf, indirect |-> rI.arr, dbl |-> rB.arr]]
  /\ UNCHANGED extendDirect

-----------------------------------------------------------------------------
(* inode_extend, called by inode_write_at when a write ends past the end    *)
(* of the file.                                                             *)

\* Variant: the filled buffer is never written back to the block.
TopUpNoWriteBack(r, j, orig, new) ==
  LET s  == Slot(r.arr, j)
      r2 == Fill([r EXCEPT !.buf = BlockAt(s)],
                 USub(orig, ND + K * j), new - ND - K * j)
  IN  [r2 EXCEPT !.buf = r.buf]

\* Variant: the block is refilled from its first slot.
TopUpFromZero(r, j, orig, new) ==
  LET s  == Slot(r.arr, j)
      r2 == Fill([r EXCEPT !.buf = BlockAt(s)], 0, new - ND - K * j)
  IN  [WriteBuf(r2, s) EXCEPT !.buf = r.buf]

\* Read indirect block j into a buffer, allocate its slots from the ones the
\* old length used up to the ones the new length needs, write it back.
TopUp(r, j, orig, new) ==
  LET s  == Slot(r.arr, j)
      r2 == Fill([r EXCEPT !.buf = BlockAt(s)],
                 USub(orig, ND + K * j), new - ND - K * j)
  IN  [WriteBuf(r2, s) EXCEPT !.buf = r.buf]

RECURSIVE ExtendIndirects(_, _, _, _, _)
\* for (j = num_orig_ind_sectors; j < num_ind_sectors; j++): top up an
\* existing block, or allocate one and fill the static buffer with as many
\* data sectors as remain past block j.
ExtendIndirects(r, j, cnt, orig, new) ==
  IF j >= cnt THEN r
  ELSE IF Slot(r.arr, j) # 0
  THEN ExtendIndirects(TopUp(r, j, orig, new), j + 1, cnt, orig, new)
  ELSE LET s  == r.next
           r2 == Fill([r EXCEPT !.next = @ + 1, !.arr = Put(@, j, s)],
                      0, new - ND - K * j)
       IN  ExtendIndirects(WriteBuf(r2, s), j + 1, cnt, orig, new)

Extend(f, newlen) ==
  LET d     == dinode[f]
      orig  == BytesToSectors(d.length)
      new   == BytesToSectors(newlen)
      r0    == [next |-> next, blk |-> blk, ovf |-> ovf, buf |-> d.direct,
                arr |-> d.indirect, ibuf |-> Zeros]
      rTop  == IF orig <= ND THEN Fill(r0, orig, ND) ELSE r0
      nOrig == IF orig > ND THEN DivRoundUp(orig - ND, K) ELSE 0
      nInd  == DivRoundUp(new - ND, K)
      rI0   == [rTop EXCEPT !.buf = extendDirect]
      rI1   == IF nOrig = nInd THEN TopUp(rI0, nOrig - 1, orig, new) ELSE rI0
      rI    == ExtendIndirects(rI1, nOrig, nInd, orig, new)
      rB    == DoubleLoop([r0 EXCEPT !.arr = d.dbl], 0,
                          DivRoundUp(new - ND - NI * K, K))
      res   == IF new <= ND
               THEN [r |-> Fill(r0, orig, new), direct |-> Fill(r0, orig, new).buf,
                     indirect |-> d.indirect, dbl |-> d.dbl, sbuf |-> extendDirect]
               ELSE IF new <= ND + K * NI
               THEN [r |-> rI, direct |-> rTop.buf, indirect |-> rI.arr,
                     dbl |-> d.dbl, sbuf |-> rI.buf]
               ELSE [r |-> rB, direct |-> d.direct, indirect |-> d.indirect,
                     dbl |-> rB.arr, sbuf |-> extendDirect]
  IN
  /\ d.sector # 0
  /\ d.length < newlen
  /\ newlen <= d.length + MaxGrowth
  /\ res.r.next <= DeviceSectors
  /\ next' = res.r.next
  /\ blk' = res.r.blk
  /\ ovf' = res.r.ovf
  /\ extendDirect' = res.sbuf
  /\ dinode' = [dinode EXCEPT ![f] = [d EXCEPT !.length = newlen,
                 !.direct = res.direct, !.indirect = res.indirect, !.dbl = res.dbl]]
  /\ UNCHANGED createDirect

Next ==
  \/ \E f \in Files, len \in CreateLens : Create(f, len)
  \/ \E f \in Files, len \in 1 .. MaxLen : Extend(f, len)

Spec == Init /\ [][Next]_vars

-----------------------------------------------------------------------------
(* byte_to_sector, and the addressing the spec fixes for it (section 4.2).  *)

\* Variant: the slot within an indirect block is counted from the start of
\* the indirect tier.
ByteToSectorTierOffset(f, pos) ==
  LET d == dinode[f] IN
  IF pos < ND * SS THEN d.direct[pos \div SS]
  ELSE IF pos < ND * SS + K * NI * SS
  THEN LET ns  == (pos - ND * SS) \div (SS * K)
       IN  Slot(BlockAt(d.indirect[ns]), (pos - ND * SS) \div SS)
  ELSE Undef

ByteToSector(f, pos) ==
  LET d == dinode[f] IN
  IF pos < ND * SS THEN d.direct[pos \div SS]
  ELSE IF pos < ND * SS + K * NI * SS
  THEN LET ns  == (pos - ND * SS) \div (SS * K)
           off == (pos - ND * SS - ns * K * SS) \div SS
       IN  Slot(BlockAt(d.indirect[ns]), off)
  ELSE LET ns     == (pos \div SS - ND - NI * K) \div (K * K)
           offInd == (pos - ND * SS - NI * K * SS) \div (K * K * SS)
           ind    == Slot(BlockAt(Slot(d.dbl, ns)), offInd)
           off    == (pos - ND * SS - ns * K * SS) \div SS
       IN  Slot(BlockAt(ind), off)

\* Sector index i of file f: direct[i]; then slot (i-ND) % K of indirect
\* block (i-ND) div K; then, with r the index past the indirect tier, slot
\* r % K of the indirect block in slot (r % K^2) div K of double-indirect
\* block r div K^2.
IndexPath(f, i) ==
  LET d == dinode[f]
      r == i - ND - NI * K
      b == Slot(d.dbl, r \div (K * K))
  IN  IF i < ND THEN << >>
      ELSE IF i < ND + NI * K THEN << Slot(d.indirect, (i - ND) \div K) >>
      ELSE << b, Slot(BlockAt(b), (r % (K * K)) \div K) >>

RefLookup(f, i) ==
  LET p == IndexPath(f, i)
      j == i - ND
  IN  IF i < ND THEN dinode[f].direct[i]
      ELSE IF i < ND + NI * K THEN Slot(BlockAt(p[1]), j % K)
      ELSE Slot(BlockAt(p[2]), (j - NI * K) % K)

Created(f) == dinode[f].sector # 0
Length(f) == BytesToSectors(dinode[f].length)
DataPositions == {p \in Files \X (0 .. MaxSectors - 1) :
                    Created(p[1]) /\ p[2] < Length(p[1])}
Owner(p) == RefLookup(p[1], p[2])
Metadata == {dinode[f].sector : f \in {g \in Files : Created(g)}}
            \cup UNION {LET path == IndexPath(p[1], p[2])
                       IN {path[k] : k \in DOMAIN path} : p \in DataPositions}
Allocated == FirstFree .. next - 1

\* byte_to_sector finds, for every byte of every file, the sector the block
\* tree that inode_create and inode_extend built holds for that byte.
ByteToSectorCorrect ==
  \A f \in Files : Created(f) =>
    \A pos \in 0 .. dinode[f].length - 1 :
      ByteToSector(f, pos) = RefLookup(f, pos \div SS)

\* A sector is owned by at most one inode: every sector of every file is an
\* allocated sector that is no inode or index block, and no other sector
\* index of any file maps to it.
SectorsOwnedOnce ==
  /\ \A p \in DataPositions : Owner(p) \in Allocated \ Metadata
  /\ \A p, q \in DataPositions : p # q => Owner(p) # Owner(q)

\* inode_create and inode_extend allocate exactly the sectors the length
\* needs: every allocated sector is an inode, an index block on the path to
\* a sector of its file, or a data sector of one.
NoLeakedSectors == Allocated \subseteq Metadata \cup {Owner(p) : p \in DataPositions}

\* No loop of inode_create or inode_extend writes past a sector buffer or
\* past the pointer arrays of the inode_disk.
NoOverflow == ~ovf
====
