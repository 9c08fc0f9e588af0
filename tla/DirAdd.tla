------------------------------- MODULE DirAdd --------------------------------
(***************************************************************************)
(* Concurrent dir_add2 and dir_remove on one directory, filesys/           *)
(* directory.c, over the directory file as inode_read_at and               *)
(* inode_write_at (filesys/inode.c) see it.  No lock is held across a      *)
(* call: lookup and the free-slot scan read one entry per inode_read_at,   *)
(* and another thread may write between any two reads.  inode_write_at     *)
(* reads the length without a lock, then takes extension_lock, re-reads   *)
(* it and extends the file only if it is still short.                      *)
(*                                                                         *)
(* The directory file is a function from entry indices to entries; len is  *)
(* its length in entries (the inode's length / sizeof (struct dir_entry)). *)
(* An entry is in_use and a name; the inode sector and is_dir are left     *)
(* out, since no property tells them apart.                                *)
(***************************************************************************)
EXTENDS Integers, FiniteSets

CONSTANTS
  Threads,     \* threads calling filesys_create / filesys_remove
  Names,       \* file names the callers use
  Dot, DotDot, \* the "." and ".." entries dir_create2 writes first
  NoName,      \* the name field of a never-written entry (zeros)
  MaxEntries   \* the longest directory file explored, in entries

ASSUME {Dot, DotDot, NoName} \cap Names = {} /\ MaxEntries >= 2

VARIABLES
  dir,     \* the directory file's entries
  len,     \* its length, in entries
  pc,      \* where each thread is
  op,      \* each thread's call: [kind, name]
  idx,     \* the entry offset the current scan reads next
  ofs,     \* the offset the call writes at
  added    \* names whose dir_add2 returned true and that no remove
           \* has returned true for since

vars == <<dir, len, pc, op, idx, ofs, added>>

Entry == [inUse : BOOLEAN, name : Names \cup {Dot, DotDot, NoName}]
FreeEntry == [inUse |-> FALSE, name |-> NoName]
NoOp == [kind |-> "add", name |-> NoName]

\* A directory mkdir made: dir_create2 with size 0, then "." and ".."
\* added, so the file is two entries long.
Init ==
  /\ dir = [k \in 1 .. MaxEntries |->
              CASE k = 1 -> [inUse |-> TRUE, name |-> Dot]
                [] k = 2 -> [inUse |-> TRUE, name |-> DotDot]
                [] OTHER -> FreeEntry]
  /\ len = 2
  /\ pc = [t \in Threads |-> "idle"]
  /\ op = [t \in Threads |-> NoOp]
  /\ idx = [t \in Threads |-> 1]
  /\ ofs = [t \in Threads |-> 1]
  /\ added = {}

\* Thread t starts call k of name n with lookup from offset 0.
Start(t, k, n) ==
  /\ pc[t] = "idle"
  /\ op' = [op EXCEPT ![t] = [kind |-> k, name |-> n]]
  /\ idx' = [idx EXCEPT ![t] = 1]
  /\ pc' = [pc EXCEPT ![t] = "lookup"]
  /\ UNCHANGED <<dir, len, ofs, added>>

\* dir_add2 of a valid name: "Check that NAME is not in use".  An add starts
\* only while every thread's add could still grow the file within
\* MaxEntries.
AddCall(t, n) ==
  /\ len + Cardinality(Threads) <= MaxEntries
  /\ Start(t, "add", n)

\* dir_remove: lookup (dir, name, &e, &ofs) first.
RemoveCall(t, n) == Start(t, "remove", n)

\* One iteration of lookup: a read at or past the end is short and ends
\* the loop (not found); an in-use entry of the name is found.  dir_add2
\* fails on found and scans for a slot otherwise; dir_remove fails on not
\* found and erases the entry at the offset lookup returned otherwise.
LookupStep(t) ==
  LET i     == idx[t]
      found == i <= len /\ dir[i].inUse /\ dir[i].name = op[t].name
  IN
  /\ pc[t] = "lookup"
  /\ IF i > len \/ found
     THEN /\ pc' = [pc EXCEPT ![t] =
                     CASE op[t].kind = "add" /\ found    -> "idle"
                       [] op[t].kind = "add"             -> "scan"
                       [] found                          -> "wlen"
                       [] OTHER                          -> "idle"]
          /\ idx' = [idx EXCEPT ![t] = 1]
          /\ ofs' = IF op[t].kind = "remove" /\ found
                    THEN [ofs EXCEPT ![t] = i] ELSE ofs
     ELSE /\ idx' = [idx EXCEPT ![t] = i + 1]
          /\ UNCHANGED <<pc, ofs>>
  /\ UNCHANGED <<dir, len, op, added>>

\* One iteration of dir_add2's free-slot loop: it stops at the first entry
\* not in use or at a short read (the end of the file).
ScanStep(t) ==
  LET i == idx[t] IN
  /\ pc[t] = "scan"
  /\ IF i > len \/ ~dir[i].inUse
     THEN /\ ofs' = [ofs EXCEPT ![t] = i]
          /\ pc' = [pc EXCEPT ![t] = "wlen"]
          /\ UNCHANGED idx
     ELSE /\ idx' = [idx EXCEPT ![t] = i + 1]
          /\ UNCHANGED <<pc, ofs>>
  /\ UNCHANGED <<dir, len, op, added>>

\* inode_write_at: length = inode_length (inode), read without a lock; a
\* write past it goes to extend the file first.
WriteLen(t) ==
  /\ pc[t] = "wlen"
  /\ pc' = [pc EXCEPT ![t] = IF len < ofs[t] THEN "extend" ELSE "put"]
  /\ UNCHANGED <<dir, len, op, idx, ofs, added>>

\* Under extension_lock: if inode_length is still short, inode_extend
\* allocates zeroed sectors and sets the length to the end of the write.
Extend(t) ==
  /\ pc[t] = "extend"
  /\ len' = IF len < ofs[t] THEN ofs[t] ELSE len
  /\ pc' = [pc EXCEPT ![t] = "put"]
  /\ UNCHANGED <<dir, op, idx, ofs, added>>

\* The write loop of inode_write_at: bytes past inode_length are not
\* written (chunk_size <= 0) and the call returns short.  dir_add2 writes
\* an in-use entry of its name and succeeds on a full write; dir_remove
\* writes the entry it read with in_use false and then removes the inode.
Put(t) ==
  LET i  == ofs[t]
      n  == op[t].name
      ok == i <= len
  IN
  /\ pc[t] = "put"
  /\ dir' = IF ok THEN [dir EXCEPT ![i] = [inUse |-> op[t].kind = "add", name |-> n]]
            ELSE dir
  /\ added' = CASE ok /\ op[t].kind = "add" -> added \cup {n}
                [] ok                       -> added \ {n}
                [] OTHER                    -> added
  /\ pc' = [pc EXCEPT ![t] = "idle"]
  /\ UNCHANGED <<len, op, idx, ofs>>

Next ==
  \/ \E t \in Threads, n \in Names : AddCall(t, n) \/ RemoveCall(t, n)
  \/ \E t \in Threads :
       LookupStep(t) \/ ScanStep(t) \/ WriteLen(t) \/ Extend(t) \/ Put(t)

Spec == Init /\ [][Next]_vars

-----------------------------------------------------------------------------
(* Properties                                                               *)

\* A name dir_add2 reported as added stays readable in the directory until
\* a dir_remove of it succeeds (filesys_create returning true).
NoLostAdd ==
  \A n \in added : \E k \in 1 .. len : dir[k].inUse /\ dir[k].name = n
=============================================================================
