----------------------------- MODULE Directory ------------------------------
(***************************************************************************)
(* The directory layer and the path system calls built on it:            *)
(* build_path and filesys_create / filesys_open / filesys_remove           *)
(* (filesys/filesys.c), dir_add, dir_add2, dir_create2, dir_remove and     *)
(* lookup (filesys/directory.c), and the system calls create, mkdir,       *)
(* remove, chdir, open and close (userprog/syscall.c) with the working     *)
(* directory a process inherits in process_execute.                        *)
(*                                                                         *)
(* A directory's byte stream is the sequence of its entry slots; a path is *)
(* a sequence of characters over a small alphabet.  Each system call is    *)
(* one step: processes interleave between calls.  An inode is its sector; *)
(* ocnt[s] is the open_cnt of the struct inode of s (InodeTable checks     *)
(* that there is only one when opens do not race).                         *)
(***************************************************************************)
EXTENDS Naturals, Sequences, SequencesExt, FiniteSets

CONSTANTS
  Procs,     \* user processes
  First,     \* the process the kernel starts
  Sectors,   \* inode sectors, Root included
  Root,      \* ROOT_DIR_SECTOR
  Paths,     \* path arguments of the system calls (sequences of characters)
  NameMax,   \* NAME_MAX
  DirObjs,   \* memory a struct dir for a working directory can be malloc'd in
  NoObj,     \* no working directory
  MaxOpen,   \* most files a process keeps open
  MaxCnt     \* bound on any open_cnt (a guard, not a code limit)

ASSUME Root \in Sectors /\ First \in Procs /\ NoObj \notin DirObjs

Dot == <<".">>
DotDot == <<".", ".">>
Entry == [name : Seq({"a", "."}), sector : Sectors, inuse : BOOLEAN,
          isdir : BOOLEAN]

VARIABLES
  ents,    \* ents[s]: the entry slots stored in inode s
  kind,    \* kind[s]: "free" (free map), "file" or "dir"
  ocnt,    \* ocnt[s]: open_cnt of the inode of s
  removed, \* inodes marked by inode_remove
  dobj,    \* dobj[o]: the inode a working-directory struct dir wraps
  dalloc,  \* struct dir objects currently malloc'd
  cwd,     \* cwd[p]: thread_current ()->working_dir of p
  alive,   \* processes that have started and not exited
  fds      \* fds[p][s]: files p has open on inode s

vars == <<ents, kind, ocnt, removed, dobj, dalloc, cwd, alive, fds>>

TypeOK ==
  /\ ents \in [Sectors -> Seq(Entry)]
  /\ kind \in [Sectors -> {"free", "file", "dir"}]
  /\ ocnt \in [Sectors -> 0 .. MaxCnt]
  /\ removed \subseteq Sectors
  /\ dobj \in [DirObjs -> Sectors]
  /\ dalloc \subseteq DirObjs
  /\ cwd \in [Procs -> DirObjs \cup {NoObj}]
  /\ alive \subseteq Procs
  /\ fds \in [Procs -> [Sectors -> 0 .. MaxOpen]]

\* filesys_init after do_format: the root directory (dir_create, so no "."
\* or ".." entries), and the kernel thread's working directory, opened by
\* process_execute and shared with the first process.
Init ==
  LET o0 == CHOOSE o \in DirObjs : TRUE IN
  /\ ents = [s \in Sectors |-> << >>]
  /\ kind = [s \in Sectors |-> IF s = Root THEN "dir" ELSE "free"]
  /\ ocnt = [s \in Sectors |-> IF s = Root THEN 1 ELSE 0]
  /\ removed = {}
  /\ dobj = [o \in DirObjs |-> Root]
  /\ dalloc = {o0}
  /\ cwd = [p \in Procs |-> IF p = First THEN o0 ELSE NoObj]
  /\ alive = {First}
  /\ fds = [p \in Procs |-> [s \in Sectors |-> 0]]

-----------------------------------------------------------------------------
(* lookup and build_path: pure functions of the directory contents.         *)

\* lookup (dir, name) over the contents e: the first in-use slot named
\* name, 0 if none.
LookupIn(e, d, name) == SelectInSeq(e[d], LAMBDA x : x.inuse /\ x.name = name)
Lookup(d, name) == LookupIn(ents, d, name)

\* The sector the working directory of p wraps; dir_open_root when NULL.
CwdSector(p) == IF cwd[p] = NoObj THEN Root ELSE dobj[cwd[p]]

Fail == [ok |-> FALSE, dir |-> Root, name |-> << >>]

\* The loop of build_path (lines 110-153) from directory d: split off the
\* next component; a component followed by '/' must be a directory entry,
\* the last one is returned unresolved ("." when empty).
RECURSIVE Walk(_, _)
Walk(path, d) ==
  LET k == SelectInSeq(path, LAMBDA c : c = "/")
      length == IF k = 0 THEN Len(path) ELSE k - 1
      name == SubSeq(path, 1, length)
  IN IF length > NameMax THEN Fail
     ELSE IF k # 0
       THEN LET i == Lookup(d, name) IN
            IF i = 0 \/ ~ents[d][i].isdir THEN Fail
            ELSE Walk(SubSeq(path, k + 1, Len(path)), ents[d][i].sector)
       ELSE [ok |-> TRUE, dir |-> d,
             name |-> IF length = 0 THEN Dot ELSE name]

\* build_path (path, &dir, name) for process p (lines 78-106): the start
\* directory by the first character, then the loop.
BuildPath(path, p) ==
  IF path = << >> THEN Fail
  ELSE IF path[1] = "/"
    THEN Walk(IF Len(path) > 1 /\ path[2] = "/" THEN SubSeq(path, 3, Len(path))
              ELSE Tail(path), Root)
  ELSE IF path[1] = "." /\ Len(path) > 1 /\ path[2] = "/"
    THEN Walk(Tail(path), CwdSector(p))
  ELSE Walk(path, CwdSector(p))

-----------------------------------------------------------------------------
(* Helpers of the system calls.                                             *)

\* free_map_allocate (1, &sector): the lowest free sector, 0 when full.
FreeSector ==
  IF \E x \in Sectors : kind[x] = "free"
  THEN CHOOSE x \in Sectors : kind[x] = "free" /\ \A y \in Sectors :
         kind[y] = "free" => x <= y
  ELSE 0

\* The checks of dir_add and dir_add2 before they write: a valid name
\* that lookup does not find.
CanAdd(e, d, name) ==
  name # << >> /\ Len(name) <= NameMax /\ LookupIn(e, d, name) = 0

\* The write of dir_add / dir_add2: the first slot not in use, or a new
\* slot at the end of the directory.
AddEntry(e, d, name, s, isdir) ==
  LET i == SelectInSeq(e[d], LAMBDA x : ~x.inuse)
      new == [name |-> name, sector |-> s, inuse |-> TRUE, isdir |-> isdir]
  IN [e EXCEPT ![d] = IF i = 0 THEN Append(@, new) ELSE [@ EXCEPT ![i] = new]]

\* inode_close on a count already at 0 is a use of a freed struct inode;
\* the model leaves the count at 0.
Dec(n, k) == IF n >= k THEN n - k ELSE 0

\* What inode_close does once the counts are oc: a removed inode that
\* nobody has open goes back to the free map.
Settle(oc, rem) ==
  /\ kind' = [x \in Sectors |-> IF oc[x] = 0 /\ x \in rem THEN "free" ELSE kind[x]]
  /\ removed' = {x \in rem : oc[x] > 0}
  /\ ocnt' = oc

\* filesys_open (path) for p: the inode it opens and whether the file
\* returned owns a reference to it ("." wraps the working directory's inode
\* without reopening it).
Opened(p, path) ==
  IF path = <<"/">> THEN [ok |-> TRUE, sector |-> Root, owned |-> TRUE]
  ELSE IF path = Dot THEN [ok |-> TRUE, sector |-> CwdSector(p), owned |-> FALSE]
  ELSE LET bp == BuildPath(path, p)
           i == IF bp.ok THEN Lookup(bp.dir, bp.name) ELSE 0
       IN IF i = 0 THEN [ok |-> FALSE, sector |-> Root, owned |-> FALSE]
          ELSE [ok |-> TRUE, sector |-> ents[bp.dir][i].sector, owned |-> TRUE]

-----------------------------------------------------------------------------
(* System calls                                                             *)

\* create / mkdir: filesys_create (path, 0, isdir).  A file whose path has
\* no directory part goes through filesys_create_file in the working
\* directory, and the directory build_path opened is never closed.
SysCreate(p, path, isdir) ==
  LET bp == BuildPath(path, p)
      s == FreeSector
      viaCwd == ~isdir /\ (bp.name = path \/ Len(path) = Len(bp.name) + 1)
      d == IF viaCwd THEN CwdSector(p) ELSE bp.dir
      self == [name |-> Dot, sector |-> s, inuse |-> TRUE, isdir |-> TRUE]
      parent == [name |-> DotDot, sector |-> bp.dir, inuse |-> TRUE,
                 isdir |-> TRUE]
      fresh == [ents EXCEPT ![s] = IF isdir THEN <<self, parent>> ELSE << >>]
      \* dir_create2 writes the new inode before dir_add2 reads d
      ok == s # 0 /\ CanAdd(fresh, d, bp.name)
  IN
  /\ p \in alive
  /\ bp.ok
  /\ viaCwd => ocnt[bp.dir] < MaxCnt
  /\ ocnt' = IF viaCwd THEN [ocnt EXCEPT ![bp.dir] = @ + 1] ELSE ocnt
  /\ ents' = IF s = 0 THEN ents
             ELSE IF ok THEN AddEntry(fresh, d, bp.name, s, isdir) ELSE fresh
  /\ kind' = IF ok THEN [kind EXCEPT ![s] = IF isdir THEN "dir" ELSE "file"]
             ELSE kind
  /\ UNCHANGED <<removed, dobj, dalloc, cwd, alive, fds>>

\* Mutant: inode_remove runs when the write of the erased entry is lost.
SysRemoveUnerased(p, path) ==
  LET bp == BuildPath(path, p)
      i == IF bp.ok THEN Lookup(bp.dir, bp.name) ELSE 0
      e == ents[bp.dir][i]
  IN
  /\ p \in alive
  /\ i # 0
  /\ e.sector # CwdSector(p)
  /\ Settle(ocnt, removed \cup {e.sector})
  /\ UNCHANGED <<ents, dobj, dalloc, cwd, alive, fds>>

\* remove: filesys_remove, that is build_path and dir_remove.
SysRemove(p, path) ==
  LET bp == BuildPath(path, p)
      i == IF bp.ok THEN Lookup(bp.dir, bp.name) ELSE 0
      e == ents[bp.dir][i]
      \* open_cnt once dir_remove has opened it: its own open, and the
      \* directory build_path holds when that is the same inode
      count == ocnt[e.sector] + 1 + (IF bp.dir = e.sector THEN 1 ELSE 0)
      empty == \A j \in DOMAIN ents[e.sector] :
                 ents[e.sector][j].inuse => ents[e.sector][j].name \in {Dot, DotDot}
  IN
  /\ p \in alive
  /\ i # 0
  /\ e.sector # CwdSector(p)
  /\ e.isdir => count <= 2 /\ empty
  /\ ents' = [ents EXCEPT ![bp.dir][i].inuse = FALSE]
  /\ Settle(ocnt, removed \cup {e.sector})
  /\ UNCHANGED <<dobj, dalloc, cwd, alive, fds>>

\* chdir: filesys_open, dir_reopen of the file as a struct dir, file_close,
\* then dir_close of the old working directory.  Nothing checks that the
\* file is a directory.
SysChdir(p, path) ==
  LET f == Opened(p, path)
      old == cwd[p]
      up == [ocnt EXCEPT ![f.sector] = IF f.owned THEN @ + 1 ELSE @]
  IN
  /\ p \in alive
  /\ f.ok
  /\ ocnt[f.sector] < MaxCnt
  /\ \E o \in DirObjs \ dalloc :
       /\ dobj' = [dobj EXCEPT ![o] = f.sector]
       /\ dalloc' = (dalloc \ {old}) \cup {o}
       /\ cwd' = [cwd EXCEPT ![p] = o]
  /\ Settle([up EXCEPT ![dobj[old]] = Dec(@, 1)], removed)
  /\ UNCHANGED <<ents, alive, fds>>

\* Mutant: open without the check for a free descriptor.
SysOpenNoLimit(p, path) ==
  LET f == Opened(p, path) IN
  /\ p \in alive
  /\ f.ok
  /\ ocnt[f.sector] < MaxCnt
  /\ fds' = [fds EXCEPT ![p][f.sector] = @ + 1]
  /\ ocnt' = IF f.owned THEN [ocnt EXCEPT ![f.sector] = @ + 1] ELSE ocnt
  /\ UNCHANGED <<ents, kind, removed, dobj, dalloc, cwd, alive>>

\* open: filesys_open and a free descriptor.
SysOpen(p, path) ==
  LET f == Opened(p, path) IN
  /\ p \in alive
  /\ SumFunction(fds[p]) < MaxOpen
  /\ f.ok
  /\ ocnt[f.sector] < MaxCnt
  /\ fds' = [fds EXCEPT ![p][f.sector] = @ + 1]
  /\ ocnt' = IF f.owned THEN [ocnt EXCEPT ![f.sector] = @ + 1] ELSE ocnt
  /\ UNCHANGED <<ents, kind, removed, dobj, dalloc, cwd, alive>>

\* close: file_close, that is inode_close.
SysClose(p, s) ==
  /\ p \in alive
  /\ fds[p][s] > 0
  /\ fds' = [fds EXCEPT ![p][s] = @ - 1]
  /\ Settle([ocnt EXCEPT ![s] = Dec(@, 1)], removed)
  /\ UNCHANGED <<ents, dobj, dalloc, cwd, alive>>

\* exec: process_execute gives the child the parent's working_dir pointer.
Exec(p, c) ==
  /\ p \in alive
  /\ c \notin alive
  /\ alive' = alive \cup {c}
  /\ cwd' = [cwd EXCEPT ![c] = cwd[p]]
  /\ UNCHANGED <<ents, kind, ocnt, removed, dobj, dalloc, fds>>

\* exit: process_exit closes the open files; working_dir is not closed.
Exit(p) ==
  /\ p \in alive \ {First}
  /\ alive' = alive \ {p}
  /\ cwd' = [cwd EXCEPT ![p] = NoObj]
  /\ fds' = [fds EXCEPT ![p] = [s \in Sectors |-> 0]]
  /\ Settle([s \in Sectors |-> Dec(ocnt[s], fds[p][s])], removed)
  /\ UNCHANGED <<ents, dobj, dalloc>>

Next ==
  \E p \in Procs :
    \/ \E path \in Paths, isdir \in BOOLEAN : SysCreate(p, path, isdir)
    \/ \E path \in Paths : SysRemove(p, path) \/ SysChdir(p, path) \/ SysOpen(p, path)
    \/ \E s \in Sectors : SysClose(p, s)
    \/ \E c \in Procs : Exec(p, c)
    \/ Exit(p)

Spec == Init /\ [][Next]_vars

-----------------------------------------------------------------------------
(* Properties                                                               *)

\* References to inode s that will be closed: open files and the struct
\* dir objects of working directories.
Refs(s) == SumFunction([p \in Procs |-> fds[p][s]])
           + Cardinality({o \in dalloc : dobj[o] = s})

\* open_cnt of every inode equals the references that will close it:
\* every path system call closes what build_path and filesys_open opened.
RefCountsExact == \A s \in Sectors : ocnt[s] = Refs(s)

\* Every in-use named entry (not "." or "..") of a live directory names an
\* allocated inode of the entry's kind: dir_remove erases the entry of what
\* it removes, and only what it removes is released.
NoDanglingEntry ==
  \A d \in Sectors : (kind[d] = "dir" /\ d \notin removed) =>
    \A i \in DOMAIN ents[d] :
      (ents[d][i].inuse /\ ents[d][i].name \notin {Dot, DotDot}) =>
        kind[ents[d][i].sector] = IF ents[d][i].isdir THEN "dir" ELSE "file"

\* The working directory of every live process is an allocated struct dir
\* wrapping a directory: chdir only moves to directories, and only the
\* process that owns a struct dir closes it.
CwdValid ==
  \A p \in alive : cwd[p] \in dalloc /\ kind[dobj[cwd[p]]] = "dir"

====
