------------------------------ MODULE FdTable -------------------------------
(***************************************************************************)
(* A process's file descriptor table, userprog/syscall.c: fileArray and    *)
(* num_fds as open, close, filesize, read, seek and tell use them, and     *)
(* process_exit closing the table.  A process makes one system call at a   *)
(* time, so every call is one step.  The table has Size entries (128 in    *)
(* the code); descriptors 0 and 1 are the console and never stored.        *)
(***************************************************************************)
EXTENDS Integers, FiniteSets

CONSTANTS Size,      \* the length of fileArray and the num_fds limit (128)
          TellMax,   \* the highest descriptor tell accepts (15)
          Objs,      \* struct file objects file_open can allocate
          Null,      \* a model value: an empty slot
          MinFds     \* the lowest num_fds explored

ASSUME Size >= 3 /\ TellMax < Size /\ Null \notin Objs

VARIABLES
  fa,        \* fileArray
  num,       \* num_fds
  alive,     \* struct files opened and not yet closed
  live,      \* the process has not exited
  oob,       \* fileArray was indexed past its end
  nullDeref  \* a call passed a NULL struct file to the file layer

vars == <<fa, num, alive, live, oob, nullDeref>>

Slots == 2 .. Size - 1            \* the slots open fills and exit closes
Fds == -1 .. Size + 1             \* descriptors a program passes
Calls == {"filesize", "read", "write", "seek", "tell"}
Stored == {fa[i] : i \in Slots} \ {Null}

Init ==
  /\ fa = [i \in 0 .. Size - 1 |-> Null]
  /\ num = 0
  /\ alive = {}
  /\ live = TRUE
  /\ oob = FALSE
  /\ nullDeref = FALSE

\* process_exit: close every stored file (the loop over 2 .. 127); a
\* rejected descriptor in close or read ends the process this way.
Exit ==
  /\ live
  /\ alive' = alive \ Stored
  /\ fa' = [i \in DOMAIN fa |-> Null]
  /\ live' = FALSE
  /\ UNCHANGED <<num, oob, nullDeref>>

\* open: refuse at num_fds == Size; filesys_open may fail (ok = FALSE);
\* otherwise store the new file in the first empty slot, if there is one,
\* and count it whether or not it was stored.
Open(ok, o) ==
  /\ live /\ num # Size
  /\ IF ~ok THEN UNCHANGED <<fa, num, alive>>
     ELSE /\ o \notin alive
          /\ alive' = alive \cup {o}
          /\ num' = num + 1
          /\ fa' = IF \E i \in Slots : fa[i] = Null
                   THEN LET i == CHOOSE j \in Slots : fa[j] = Null /\
                                    \A k \in Slots : k < j => fa[k] # Null
                        IN [fa EXCEPT ![i] = o]
                   ELSE fa
  /\ UNCHANGED <<live, oob, nullDeref>>

\* The descriptor range each call accepts before it reads fileArray[fd]:
\* filesize, read and seek take up to Size (one past the end), tell stops
\* at TellMax, write stops below Size (fd 1 goes to putbuf first), read
\* rejects 1 and its dispatcher ends the process on 0.
Accepts(call, fd) ==
  CASE call = "filesize" -> fd >= 2 /\ fd <= Size
    [] call = "read"     -> fd >= 2 /\ fd <= Size
    [] call = "seek"     -> fd >= 2 /\ fd <= Size
    [] call = "tell"     -> fd >= 2 /\ fd <= TellMax
    [] call = "write"    -> fd >= 2 /\ fd < Size

\* filesize, read, write, seek and tell: read fileArray[fd] if the range
\* check passes; all but tell test it for NULL, tell passes it on.  None
\* changes the table.
Access(call, fd) ==
  /\ live
  /\ IF call = "read" /\ fd = 0 THEN Exit
     ELSE /\ oob' = (oob \/ (Accepts(call, fd) /\ fd = Size))
          /\ nullDeref' = (nullDeref \/ (call = "tell" /\ Accepts(call, fd)
                                         /\ fa[fd] = Null))
          /\ UNCHANGED <<fa, num, alive, live>>

\* close: end the process outside 2 .. Size; otherwise clear the slot,
\* decrement num_fds and close what the slot held (file_close ignores
\* NULL).  At fd = Size the slot is past the end of fileArray.
Close(fd) ==
  /\ live
  /\ IF fd < 2 \/ fd > Size THEN Exit
     ELSE /\ num > MinFds
          /\ num' = num - 1
          /\ IF fd = Size
               THEN /\ oob' = TRUE /\ UNCHANGED <<fa, alive>>
               ELSE /\ fa' = [fa EXCEPT ![fd] = Null]
                    /\ alive' = alive \ {fa[fd]}
                    /\ UNCHANGED oob
          /\ UNCHANGED <<live, nullDeref>>

Next ==
  \/ Exit
  \/ \E ok \in BOOLEAN, o \in Objs : Open(ok, o)
  \/ \E call \in Calls, fd \in Fds : Access(call, fd)
  \/ \E fd \in Fds : Close(fd)

Spec == Init /\ [][Next]_vars

-----------------------------------------------------------------------------
(* Properties.                                                             *)

TypeOK ==
  /\ fa \in [0 .. Size - 1 -> Objs \cup {Null}]
  /\ num \in Int /\ alive \subseteq Objs
  /\ live \in BOOLEAN /\ oob \in BOOLEAN /\ nullDeref \in BOOLEAN

\* While the process lives, num_fds counts its open descriptors: open's
\* limit test reads it as the number of occupied slots, so every open and
\* close must keep the two equal.
FdCountExact == live => num = Cardinality({i \in Slots : fa[i] # Null})

\* After process_exit every file the process opened is closed: none is
\* held by nobody.
NoLeakAtExit == ~live => alive = {}

\* No call indexes fileArray past its end.
InRange == ~oob

\* tell never hands file_tell a NULL file.
NoNullTell == ~nullDeref
=============================================================================
