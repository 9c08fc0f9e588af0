---------------------------- MODULE ProcessWait -----------------------------
(***************************************************************************)
(* The exec/wait/exit handshake of userprog/process.c between one parent  *)
(* process and its children: process_execute (thread_create, then linking *)
(* the child and waiting on load_sema), start_process (reporting the load *)
(* through the parent pointer), process_wait (a scan with interrupts off, *)
(* then, with interrupts on again, publishing parent_sema and sleeping on *)
(* it) and process_exit (interrupts off throughout).  A step is a stretch *)
(* of one thread's code that no other thread can interleave with: the     *)
(* code disables interrupts, or the stretch touches no shared state.      *)
(***************************************************************************)
EXTENDS Integers, FiniteSets

CONSTANTS Kids,       \* the threads the parent can create
          Statuses,   \* the exit statuses a child program can pass to exit
          NoStatus    \* a model value: the status of a child not yet dead

VARIABLES
  cst,        \* each child's thread: "new", "ready", "running" or "dead"
  linked,     \* child->parent != NULL
  loaded,     \* the result of the child's load
  children,   \* the parent's children list
  info,       \* children that have a wait_info in the parent's child_statuses
  st,         \* the exit_status field of each wait_info
  psema,      \* child->parent_sema != NULL
  sema,       \* the value of the semaphore on process_wait's stack
  loadSema,   \* the value of the semaphore on process_execute's stack
  loadOk,     \* parent->load_success
  ppc,        \* where the parent is: "idle", "link", "load", "set", "down"
  tgt,        \* the child the parent's current call is about
  exitStatus, \* each dead child's exit status (history)
  panic       \* the kernel dereferenced a NULL parent pointer

vars == <<cst, linked, loaded, children, info, st, psema, sema, loadSema,
          loadOk, ppc, tgt, exitStatus, panic>>

Init ==
  /\ cst = [c \in Kids |-> "new"]
  /\ linked = [c \in Kids |-> FALSE]
  /\ loaded = [c \in Kids |-> FALSE]
  /\ children = {}
  /\ info = {}
  /\ st = [c \in Kids |-> 0]
  /\ psema = [c \in Kids |-> FALSE]
  /\ sema = 0
  /\ loadSema = 0
  /\ loadOk = FALSE
  /\ ppc = "idle"
  /\ tgt = CHOOSE c \in Kids : TRUE
  /\ exitStatus = [c \in Kids |-> NoStatus]
  /\ panic = FALSE

-----------------------------------------------------------------------------
(* The parent.                                                             *)

\* process_execute up to thread_create: the child is runnable, with no
\* parent pointer yet.
Execute(c) ==
  /\ ppc = "idle" /\ cst[c] = "new"
  /\ cst' = [cst EXCEPT ![c] = "ready"]
  /\ ppc' = "link" /\ tgt' = c
  /\ UNCHANGED <<linked, loaded, children, info, st, psema, sema, loadSema,
                 loadOk, exitStatus, panic>>

\* The rest of process_execute before sema_down(&sema): push the child on
\* children, set its parent, push a zeroed wait_info, publish load_sema.
LinkChild ==
  /\ ppc = "link"
  /\ children' = children \cup {tgt}
  /\ linked' = [linked EXCEPT ![tgt] = TRUE]
  /\ info' = info \cup {tgt}
  /\ st' = [st EXCEPT ![tgt] = 0]
  /\ loadSema' = 0
  /\ ppc' = "load"
  /\ UNCHANGED <<cst, loaded, psema, sema, loadOk, tgt, exitStatus, panic>>

\* sema_down(&sema) returns once the child has reported its load; a failed
\* load empties the whole children list (list_init) and returns -1.
LoadWait ==
  /\ ppc = "load" /\ loadSema > 0
  /\ loadSema' = loadSema - 1
  /\ children' = IF loadOk THEN children ELSE {}
  /\ ppc' = "idle"
  /\ UNCHANGED <<cst, linked, loaded, info, st, psema, sema, loadOk, tgt,
                 exitStatus, panic>>

\* process_wait up to its intr_enable: find the child in children and its
\* wait_info; return -1 if neither exists, the recorded status (freeing the
\* wait_info) if only the wait_info does, and otherwise go on to sleep.
WaitScan(c) ==
  /\ ppc = "idle"
  /\ tgt' = c
  /\ IF c \notin children
       THEN /\ info' = info \ {c}
            /\ UNCHANGED ppc
       ELSE /\ ppc' = "set"
            /\ UNCHANGED info
  /\ UNCHANGED <<cst, linked, loaded, children, st, psema, sema, loadSema,
                 loadOk, exitStatus, panic>>

\* After intr_enable: sema_init and wait_child->parent_sema = &sema, through
\* the pointer found by the scan, whether that thread still exists or not.
WaitSet ==
  /\ ppc = "set"
  /\ sema' = 0
  /\ psema' = [psema EXCEPT ![tgt] = TRUE]
  /\ ppc' = "down"
  /\ UNCHANGED <<cst, linked, loaded, children, info, st, loadSema, loadOk,
                 tgt, exitStatus, panic>>

\* sema_down(&sema) returns; read the wait_info's status and free it (a
\* wait_info the scan did not find is a NULL dereference).
WaitDown ==
  /\ ppc = "down" /\ sema > 0
  /\ sema' = sema - 1
  /\ info' = info \ {tgt}
  /\ panic' = (tgt \notin info)
  /\ ppc' = "idle"
  /\ UNCHANGED <<cst, linked, loaded, children, st, psema, loadSema, loadOk,
                 tgt, exitStatus>>

-----------------------------------------------------------------------------
(* A child.                                                                *)

\* start_process after load: write load_success and sema_up load_sema
\* through the parent pointer; a NULL pointer faults in the kernel.
StartProcess(c, ok) ==
  /\ cst[c] = "ready"
  /\ IF ~linked[c]
       THEN /\ panic' = TRUE
            /\ UNCHANGED <<cst, loaded, loadSema, loadOk>>
       ELSE /\ loadOk' = ok
            /\ loadSema' = loadSema + 1
            /\ loaded' = [loaded EXCEPT ![c] = ok]
            /\ cst' = [cst EXCEPT ![c] = "running"]
            /\ UNCHANGED panic
  /\ UNCHANGED <<linked, children, info, st, psema, sema, ppc, tgt, exitStatus>>

\* process_exit (s): with a parent waiting, record s in the wait_info,
\* leave children and sema_up parent_sema; with a parent not waiting,
\* record s if the wait_info still exists and leave children.  A running
\* child has its parent pointer (the parent never exits here).  A child
\* whose load failed faults in user code and exits with -1.
Exit(c, s) ==
  /\ cst[c] = "running"
  /\ s \in (IF loaded[c] THEN Statuses ELSE {-1})
  /\ st' = IF c \in info THEN [st EXCEPT ![c] = s] ELSE st
  /\ children' = children \ {c}
  /\ sema' = IF psema[c] THEN sema + 1 ELSE sema
  /\ panic' = (panic \/ (psema[c] /\ c \notin info))
  /\ cst' = [cst EXCEPT ![c] = "dead"]
  /\ exitStatus' = [exitStatus EXCEPT ![c] = s]
  /\ UNCHANGED <<linked, loaded, info, psema, loadSema, loadOk, ppc, tgt>>

Next ==
  /\ ~panic
  /\ \/ \E c \in Kids : Execute(c) \/ WaitScan(c)
     \/ LinkChild \/ LoadWait \/ WaitSet \/ WaitDown
     \/ \E c \in Kids, ok \in BOOLEAN : StartProcess(c, ok)
     \/ \E c \in Kids, s \in Statuses \cup {-1} : Exit(c, s)

\* The parent, once inside a system call, keeps running whenever its
\* semaphore lets it (Pintos's round-robin timer schedules every ready
\* thread); whether it calls exec or wait at all is up to its program.
Fairness == WF_vars(LinkChild) /\ WF_vars(LoadWait) /\ WF_vars(WaitSet)
            /\ WF_vars(WaitDown)

Spec == Init /\ [][Next]_vars /\ Fairness

-----------------------------------------------------------------------------
(* Properties.                                                             *)

TypeOK ==
  /\ cst \in [Kids -> {"new", "ready", "running", "dead"}]
  /\ linked \in [Kids -> BOOLEAN] /\ loaded \in [Kids -> BOOLEAN]
  /\ children \subseteq Kids /\ info \subseteq Kids
  /\ st \in [Kids -> Statuses \cup {0, -1}]
  /\ psema \in [Kids -> BOOLEAN]
  /\ sema \in Nat /\ loadSema \in Nat /\ loadOk \in BOOLEAN
  /\ ppc \in {"idle", "link", "load", "set", "down"} /\ tgt \in Kids
  /\ exitStatus \in [Kids -> Statuses \cup {-1, NoStatus}]
  /\ panic \in BOOLEAN

\* process_wait returns once the child it waits for has exited: a parent
\* inside wait (publishing parent_sema or asleep in sema_down) on a dead
\* child eventually gets back to user code.  process_exit's sema_up is
\* what wakes it.
WaitReturns ==
  \A c \in Kids : (ppc \in {"set", "down"} /\ tgt = c /\ cst[c] = "dead")
                     ~> ppc = "idle"
=============================================================================
