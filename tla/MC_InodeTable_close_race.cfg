\* Two threads opening, closing, removing and re-creating the same files,
\* with inode_close split between --open_cnt and list_remove.  RefCountsExact
\* is violated: an inode_open that scans open_inodes between another
\* thread's last --open_cnt and its list_remove reopens a struct inode that
\* is then freed.
CONSTANTS
  t1 = t1  t2 = t2  h1 = h1  h2 = h2  h3 = h3
  Threads = {t1, t2}
  Handles = {h1, h2, h3}
  Files = {1, 2}
  DirectOf <- MCDirect
  IndirectOf <- MCNoIndirect
  DataOf <- MCData
  Garbage = {0}
  MaxOpen = 1
  NoHandle = NoHandle
SPECIFICATION Spec
SYMMETRY MCSymmetry
INVARIANT RefCountsExact
