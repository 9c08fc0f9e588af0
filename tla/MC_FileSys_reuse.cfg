\* One caller, two sectors, a two-entry cache: a sector released by
\* inode_close and allocated again by inode_create.
CONSTANTS
  t1 = t1  s1 = s1  s2 = s2  v0 = v0  v1 = v1  e1 = e1  e2 = e2  e3 = e3
  NoSlot = NoSlot
  Threads = {t1}
  Sectors = {s1, s2}
  Vals = {v0, v1}
  InitVal = v0
  Slots <- MCSlots
  Capacity = 2
  Flusher = TRUE
SPECIFICATION FsSpec
INVARIANT ReadsLinearizable
SYMMETRY MCSymmetry
