\* One thread calling into the cache, no periodic flush (as in this tree): shutdown loses nothing,
\* and every call returns.  No symmetry: it is unsound for liveness.
CONSTANTS
  t1 = t1  t2 = t2  s1 = s1  s2 = s2  s3 = s3
  v0 = v0  v1 = v1  v2 = v2  e1 = e1  e2 = e2  e3 = e3  e4 = e4
  NoSlot = NoSlot
  Threads = {t1}
  Sectors = {s1, s2, s3}
  Vals = {v0, v1}
  InitVal = v0
  Slots <- MCSlots1
  Capacity = 2
  Flusher = FALSE
SPECIFICATION FairSpec
INVARIANT ShutdownDurable
PROPERTY CacheRefinesStore
PROPERTY CallsReturn
\* A state with no successor has a caller stuck inside a call (with every
\* thread idle a call or filesys_init can start), which CallsReturn
\* reports as its violation.
CHECK_DEADLOCK FALSE
