\* Two threads, no flusher: a pointer from get_info used after evict_cache freed it.
CONSTANTS
  t1 = t1  t2 = t2  s1 = s1  s2 = s2  s3 = s3
  v0 = v0  v1 = v1  v2 = v2  e1 = e1  e2 = e2  e3 = e3  e4 = e4
  NoSlot = NoSlot
  Threads = {t1, t2}
  Sectors = {s1, s2, s3}
  Vals = {v0, v1}
  InitVal = v0
  Slots <- MCSlots2
  Capacity = 2
  Flusher = FALSE
SPECIFICATION Spec
INVARIANT NoUseAfterFree
SYMMETRY MCSymmetry
