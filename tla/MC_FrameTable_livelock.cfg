\* get_free_frame / frame_create never return (evict_policy spins, or
\* frame_create keeps frame_lock).
CONSTANTS
  t1 = t1
  t2 = t2
  NoOwner = NoOwner
  NoPage = NoPage
  Threads <- MC_Threads
  NPages <- MC_NPages
  SwapSlots <- MC_SwapSlots
SPECIFICATION Spec
PROPERTY RequestsReturn
CHECK_DEADLOCK FALSE
