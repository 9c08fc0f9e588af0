\* num_fds drifts from the number of occupied slots (close of an empty slot).
CONSTANTS
  o1 = o1
  o2 = o2
  o3 = o3
  Null = Null
  Size <- MC_Size
  TellMax <- MC_TellMax
  Objs <- MC_Objs
  MinFds <- MC_MinFds
SPECIFICATION Spec
INVARIANT FdCountExact
CHECK_DEADLOCK FALSE
