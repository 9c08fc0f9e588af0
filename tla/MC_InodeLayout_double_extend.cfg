\* Files grown by one write into the double-indirect tier.
CONSTANTS
  f1 = f1  f2 = f2
  Files <- MCFiles
  ND = 2  NI = 3  NDI = 2  K = 2  SS = 2
  DeviceSectors = 64
  MaxLen = 32
  MaxGrowth = 32
  CreateLens = {0}
SPECIFICATION Spec
INVARIANT NoOverflow
SYMMETRY MCSymmetry
CHECK_DEADLOCK FALSE
