\* Two files created empty and grown by writes that add at most one sector,
\* through the direct and indirect tiers (ND = 2, NI = 2, K = 2).
\* Writes are optional: a state where no file grows further is at rest.
CONSTANTS
  f1 = f1  f2 = f2
  Files <- MCFiles
  ND = 2  NI = 2  NDI = 2  K = 2  SS = 2
  DeviceSectors = 24
  MaxLen = 12
  MaxGrowth = 2
  CreateLens = {0}
SPECIFICATION Spec
INVARIANT TypeOK
INVARIANT ByteToSectorCorrect
INVARIANT SectorsOwnedOnce
INVARIANT NoLeakedSectors
SYMMETRY MCSymmetry
CHECK_DEADLOCK FALSE
