\* The same system calls over every path of up to three characters over "a"
\* and "/": a trailing '/' makes build_path return the name ".".
CONSTANTS
  p1 = p1  p2 = p2  o1 = o1  o2 = o2
  Procs = {p1, p2}
  First = p1
  Sectors = {1, 2, 3}
  Root = 1
  Paths <- MCPlainPaths
  NameMax = 2
  DirObjs <- MCTwoObjs
  NoObj = NoObj
  MaxOpen = 1
  MaxCnt = 2
SYMMETRY MCSymmetry
SPECIFICATION Spec
INVARIANT NoDanglingEntry
