\* Two processes run create, mkdir, remove, chdir, open, close, exec and exit
\* over paths whose components are all names (no "." component, no trailing
\* '/'); three inode sectors, two struct dir objects for working directories.
CONSTANTS
  p1 = p1  p2 = p2  o1 = o1  o2 = o2
  Procs = {p1, p2}
  First = p1
  Sectors = {1, 2, 3}
  Root = 1
  Paths <- MCNamePaths
  NameMax = 2
  DirObjs <- MCTwoObjs
  NoObj = NoObj
  MaxOpen = 1
  MaxCnt = 2
SYMMETRY MCSymmetry
SPECIFICATION Spec
INVARIANT TypeOK
INVARIANT NoDanglingEntry
