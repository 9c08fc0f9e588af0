\* A thread opens a file it looked up while another thread removes it.
CONSTANTS
  t1 = t1  t2 = t2  h1 = h1  h2 = h2  h3 = h3
  Threads = {t1, t2}
  Handles = {h1, h2, h3}
  Files = {1, 2}
  DirectOf <- MCDirect
  IndirectOf <- MCNoIndirect
  DataOf <- MCData
  Garbage = {0}
  MaxOpen = 1
  NoHandle = NoHandle
SPECIFICATION Spec
SYMMETRY MCSymmetry
INVARIANT NoReleaseWhileOpen
