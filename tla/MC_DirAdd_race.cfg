\* Two threads adding and removing three names: TLC finds an add that
\* returned true whose entry is gone.
CONSTANTS
  t1 = t1  t2 = t2  a = a  b = b  c = c
  Dot = Dot  DotDot = DotDot  NoName = NoName
  Threads = {t1, t2}
  Names = {a, b, c}
  MaxEntries = 6
SPECIFICATION Spec
INVARIANT NoLostAdd
SYMMETRY MCSymmetry
