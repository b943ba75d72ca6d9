SPECIFICATION Spec
CONSTANTS
  Threads = {t1, t2, t3}
  Blocks = {b1, b2}
  Sizes = {0, 1}
  Word = 2
SYMMETRY Symmetry
INVARIANTS
  Accounted
  PeakKept
