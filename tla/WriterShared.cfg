CONSTANTS
  p1 = p1
  p2 = p2
  t1 = t1
  t2 = t2
  t3 = t3
  Procs = {p1, p2}
  Threads = {t1, t2, t3}
  ProcOf <- Split
  Objects = {1, 2, 3, 4}
  MaxInside = 3
  Overlap = TRUE
  RaceFree = TRUE
  WriterFaults <- ShareFaults
  NoFile = NoFile
  Stuck = Stuck
  Old = Old
  None = None
SPECIFICATION Spec
INVARIANTS WriterInv
SYMMETRY Symmetry
