CONSTANTS
  p1 = p1
  p2 = p2
  t1 = t1
  t2 = t2
  t3 = t3
  Procs = {p1, p2}
  Threads = {t1, t2, t3}
  ProcOf <- Split
  Objects = {1, 2, 3, 4}
  MaxInside = 2
  Overlap = FALSE
  RaceFree = TRUE
  WriterFaults <- AllFaults
  NoFile = NoFile
  Stuck = Stuck
  Old = Old
  None = None
SPECIFICATION FairSpec
INVARIANT WholeTarget
PROPERTY Returns
