CONSTANTS
  p1 = p1
  p2 = p2
  t1 = t1
  t2 = t2
  t3 = t3
  Procs = {p1, p2}
  Threads = {t1, t2}
  ProcOf <- Apart
  Objects = {1, 2, 3}
  MaxInside = 2
  Overlap = TRUE
  RaceFree = TRUE
  WriterFaults <- NoFaults
  NoFile = NoFile
  Stuck = Stuck
  Old = Old
  None = None
SPECIFICATION Spec
INVARIANT AtomicWrite
