CONSTANTS
  server = server
  command = command
  s1 = s1
  s2 = s2
  e1 = e1
  f1 = f1
  Server = server
  Actors = {server, command}
  Files = {f1}
  Stages = {s1, s2}
  NoPath = NoPath
  Outside = {e1}
  Empty = Empty
  Absent = Absent
  Unset = Unset
  Contents <- AllContents
  First <- TextOrEmpty
  Configs <- TwoConfigs
  MaxStages = 2
  MaxApplies = 1
  MaxCalls = 2
  MaxMet = 1
  StagingFaults <- StagingFaultKinds
SPECIFICATION Spec
INVARIANTS StagingInv AppliedIsWritten EditsKept FailedApplyRestores ResponseTrue
SYMMETRY Symmetry
CHECK_DEADLOCK FALSE
