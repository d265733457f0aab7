CONSTANTS
  server = server
  command = command
  s1 = s1
  s2 = s2
  e1 = e1
  f1 = f1
  Server = server
  Actors = {server}
  Files = {f1}
  Stages = {s1}
  NoPath = NoPath
  Outside = {e1}
  Empty = Empty
  Absent = Absent
  Unset = Unset
  Contents <- AllContents
  First <- TextOrEmpty
  Configs <- Default
  MaxStages = 2
  MaxApplies = 2
  MaxCalls = 1
  MaxMet = 1
  StagingFaults <- DbFault
SPECIFICATION Spec
INVARIANT RollbackReverts
CHECK_DEADLOCK FALSE
