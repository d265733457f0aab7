CONSTANTS
  r1 = r1
  r2 = r2
  r3 = r3
  w1 = w1
  w2 = w2
  Requests = {r1, r2, r3}
  NilStages = {r3}
  Workers = {w1, w2}
  QueueCap = 1
  ResultCap = 1
  StageLimit = 1
SPECIFICATION AsyncFairSpec
INVARIANTS AsyncInv LimitOvershoot AnswerTrue
PROPERTIES Answered CloseEnds
CHECK_DEADLOCK FALSE
