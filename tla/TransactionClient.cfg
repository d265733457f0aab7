CONSTANTS
  Files = {f1, f2}
  Contents = {c1, c2}
  Absent = Absent
  Partial = Partial
  TxIds = {t1, t2}
  MaxOps = 2
  NoTx = NoTx
  NoLog = NoLog
  Torn = Torn
  Faults <- ClientFaults
SYMMETRY Symmetry
SPECIFICATION Spec
INVARIANTS ClientInv RollbackRestores
PROPERTIES WriteAhead OutcomeIsFinal
CHECK_DEADLOCK FALSE
