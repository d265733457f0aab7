CONSTANTS
  Files = {f1, f2}
  Contents = {c1, c2}
  Absent = Absent
  Partial = Partial
  TxIds = {t1}
  Tx = t1
  MaxOps = 2
  NoTx = NoTx
  NoLog = NoLog
  Torn = Torn
  Workers = 2
  Options <- All
  Faults <- EditFaults
SYMMETRY Symmetry
SPECIFICATION Spec
INVARIANTS AllOrNothing CrashInv PlainBackupFirst
