CONSTANTS
  Files = {f1, f2, f3}
  Contents = {c1, c2}
  Absent = Absent
  Partial = Partial
  TxIds = {t1}
  Tx = t1
  MaxOps = 3
  NoTx = NoTx
  NoLog = NoLog
  Torn = Torn
  Workers = 2
  Options <- Safe
  Faults <- BatchFaults
SPECIFICATION FairSpec
INVARIANTS TypeOK IInv CommitNeverRefused CrashRecoverable
PROPERTIES ImplementsBatch Returns
