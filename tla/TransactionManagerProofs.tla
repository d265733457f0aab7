---------------------- MODULE TransactionManagerProofs ----------------------
(***************************************************************************)
(* Every method of the manager preserves TMInv, and what the methods do to *)
(* the operations of the current transaction.  The caller's proofs cite    *)
(* these lemmas instead of opening the methods.                            *)
(***************************************************************************)
EXTENDS TransactionManager, TLAPS

LEMMA MaxOpsType == MaxOps \in Nat
  BY TransactionAssumptions

LEMMA NoTxType == NoTx \notin Transaction
  BY TransactionAssumptions

\* Appending to a sequence, element by element.
LEMMA AppendProperties ==
  ASSUME NEW S, NEW s \in Seq(S), NEW e \in S
  PROVE  /\ Append(s, e) \in Seq(S)
         /\ Len(Append(s, e)) = Len(s) + 1
         /\ DOMAIN Append(s, e) = 1..(Len(s) + 1)
         /\ DOMAIN s = 1..Len(s)
         /\ \A i \in 1..Len(s) : Append(s, e)[i] = s[i]
         /\ Append(s, e)[Len(s) + 1] = e
  OBVIOUS

\* Replacing one element of a sequence.
LEMMA UpdateProperties ==
  ASSUME NEW S, NEW s \in Seq(S), NEW k \in DOMAIN s, NEW e \in S
  PROVE  /\ [s EXCEPT ![k] = e] \in Seq(S)
         /\ Len([s EXCEPT ![k] = e]) = Len(s)
         /\ DOMAIN [s EXCEPT ![k] = e] = DOMAIN s
         /\ [s EXCEPT ![k] = e][k] = e
         /\ \A i \in DOMAIN s : i # k => [s EXCEPT ![k] = e][i] = s[i]
  OBVIOUS

\* A current transaction has the fields of a TransactionLog.
LEMMA CurrentTx ==
  ASSUME TMInv, tx # NoTx
  PROVE  /\ tx \in Transaction
         /\ tx.id \in TxIds
         /\ tx.ops \in Seq(Operation)
         /\ Len(tx.ops) \in 0..MaxOps
         /\ DOMAIN tx.ops = 1..Len(tx.ops)
         /\ \A i \in DOMAIN tx.ops : tx.ops[i] \in Operation
  <1>1. tx \in Transaction /\ Len(tx.ops) <= MaxOps
    BY DEF TMInv, TMTypeOK
  <1>2. tx.ops \in Seq(Operation) /\ tx.id \in TxIds
    BY <1>1 DEF Transaction
  <1> QED
    BY <1>1, <1>2

\* TMInit establishes the invariant.
LEMMA TMInitInv ==
  ASSUME TMInit
  PROVE  TMInv
  <1>1. disk \in [Files -> FileData]
    BY DEF TMInit, FileData
  <1>2. backups \in [TxIds -> [1..MaxOps -> FileData]]
    <2>1. [i \in 1..MaxOps |-> Absent] \in [1..MaxOps -> FileData]
      BY DEF FileData
    <2> QED
      BY <2>1 DEF TMInit
  <1>3. logs \in [TxIds -> Transaction \union {NoLog, Torn}]
    BY DEF TMInit
  <1>4. tx = NoTx /\ call = "idle" /\ undo \in 0..MaxOps
    BY MaxOpsType DEF TMInit
  <1>5. undoErr \in BOOLEAN
    BY Zenon DEF TMInit
  <1> QED
    BY <1>1, <1>2, <1>3, <1>4, <1>5 DEF TMInv, TMTypeOK, Calls

LEMMA BeginInv ==
  ASSUME TMInv, NEW id \in TxIds, BeginTransaction(id)
  PROVE  TMInv'
  <1>1. tx' \in Transaction /\ Len(tx'.ops) = 0
    BY DEF BeginTransaction, Transaction, Statuses
  <1> QED
    BY <1>1, TransactionAssumptions
       DEF BeginTransaction, TMInv, TMTypeOK, Calls, LogWriters

LEMMA NewOperationType ==
  ASSUME NEW type \in OpTypes, NEW f \in Files
  PROVE  NewOperation(type, f) \in Operation
  BY DEF NewOperation, Operation

\* AddOperation appends one open operation.
LEMMA AddEffect ==
  ASSUME TMInv, NEW type \in OpTypes, NEW f \in Files, AddOperation(type, f)
  PROVE  /\ tx # NoTx /\ tx' \in Transaction
         /\ Len(tx.ops) + 1 \in 1..MaxOps
         /\ tx'.id = tx.id
         /\ tx'.ops = Append(tx.ops, NewOperation(type, f))
         /\ Len(tx'.ops) = Len(tx.ops) + 1
  <1>1. /\ tx # NoTx /\ Len(tx.ops) + 1 <= MaxOps
        /\ tx' = [tx EXCEPT !.ops = Append(@, NewOperation(type, f))]
    BY DEF AddOperation
  <1>2. tx \in Transaction /\ tx.ops \in Seq(Operation) /\ Len(tx.ops) \in Nat
    BY <1>1, CurrentTx
  <1>3. /\ Append(tx.ops, NewOperation(type, f)) \in Seq(Operation)
        /\ Len(Append(tx.ops, NewOperation(type, f))) = Len(tx.ops) + 1
    BY <1>2, NewOperationType, AppendProperties
  <1>4. /\ tx'.id = tx.id /\ tx' \in Transaction
        /\ tx'.ops = Append(tx.ops, NewOperation(type, f))
    BY <1>1, <1>2, <1>3 DEF Transaction
  <1> QED
    BY <1>1, <1>2, <1>3, <1>4, TransactionAssumptions

LEMMA AddInv ==
  ASSUME TMInv, NEW type \in OpTypes, NEW f \in Files, AddOperation(type, f)
  PROVE  TMInv'
  <1>1. /\ tx # NoTx /\ tx' \in Transaction
        /\ Len(tx.ops) + 1 \in 1..MaxOps
        /\ Len(tx'.ops) = Len(tx.ops) + 1
    BY AddEffect
  <1>2. backups' \in [TxIds -> [1..MaxOps -> FileData]]
    <2>1. tx.id \in TxIds /\ disk[f] \in FileData
      BY <1>1, CurrentTx DEF TMInv, TMTypeOK
    <2>2. \/ backups' = backups
          \/ backups' = [backups EXCEPT ![tx.id][Len(tx.ops) + 1] = disk[f]]
      BY DEF AddOperation
    <2>3. backups[tx.id] \in [1..MaxOps -> FileData]
      BY <2>1 DEF TMInv, TMTypeOK
    <2>4. [backups[tx.id] EXCEPT ![Len(tx.ops) + 1] = disk[f]] \in [1..MaxOps -> FileData]
      BY <2>1, <2>3
    <2> QED
      BY <2>1, <2>2, <2>4 DEF TMInv, TMTypeOK
  <1> QED
    BY <1>1, <1>2, TransactionAssumptions
       DEF AddOperation, TMInv, TMTypeOK, Calls, LogWriters

\* CompleteOperation completes one open operation on f.
LEMMA CompleteEffect ==
  ASSUME TMInv, NEW f \in Files, NEW opErr \in BOOLEAN,
         CompleteOperation(f, opErr)
  PROVE  /\ tx # NoTx /\ tx' \in Transaction /\ tx'.id = tx.id
         /\ Len(tx'.ops) = Len(tx.ops)
         /\ \E k \in DOMAIN tx.ops :
              /\ tx.ops[k].file = f /\ ~tx.ops[k].completed
              /\ tx'.ops = [tx.ops EXCEPT ![k] = Closed(tx.ops[k], opErr)]
              /\ Closed(tx.ops[k], opErr) \in Operation
  <1>1. PICK k \in DOMAIN tx.ops :
          /\ FirstOpen(k, f)
          /\ tx' = [tx EXCEPT !.ops[k] = Closed(@, opErr)]
    BY DEF CompleteOperation
  <1>2. tx # NoTx
    BY DEF CompleteOperation
  <1>3. tx \in Transaction /\ tx.ops \in Seq(Operation) /\ tx.ops[k] \in Operation
    BY <1>1, <1>2, CurrentTx
  <1>4. Closed(tx.ops[k], opErr) \in Operation
    BY <1>3 DEF Operation, Closed
  <1>5. tx' = [tx EXCEPT !.ops = [tx.ops EXCEPT ![k] = Closed(tx.ops[k], opErr)]]
    BY <1>1, <1>3 DEF Transaction
  <1>6. /\ [tx.ops EXCEPT ![k] = Closed(tx.ops[k], opErr)] \in Seq(Operation)
        /\ Len([tx.ops EXCEPT ![k] = Closed(tx.ops[k], opErr)]) = Len(tx.ops)
    BY <1>1, <1>3, <1>4, UpdateProperties
  <1>7. /\ tx' \in Transaction /\ tx'.id = tx.id
        /\ tx'.ops = [tx.ops EXCEPT ![k] = Closed(tx.ops[k], opErr)]
    BY <1>3, <1>5, <1>6 DEF Transaction
  <1> QED
    BY <1>1, <1>2, <1>4, <1>6, <1>7 DEF FirstOpen

LEMMA CompleteInv ==
  ASSUME TMInv, NEW f \in Files, NEW opErr \in BOOLEAN,
         CompleteOperation(f, opErr)
  PROVE  TMInv'
  <1>1. Len(tx'.ops) = Len(tx.ops) /\ tx' \in Transaction /\ tx # NoTx
    BY CompleteEffect
  <1> QED
    BY <1>1, TransactionAssumptions
       DEF CompleteOperation, TMInv, TMTypeOK, Calls, LogWriters

LEMMA CommitInv ==
  ASSUME TMInv, CommitTransaction
  PROVE  TMInv' /\ tx # NoTx /\ tx'.id = tx.id /\ tx'.ops = tx.ops
  <1>1. tx # NoTx /\ tx \in Transaction
    BY CurrentTx DEF CommitTransaction
  <1>2. tx' \in Transaction /\ tx'.ops = tx.ops /\ tx'.id = tx.id
    BY <1>1 DEF CommitTransaction, Transaction, Statuses
  <1> QED
    BY <1>1, <1>2, TransactionAssumptions
       DEF CommitTransaction, TMInv, TMTypeOK, Calls, LogWriters

LEMMA RollbackInv ==
  ASSUME TMInv, RollbackTransaction
  PROVE  TMInv'
  <1>1. tx # NoTx /\ Len(tx.ops) \in 0..MaxOps
    BY CurrentTx DEF RollbackTransaction
  <1>2. undo' \in 0..MaxOps /\ undo' <= Len(tx.ops) /\ tx' = tx /\ call' = "undo"
    BY <1>1 DEF RollbackTransaction
  <1>3. undoErr' \in BOOLEAN
    BY Zenon DEF RollbackTransaction
  <1> QED
    BY <1>1, <1>2, <1>3 DEF RollbackTransaction, TMInv, TMTypeOK, Calls, LogWriters

LEMMA UndoInv ==
  ASSUME TMInv, UndoOperation
  PROVE  TMInv' /\ undo \in DOMAIN tx.ops
  <1>1. tx # NoTx /\ undo \in 1..MaxOps /\ undo \in DOMAIN tx.ops
    BY CurrentTx DEF UndoOperation, TMInv, TMTypeOK
  <1>2. tx.ops[undo] \in Operation /\ tx.id \in TxIds
    BY <1>1, CurrentTx
  <1>3. disk' \in [Files -> FileData]
    <2>1. backups[tx.id][undo] \in FileData
      BY <1>1, <1>2 DEF TMInv, TMTypeOK
    <2> QED
      BY <1>2, <2>1 DEF UndoOperation, UndoSkip, UndoModify, UndoCreate, UndoDelete,
         TMInv, TMTypeOK, FileData
  <1>4. undoErr' \in BOOLEAN
    BY DEF UndoOperation, UndoSkip, UndoModify, UndoCreate, UndoDelete, TMInv, TMTypeOK
  <1> QED
    BY <1>1, <1>3, <1>4, TransactionAssumptions DEF UndoOperation, TMInv, TMTypeOK

LEMMA UndoFinishedInv ==
  ASSUME TMInv, UndoFinished
  PROVE  TMInv' /\ tx # NoTx /\ tx'.id = tx.id /\ tx'.ops = tx.ops
  <1>1. tx # NoTx /\ tx \in Transaction
    BY CurrentTx DEF UndoFinished, TMInv
  <1>2. tx' \in Transaction /\ tx'.ops = tx.ops /\ tx'.id = tx.id
    BY <1>1 DEF UndoFinished, Transaction, Statuses
  <1> QED
    BY <1>1, <1>2, TransactionAssumptions
       DEF UndoFinished, TMInv, TMTypeOK, Calls, LogWriters

\* However its log write ends, a method leaves the transaction or none.
LEMMA EndCallInv ==
  ASSUME TMInv, NEW ok \in BOOLEAN, EndCall(ok)
  PROVE  TMInv' /\ call' = "idle" /\ tx' = TxAfterCall(ok)
  <1>1. call' = "idle" /\ tx' = TxAfterCall(ok) /\ call \in LogWriters
    BY DEF EndCall, LogWritten, LogWriteFails
  <1>2. tx # NoTx /\ tx \in Transaction /\ tx.id \in TxIds
    BY <1>1, CurrentTx DEF LogWriters, TMInv
  <1>3. logs' \in [TxIds -> Transaction \union {NoLog, Torn}]
    BY <1>2 DEF EndCall, LogWritten, LogWriteFails, TMInv, TMTypeOK
  <1> QED
    BY <1>1, <1>2, <1>3
       DEF EndCall, LogWritten, LogWriteFails, TMInv, TMTypeOK, Calls, TxAfterCall

\* A crash leaves no transaction, and a log that parses or one that does not.
LEMMA ManagerCrashInv ==
  ASSUME TMInv, TMCrash, disk' = disk
  PROVE  /\ TMInv' /\ tx' = NoTx /\ call' = "idle"
         /\ \A t \in TxIds : logs'[t] \in {logs[t], Torn}
  <1>1. /\ logs' \in [TxIds -> Transaction \union {NoLog, Torn}]
        /\ \A t \in TxIds : logs'[t] \in {logs[t], Torn}
    <2>1. CASE logs' = logs
      BY <2>1 DEF TMInv, TMTypeOK
    <2>2. CASE logs' # logs
      <3>1. call \in LogWriters /\ logs' = [logs EXCEPT ![tx.id] = Torn]
        BY <2>2 DEF TMCrash
      <3>2. tx.id \in TxIds
        BY <3>1, CurrentTx DEF LogWriters, TMInv
      <3> QED
        BY <3>1, <3>2 DEF TMInv, TMTypeOK
    <2> QED
      BY <2>1, <2>2
  <1>2. /\ tx' = NoTx /\ call' = "idle" /\ undo' = 0 /\ undoErr' \in BOOLEAN
        /\ backups' = backups
    BY Zenon DEF TMCrash
  <1>3. TMTypeOK'
    BY <1>1, <1>2, MaxOpsType DEF TMInv, TMTypeOK, Calls
  <1> QED
    BY <1>1, <1>2, <1>3 DEF TMInv

\* The logs that CleanupOldTransactions removes are not pending.
LEMMA ManagerCleanupInv ==
  ASSUME TMInv, NEW old \in SUBSET TxIds, CleanupOldTransactions(old)
  PROVE  TMInv'
  <1>1. logs' \in [TxIds -> Transaction \union {NoLog, Torn}]
    BY DEF CleanupOldTransactions, TMInv, TMTypeOK
  <1>2. backups' \in [TxIds -> [1..MaxOps -> FileData]]
    BY DEF CleanupOldTransactions, TMInv, TMTypeOK, FileData
  <1> QED
    BY <1>1, <1>2 DEF CleanupOldTransactions, TMInv, TMTypeOK
=============================================================================
