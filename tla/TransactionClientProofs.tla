----------------------- MODULE TransactionClientProofs -----------------------
(***************************************************************************)
(* Proofs about TransactionClient: what a rollback restores, what the logs *)
(* and the backups on disk say, and that a file is touched only when the   *)
(* log tells how to undo it.                                               *)
(*                                                                         *)
(* Why a rollback restores: of the operations that name a file, the loop   *)
(* undoes the first one last, so that only what this one puts back counts. *)
(* When it was added nothing had changed its file, so that is what the     *)
(* file held when the transaction began.                                   *)
(***************************************************************************)
EXTENDS TransactionClient, TransactionManagerProofs

\* When the caller touches no file.
StageInv ==
  /\ tx = NoTx \/ call \in {"begin", "commit", "undo", "rollback"} => NothingUnderWay
  /\ \A f \in Files : stage[f] = "adding" => call = "add"

\* What a transaction is called in memory, and by its log until its end.
StatusInv ==
  tx # NoTx =>
    /\ tx.status = CASE call = "commit" -> "committed"
                     [] call = "rollback" -> "rolled_back"
                     [] OTHER -> "pending"
    /\ call = "commit" => Committable
    /\ Loadable(tx.id) => logs[tx.id].status = "pending"

\* One of the first n operations names f and is to be undone.
Undoable(f, n) ==
  \E j \in DOMAIN tx.ops : j <= n /\ tx.ops[j].file = f /\ ~LeftAlone(tx.ops[j])

\* What undoing operation i puts back is what its file held at the start.
PutsBack(i) ==
  LET op == tx.ops[i]
  IN  /\ op.type = "modify" /\ op.backup /\ backups[tx.id][i] # Absent
           => backups[tx.id][i] = started[op.file]
      /\ op.type = "create" => started[op.file] = Absent

\* So it is of the operations that would be undone last.
FirstPutsBack ==
  tx # NoTx => \A i \in DOMAIN tx.ops : ~Undoable(tx.ops[i].file, i - 1) => PutsBack(i)

\* A file none of the operations that are left would change is as it was.
UntouchedInv ==
  /\ tx # NoTx /\ call \notin {"undo", "rollback"} =>
       \A f \in Files : ~Undoable(f, Len(tx.ops)) /\ stage[f] # "touched" => disk[f] = started[f]
  /\ call = "undo" /\ ~undoErr =>
       \A f \in Files : ~Undoable(f, undo) => disk[f] = started[f]

LogsFit == \A t \in TxIds : Loadable(t) => Len(logs[t].ops) <= MaxOps

\* What the logs and the backups say.
RecordInv == LogsFit /\ CommittedIsClean /\ PendingBackupsKept

IInv ==
  /\ TypeOK /\ TMInv /\ StageInv /\ StatusInv
  /\ FirstPutsBack /\ UntouchedInv /\ RollbackRestores
  /\ RecordInv

\* The operation is open, and undoing it would put back what f holds.
Covers(op, copy, f, held) ==
  op.file = f /\ ~op.completed /\ (op.type = "modify" => copy = held)

InMemory(f) ==
  \E i \in DOMAIN tx.ops : Covers(tx.ops[i], backups[tx.id][i], f, disk[f])

InLog(f) ==
  /\ Loadable(tx.id) /\ Len(logs[tx.id].ops) <= Len(tx.ops)
  /\ \E i \in DOMAIN logs[tx.id].ops :
       Covers(logs[tx.id].ops[i], backups[tx.id][i], f, disk[f])

\* Before f is touched, its operation is in memory; and in the log, as long
\* as no write of the log fails.
AheadInv ==
  \A f \in Files :
    /\ stage[f] \in {"adding", "added"} => InMemory(f)
    /\ stage[f] = "added" => InLog(f)

-----------------------------------------------------------------------------
(* Types *)

LEMMA ClientInitTyped ==
  ASSUME Init
  PROVE  TypeOK /\ TMInv
  <1>1. TMInv
    BY TMInitInv DEF Init
  <1> QED
    BY <1>1 DEF Init, TypeOK, TMInv, TMTypeOK, Stages

LEMMA ClientStepTyped ==
  ASSUME TypeOK, TMInv, Next
  PROVE  TypeOK' /\ TMInv'
  <1> USE DEF TypeOK
  <1>0. disk \in [Files -> FileData]
    BY DEF TMInv, TMTypeOK
  <1>1. ASSUME NEW id \in TxIds, Begin(id)
        PROVE  TypeOK' /\ TMInv'
    <2>1. TMInv'
      BY <1>1, BeginInv DEF Begin
    <2> QED
      BY <1>0, <1>1, <2>1 DEF Begin, TMInv
  <1>2. ASSUME NEW f \in Files, NEW type \in OpTypes, Add(type, f)
        PROVE  TypeOK' /\ TMInv'
    <2>1. TMInv'
      BY <1>2, AddInv DEF Add
    <2> QED
      BY <1>2, <2>1 DEF Add, TMInv, Stages
  <1>3. ASSUME NEW f \in Files, NEW type \in OpTypes, AddFails(type, f)
        PROVE  TypeOK' /\ TMInv'
    BY <1>3 DEF AddFails, AddOperationFails, tmVars, TMInv, TMTypeOK
  <1>4. ASSUME NEW f \in Files, Touch(f)
        PROVE  TypeOK' /\ TMInv'
    <2>1. PICK c \in FileData : disk' = [disk EXCEPT ![f] = c]
      BY <1>4 DEF Touch, Outcome, FileData
    <2>2. disk' \in [Files -> FileData]
      BY <1>0, <2>1
    <2> QED
      BY <1>4, <2>2 DEF Touch, Stages, TMInv, TMTypeOK
  <1>5. ASSUME NEW f \in Files, TouchFails(f)
        PROVE  TypeOK' /\ TMInv'
    BY <1>5 DEF TouchFails, Stages, tmVars, TMInv, TMTypeOK
  <1>6. ASSUME NEW f \in Files, Complete(f)
        PROVE  TypeOK' /\ TMInv'
    <2>1. TMInv'
      <3>1. (stage[f] = "failed") \in BOOLEAN
        OBVIOUS
      <3> QED
        BY <1>6, <3>1, CompleteInv DEF Complete
    <2> QED
      BY <1>6, <2>1 DEF Complete, TMInv, Stages
  <1>7. CASE Commit
    BY <1>7, CommitInv DEF Commit, TMInv
  <1>8. CASE Rollback
    BY <1>8, RollbackInv DEF Rollback, TMInv
  <1>9. CASE RollbackLoop
    BY <1>9, UndoInv, UndoFinishedInv DEF RollbackLoop, TMInv
  <1>10. ASSUME NEW ok \in BOOLEAN, Return(ok)
         PROVE  TypeOK' /\ TMInv'
    <2>1. TMInv' /\ call \in LogWriters
      BY <1>10, EndCallInv DEF Return, EndCall, LogWritten, LogWriteFails
    <2>2. tx.id \in TxIds
      BY <2>1, CurrentTx DEF LogWriters, TMInv
    <2>3. stage' \in [Files -> Stages] /\ started' = started
      BY <1>10 DEF Return, Stages
    <2>4. begun' \subseteq TxIds
      BY <1>10, <2>2 DEF Return
    <2> QED
      BY <2>1, <2>3, <2>4 DEF TMInv
  <1>11. CASE Crash
    BY <1>11, ManagerCrashInv DEF Crash, TMInv, Stages
  <1>12. CASE Cleanup
    BY <1>12, ManagerCleanupInv DEF Cleanup, TMInv
  <1> QED
    BY <1>1, <1>2, <1>3, <1>4, <1>5, <1>6, <1>7, <1>8, <1>9, <1>10, <1>11, <1>12 DEF Next

-----------------------------------------------------------------------------
(* The caller, and the status of its transaction *)

LEMMA StageStep ==
  ASSUME TypeOK, TMInv, StageInv, Next
  PROVE  StageInv'
  <1> USE DEF StageInv, NothingUnderWay, TypeOK
  <1>1. ASSUME NEW id \in TxIds, Begin(id)
        PROVE  StageInv'
    BY <1>1 DEF Begin, BeginTransaction
  <1>2. ASSUME NEW f \in Files, NEW type \in OpTypes, Add(type, f)
        PROVE  StageInv'
    <2>1. tx' # NoTx
      BY <1>2, AddEffect, NoTxType DEF Add
    <2> QED
      BY <1>2, <2>1 DEF Add, AddOperation
  <1>3. ASSUME NEW f \in Files, NEW type \in OpTypes, AddFails(type, f)
        PROVE  StageInv'
    BY <1>3 DEF AddFails, AddOperationFails, tmVars
  <1>4. ASSUME NEW f \in Files, Touch(f) \/ TouchFails(f)
        PROVE  StageInv'
    BY <1>4 DEF Touch, TouchFails, tmVars
  <1>5. ASSUME NEW f \in Files, Complete(f)
        PROVE  StageInv'
    <2>1. tx # NoTx /\ tx' # NoTx
      <3>1. (stage[f] = "failed") \in BOOLEAN
        OBVIOUS
      <3> QED
        BY <1>5, <3>1, CompleteEffect, NoTxType DEF Complete
    <2> QED
      BY <1>5, <2>1 DEF Complete, CompleteOperation
  <1>6. CASE Commit \/ Rollback \/ RollbackLoop
    BY <1>6 DEF Commit, CommitTransaction, Rollback, RollbackTransaction,
       RollbackLoop, UndoOperation, UndoFinished
  <1>7. ASSUME NEW ok \in BOOLEAN, Return(ok)
        PROVE  StageInv'
    <2>1. /\ call' = "idle" /\ tx' = TxAfterCall(ok) /\ call \in LogWriters /\ tx # NoTx
      BY <1>7, EndCallInv DEF Return, EndCall, LogWritten, LogWriteFails, LogWriters, TMInv
    <2> QED
      BY <1>7, <2>1 DEF Return, TxAfterCall
  <1>8. CASE Crash
    BY <1>8 DEF Crash, TMCrash
  <1>9. CASE Cleanup
    BY <1>9 DEF Cleanup, CleanupOldTransactions
  <1> QED
    BY <1>1, <1>2, <1>3, <1>4, <1>5, <1>6, <1>7, <1>8, <1>9 DEF Next

\* The methods that change the operations change nothing else of tx.
LEMMA CompleteKeeps ==
  ASSUME TMInv, NEW f \in Files, Complete(f)
  PROVE  /\ call = "idle" /\ call' = "complete" /\ tx # NoTx /\ tx' # NoTx /\ tx' \in Transaction
         /\ tx'.id = tx.id /\ tx'.status = tx.status
         /\ UNCHANGED <<disk, backups, logs, undo, undoErr, started>>
         /\ \E k \in DOMAIN tx.ops :
              /\ tx.ops[k].file = f /\ ~tx.ops[k].completed
              /\ tx'.ops = [tx.ops EXCEPT ![k] = Closed(tx.ops[k], stage[f] = "failed")]
  <1>1. (stage[f] = "failed") \in BOOLEAN /\ CompleteOperation(f, stage[f] = "failed")
    BY DEF Complete
  <1>2. tx' \in Transaction /\ tx' # NoTx
    BY <1>1, CompleteEffect, NoTxType
  <1>3. tx'.status = tx.status
    BY <1>1, CurrentTx DEF CompleteOperation, Transaction
  <1> QED
    BY <1>1, <1>2, <1>3, CompleteEffect DEF Complete, CompleteOperation

LEMMA AddKeeps ==
  ASSUME TMInv, NEW f \in Files, NEW type \in OpTypes, Add(type, f)
  PROVE  /\ call = "idle" /\ call' = "add" /\ tx # NoTx /\ tx' # NoTx /\ tx' \in Transaction
         /\ tx'.id = tx.id /\ tx'.status = tx.status
         /\ UNCHANGED <<disk, logs, undo, undoErr, started>>
         /\ tx.ops \in Seq(Operation) /\ NewOperation(type, f) \in Operation
         /\ tx'.ops = Append(tx.ops, NewOperation(type, f))
         /\ Len(tx.ops) + 1 \in 1..MaxOps
  <1>1. AddOperation(type, f)
    BY DEF Add
  <1>2. tx' \in Transaction /\ tx' # NoTx /\ tx'.id = tx.id
    BY <1>1, AddEffect, NoTxType
  <1>3. tx'.status = tx.status /\ tx.ops \in Seq(Operation)
    BY <1>1, CurrentTx DEF AddOperation, Transaction
  <1> QED
    BY <1>1, <1>2, <1>3, AddEffect, NewOperationType DEF Add, AddOperation

\* What a method leaves when its log is written or not.
LEMMA ReturnKeeps ==
  ASSUME TMInv, NEW ok \in BOOLEAN, Return(ok)
  PROVE  /\ call \in LogWriters /\ call' = "idle" /\ tx # NoTx /\ tx.id \in TxIds
         /\ tx \in Transaction /\ Len(tx.ops) <= MaxOps
         /\ UNCHANGED <<disk, backups, undo, undoErr, started>>
         /\ tx' = NoTx \/ (tx' = tx /\ call \in {"begin", "add", "complete"})
         /\ logs' \in {logs, [logs EXCEPT ![tx.id] = tx], [logs EXCEPT ![tx.id] = Torn]}
         /\ "log" \in Faults \/ logs' = [logs EXCEPT ![tx.id] = tx]
  <1>1. call \in LogWriters /\ call' = "idle" /\ tx' = TxAfterCall(ok)
    BY EndCallInv DEF Return, EndCall, LogWritten, LogWriteFails
  <1>2. tx # NoTx /\ tx.id \in TxIds /\ tx \in Transaction /\ Len(tx.ops) <= MaxOps
    BY <1>1, CurrentTx DEF LogWriters, TMInv
  <1>3. tx' = NoTx \/ (tx' = tx /\ call \in {"begin", "add", "complete"})
    BY <1>1 DEF TxAfterCall, LogWriters
  <1>4. /\ UNCHANGED <<disk, backups, undo, undoErr, started>>
        /\ logs' \in {logs, [logs EXCEPT ![tx.id] = tx], [logs EXCEPT ![tx.id] = Torn]}
        /\ "log" \in Faults \/ logs' = [logs EXCEPT ![tx.id] = tx]
    BY DEF Return, EndCall, LogWritten, LogWriteFails
  <1> QED
    BY <1>1, <1>2, <1>3, <1>4

\* A log that is not pending is gone after a cleanup, or as it was; the
\* others keep what they say and their backups.
LEMMA CleanupKeeps ==
  ASSUME TMInv, Cleanup
  PROVE  /\ UNCHANGED <<disk, tx, call, undo, undoErr, stage, started>>
         /\ \A t \in TxIds :
              \/ logs'[t] = logs[t] /\ backups'[t] = backups[t]
              \/ logs'[t] = NoLog /\ Loadable(t) /\ logs[t].status # "pending"
  <1>1. PICK old \in SUBSET TxIds : CleanupOldTransactions(old)
    BY DEF Cleanup
  <1>2. backups \in [TxIds -> [1..MaxOps -> FileData]]
    BY DEF TMInv, TMTypeOK
  <1>3. ASSUME NEW t \in TxIds, t \notin old
        PROVE  logs'[t] = logs[t] /\ backups'[t] = backups[t]
    <2>1. logs'[t] = logs[t] /\ backups'[t] = [i \in 1..MaxOps |-> backups[t][i]]
      BY <1>1, <1>3 DEF CleanupOldTransactions
    <2> QED
      BY <1>2, <2>1
  <1>4. ASSUME NEW t \in TxIds, t \in old
        PROVE  logs'[t] = NoLog /\ Loadable(t) /\ logs[t].status # "pending"
    BY <1>1, <1>4 DEF CleanupOldTransactions, PendingTransactions
  <1> QED
    BY <1>1, <1>3, <1>4 DEF Cleanup, CleanupOldTransactions

\* The steps that leave the transaction, its call and its logs alone.
LEMMA StatusStep ==
  ASSUME TypeOK, TMInv, StatusInv, Next
  PROVE  StatusInv'
  <1>0. \A t \in TxIds : logs[t] \in Transaction \union {NoLog, Torn}
    BY DEF TMInv, TMTypeOK
  <1>1. ASSUME NEW id \in TxIds, Begin(id)
        PROVE  StatusInv'
    BY <1>1 DEF Begin, BeginTransaction, StatusInv, Loadable
  <1>2. ASSUME NEW f \in Files, NEW type \in OpTypes, Add(type, f)
        PROVE  StatusInv'
    BY <1>2, AddKeeps DEF StatusInv, Loadable
  <1>3. ASSUME NEW f \in Files,
               (\E type \in OpTypes : AddFails(type, f)) \/ Touch(f) \/ TouchFails(f)
        PROVE  StatusInv'
    BY <1>3 DEF AddFails, AddOperationFails, Touch, TouchFails, tmVars,
       StatusInv, Loadable, Committable
  <1>4. ASSUME NEW f \in Files, Complete(f)
        PROVE  StatusInv'
    BY <1>4, CompleteKeeps DEF StatusInv, Loadable
  <1>5. CASE Commit
    <2>1. /\ tx # NoTx /\ tx \in Transaction /\ tx' = [tx EXCEPT !.status = "committed"]
          /\ call' = "commit" /\ logs' = logs /\ call = "idle" /\ Committable
      BY <1>5, CurrentTx DEF Commit, CommitTransaction
    <2>2. tx'.status = "committed" /\ tx'.id = tx.id /\ tx'.ops = tx.ops
      BY <2>1 DEF Transaction
    <2> QED
      BY <2>1, <2>2 DEF StatusInv, Loadable, Committable
  <1>6. CASE Rollback
    BY <1>6 DEF Rollback, RollbackTransaction, StatusInv, Loadable, Committable
  <1>7. CASE RollbackLoop /\ call' = "undo"
    <2>1. tx' = tx /\ logs' = logs /\ call = "undo"
      BY <1>7 DEF RollbackLoop, UndoOperation, UndoFinished
    <2> QED
      BY <1>7, <2>1 DEF StatusInv, Loadable
  <1>8. CASE RollbackLoop /\ UndoFinished
    <2>1. tx # NoTx /\ tx \in Transaction
      BY <1>8, UndoFinishedInv, CurrentTx
    <2>2. tx'.status = "rolled_back" /\ tx'.id = tx.id /\ call' = "rollback" /\ logs' = logs
      BY <1>8, <2>1 DEF UndoFinished, Transaction
    <2> QED
      BY <2>1, <2>2 DEF StatusInv, Loadable
  <1>9. ASSUME NEW ok \in BOOLEAN, Return(ok)
        PROVE  StatusInv'
    <2>1. CASE tx' = NoTx
      BY <2>1 DEF StatusInv
    <2>2. CASE tx' = tx /\ call \in {"begin", "add", "complete"}
      <3>1. tx.status = "pending"
        BY <1>9, <2>2, ReturnKeeps DEF StatusInv
      <3>2. logs'[tx.id] \in {logs[tx.id], tx, Torn}
        BY <1>9, ReturnKeeps DEF TMInv, TMTypeOK
      <3> QED
        BY <1>9, <2>2, <3>1, <3>2, ReturnKeeps DEF StatusInv, Loadable
    <2> QED
      BY <1>9, <2>1, <2>2, ReturnKeeps
  <1>10. CASE Crash
    BY <1>10 DEF Crash, TMCrash, StatusInv
  <1>11. CASE Cleanup
    <2>1. tx # NoTx => tx.id \in TxIds
      BY CurrentTx
    <2> QED
      BY <1>11, <2>1, CleanupKeeps DEF StatusInv, Loadable, Committable
  <1>12. RollbackLoop => call' = "undo" \/ UndoFinished
    BY DEF RollbackLoop, UndoOperation
  <1> QED
    BY <1>1, <1>2, <1>3, <1>4, <1>5, <1>6, <1>7, <1>8, <1>9, <1>10, <1>11, <1>12 DEF Next

-----------------------------------------------------------------------------
(* Which operations would be undone *)

\* An operation that is added is open: it is left alone.
LEMMA UndoableAdd ==
  ASSUME NEW op \in Operation, ~op.completed,
         tx.ops \in Seq(Operation), tx'.ops = Append(tx.ops, op)
  PROVE  \A f, n : Undoable(f, n)' <=> Undoable(f, n)
  <1>1. /\ DOMAIN tx'.ops = 1..(Len(tx.ops) + 1) /\ DOMAIN tx.ops = 1..Len(tx.ops)
        /\ Len(tx.ops) \in Nat
        /\ \A i \in 1..Len(tx.ops) : tx'.ops[i] = tx.ops[i]
        /\ tx'.ops[Len(tx.ops) + 1] = op
    BY AppendProperties
  <1>2. LeftAlone(op)
    BY DEF LeftAlone
  <1>3. \A i \in DOMAIN tx'.ops : i \in DOMAIN tx.ops \/ i = Len(tx.ops) + 1
    BY <1>1
  <1>4. \A i \in DOMAIN tx.ops : i \in DOMAIN tx'.ops
    BY <1>1
  <1> QED
    BY <1>1, <1>2, <1>3, <1>4 DEF Undoable

\* One that is completed may have to be undone; it has to be if it went well.
LEMMA UndoableComplete ==
  ASSUME tx.ops \in Seq(Operation), NEW k \in DOMAIN tx.ops, ~tx.ops[k].completed,
         NEW err \in BOOLEAN, tx'.ops = [tx.ops EXCEPT ![k] = Closed(tx.ops[k], err)]
  PROVE  /\ Len(tx'.ops) = Len(tx.ops) /\ DOMAIN tx'.ops = DOMAIN tx.ops
         /\ \A f, n : Undoable(f, n) => Undoable(f, n)'
         /\ \A f, n : f # tx.ops[k].file => (Undoable(f, n)' <=> Undoable(f, n))
         /\ ~err => Undoable(tx.ops[k].file, Len(tx.ops))'
         /\ \A i \in DOMAIN tx.ops : /\ tx'.ops[i].file = tx.ops[i].file
                                     /\ tx'.ops[i].type = tx.ops[i].type
                                     /\ tx'.ops[i].backup = tx.ops[i].backup
  <1>1. tx.ops[k] \in Operation
    OBVIOUS
  <1>2. Closed(tx.ops[k], err) \in Operation
    BY <1>1 DEF Operation, Closed
  <1>3. /\ Len(tx'.ops) = Len(tx.ops) /\ DOMAIN tx'.ops = DOMAIN tx.ops
        /\ tx'.ops[k] = Closed(tx.ops[k], err)
        /\ \A i \in DOMAIN tx.ops : i # k => tx'.ops[i] = tx.ops[i]
    BY <1>2, UpdateProperties
  <1>4. /\ Closed(tx.ops[k], err).file = tx.ops[k].file
        /\ Closed(tx.ops[k], err).type = tx.ops[k].type
        /\ Closed(tx.ops[k], err).backup = tx.ops[k].backup
        /\ LeftAlone(tx.ops[k])
        /\ ~err => ~LeftAlone(Closed(tx.ops[k], err))
    BY <1>1 DEF Operation, Closed, LeftAlone
  <1>5. \A i \in DOMAIN tx.ops : /\ tx'.ops[i].file = tx.ops[i].file
                                 /\ tx'.ops[i].type = tx.ops[i].type
                                 /\ tx'.ops[i].backup = tx.ops[i].backup
    BY <1>3, <1>4
  <1>6. \A f, n : Undoable(f, n) => Undoable(f, n)'
    BY <1>3, <1>4 DEF Undoable
  <1>7. \A f, n : f # tx.ops[k].file => (Undoable(f, n)' <=> Undoable(f, n))
    BY <1>3, <1>4 DEF Undoable
  <1>8. ~err => Undoable(tx.ops[k].file, Len(tx.ops))'
    <2>1. k <= Len(tx.ops)
      OBVIOUS
    <2>2. tx'.ops[k].file = tx.ops[k].file
      BY <1>5
    <2> QED
      BY <1>3, <1>4, <2>1, <2>2 DEF Undoable
  <1> QED
    BY <1>3, <1>5, <1>6, <1>7, <1>8

-----------------------------------------------------------------------------
(* What a rollback restores *)

RestoreInv == FirstPutsBack /\ UntouchedInv /\ RollbackRestores

LEMMA RestoreAdd ==
  ASSUME TypeOK, TMInv, RestoreInv, NEW f \in Files, NEW type \in OpTypes, Add(type, f)
  PROVE  RestoreInv'
  <1> DEFINE n  == Len(tx.ops) + 1
             op == NewOperation(type, f)
  <1>1. /\ call = "idle" /\ call' = "add" /\ tx # NoTx /\ tx'.id = tx.id
        /\ UNCHANGED <<disk, started>>
        /\ tx.ops \in Seq(Operation) /\ op \in Operation /\ tx'.ops = Append(tx.ops, op)
        /\ n \in 1..MaxOps /\ tx.id \in TxIds
    BY AddKeeps, CurrentTx
  <1>2. ~op.completed /\ op.file = f /\ op.type = type
        /\ (op.backup <=> type = "modify" /\ disk[f] # Absent)
    BY DEF NewOperation
  <1>3. /\ DOMAIN tx'.ops = 1..n /\ DOMAIN tx.ops = 1..Len(tx.ops) /\ Len(tx'.ops) = n
        /\ Len(tx.ops) \in Nat
        /\ \A i \in 1..Len(tx.ops) : tx'.ops[i] = tx.ops[i]
        /\ tx'.ops[n] = op
    BY <1>1, AppendProperties
  <1>4. \A g, m : Undoable(g, m)' <=> Undoable(g, m)
    BY <1>1, <1>2, UndoableAdd
  <1>5. backups' = IF op.backup THEN [backups EXCEPT ![tx.id][n] = disk[f]] ELSE backups
    BY DEF Add, AddOperation
  <1>6. /\ \A i \in 1..Len(tx.ops) : backups'[tx.id][i] = backups[tx.id][i]
        /\ op.backup => backups'[tx.id][n] = disk[f]
    <2>1. backups \in [TxIds -> [1..MaxOps -> FileData]] /\ tx.id \in TxIds
      BY <1>1 DEF TMInv, TMTypeOK
    <2>2. n \in 1..MaxOps /\ \A i \in 1..Len(tx.ops) : i # n /\ i \in 1..MaxOps
      BY <1>1, <1>3, MaxOpsType
    <2> HIDE DEF n, op
    <2>3. CASE op.backup
      BY <1>5, <2>1, <2>2, <2>3
    <2>4. CASE ~op.backup
      BY <1>5, <2>4
    <2> QED
      BY <2>3, <2>4
  <1>7. stage[f] = "none" /\ ((type = "create") = (disk[f] = Absent))
    BY DEF Add
  <1> HIDE DEF n, op
  <1>8. ASSUME NEW i \in DOMAIN tx'.ops, ~Undoable(tx.ops[i].file, i - 1)'
        PROVE  PutsBack(i)'
    <2>1. CASE i \in 1..Len(tx.ops)
      <3>1. ~Undoable(tx.ops[i].file, i - 1)
        BY <1>3, <1>4, <1>8, <2>1
      <3>2. PutsBack(i)
        BY <1>1, <1>3, <2>1, <3>1 DEF RestoreInv, FirstPutsBack
      <3> QED
        BY <1>1, <1>3, <1>6, <2>1, <3>2 DEF PutsBack
    <2>2. CASE i = n
      <3>1. ~Undoable(f, Len(tx.ops))
        BY <1>2, <1>3, <1>4, <1>8, <2>2 DEF n
      <3>2. disk[f] = started[f]
        BY <1>1, <1>7, <3>1 DEF RestoreInv, UntouchedInv
      <3> QED
        BY <1>1, <1>2, <1>3, <1>6, <1>7, <2>2, <3>2 DEF PutsBack
    <2> QED
      BY <1>3, <2>1, <2>2 DEF n
  <1>9. UntouchedInv'
    <2> SUFFICES ASSUME NEW g \in Files, ~Undoable(g, Len(tx.ops))', stage'[g] # "touched"
                 PROVE  disk'[g] = started'[g]
      BY <1>1 DEF UntouchedInv
    <2>1. ~Undoable(g, n)
      BY <1>3, <1>4
    <2>2. ~Undoable(g, Len(tx.ops))
      BY <1>3, <2>1 DEF n, Undoable
    <2>3. stage[g] # "touched"
      BY <1>7 DEF Add, TypeOK
    <2> QED
      BY <1>1, <2>2, <2>3 DEF RestoreInv, UntouchedInv
  <1> QED
    BY <1>1, <1>8, <1>9 DEF RestoreInv, FirstPutsBack, RollbackRestores

LEMMA RestoreComplete ==
  ASSUME TypeOK, TMInv, RestoreInv, NEW f \in Files, Complete(f)
  PROVE  RestoreInv'
  <1>1. /\ call = "idle" /\ call' = "complete" /\ tx # NoTx /\ tx'.id = tx.id
        /\ UNCHANGED <<disk, backups, started>> /\ tx.ops \in Seq(Operation)
    BY CompleteKeeps, CurrentTx
  <1>2. PICK k \in DOMAIN tx.ops :
          /\ tx.ops[k].file = f /\ ~tx.ops[k].completed
          /\ tx'.ops = [tx.ops EXCEPT ![k] = Closed(tx.ops[k], stage[f] = "failed")]
    BY CompleteKeeps
  <1>3. /\ Len(tx'.ops) = Len(tx.ops) /\ DOMAIN tx'.ops = DOMAIN tx.ops
        /\ \A g, n : Undoable(g, n) => Undoable(g, n)'
        /\ stage[f] # "failed" => Undoable(f, Len(tx.ops))'
        /\ \A i \in DOMAIN tx.ops : /\ tx'.ops[i].file = tx.ops[i].file
                                    /\ tx'.ops[i].type = tx.ops[i].type
                                    /\ tx'.ops[i].backup = tx.ops[i].backup
    <2>1. (stage[f] = "failed") \in BOOLEAN
      OBVIOUS
    <2> QED
      BY <1>1, <1>2, <2>1, UndoableComplete
  <1>4. /\ stage[f] \in {"touched", "failed"}
        /\ \A g \in Files \ {f} : stage'[g] = stage[g]
    BY DEF Complete, TypeOK
  <1>5. ASSUME NEW i \in DOMAIN tx'.ops, ~Undoable(tx.ops[i].file, i - 1)'
        PROVE  PutsBack(i)'
    <2>1. PutsBack(i)
      BY <1>1, <1>3, <1>5 DEF RestoreInv, FirstPutsBack
    <2> QED
      BY <1>1, <1>3, <2>1 DEF PutsBack
  <1>6. UntouchedInv'
    <2> SUFFICES ASSUME NEW g \in Files, ~Undoable(g, Len(tx.ops))', stage'[g] # "touched"
                 PROVE  disk'[g] = started'[g]
      BY <1>1 DEF UntouchedInv
    <2>1. ~Undoable(g, Len(tx.ops)) /\ stage[g] # "touched"
      BY <1>3, <1>4
    <2> QED
      BY <1>1, <2>1 DEF RestoreInv, UntouchedInv
  <1> QED
    BY <1>1, <1>5, <1>6 DEF RestoreInv, FirstPutsBack, RollbackRestores

\* One turn of the loop of RollbackTransaction.
LEMMA RestoreUndo ==
  ASSUME TypeOK, TMInv, RestoreInv, UndoOperation, started' = started
  PROVE  RestoreInv'
  <1>1. /\ call = "undo" /\ call' = "undo" /\ tx' = tx /\ backups' = backups
        /\ undo \in DOMAIN tx.ops /\ undo' = undo - 1 /\ tx # NoTx
        /\ tx.ops[undo] \in Operation /\ undo \in Nat
    BY UndoInv, CurrentTx DEF UndoOperation, TMInv, TMTypeOK
  <1>2. \A g : Undoable(g, undo) <=>
                 Undoable(g, undo - 1) \/ (tx.ops[undo].file = g /\ ~LeftAlone(tx.ops[undo]))
    <2>1. \A j \in DOMAIN tx.ops : j <= undo <=> j <= undo - 1 \/ j = undo
      BY <1>1, CurrentTx
    <2> QED
      BY <1>1, <2>1 DEF Undoable
  <1>3. undoErr => undoErr'
    BY DEF UndoOperation, UndoSkip, UndoModify, UndoCreate, UndoDelete
  <1>4. ASSUME ~undoErr', NEW g \in Files, ~Undoable(g, undo - 1)
        PROVE  disk'[g] = started[g]
    <2> DEFINE op == tx.ops[undo]
    <2>1. CASE op.file = g /\ ~LeftAlone(op)
      <3>1. PutsBack(undo)
        BY <1>1, <1>4, <2>1 DEF RestoreInv, FirstPutsBack
      <3>2. disk \in [Files -> FileData]
        BY DEF TMInv, TMTypeOK
      <3>3. CASE UndoModify
        BY <1>4, <2>1, <3>1, <3>2, <3>3 DEF UndoModify, PutsBack
      <3>4. CASE UndoCreate
        BY <1>4, <2>1, <3>1, <3>2, <3>4 DEF UndoCreate, PutsBack
      <3> QED
        BY <1>4, <2>1, <3>3, <3>4 DEF UndoOperation, UndoSkip, UndoDelete
    <2>2. CASE op.file # g \/ LeftAlone(op)
      <3>1. ~Undoable(g, undo) /\ ~undoErr
        BY <1>2, <1>3, <1>4, <2>2
      <3>2. disk'[g] = disk[g]
        BY <2>2 DEF UndoOperation, UndoSkip, UndoModify, UndoCreate, UndoDelete, TMInv, TMTypeOK
      <3> QED
        BY <1>1, <3>1, <3>2 DEF RestoreInv, UntouchedInv
    <2> QED
      BY <2>1, <2>2
  <1>5. UntouchedInv'
    BY <1>1, <1>4 DEF UntouchedInv, Undoable
  <1>6. FirstPutsBack'
    BY <1>1 DEF RestoreInv, FirstPutsBack, PutsBack, Undoable
  <1> QED
    BY <1>1, <1>5, <1>6 DEF RestoreInv, RollbackRestores

\* A method that keeps the operations, the backups and what the transaction
\* began with.
LEMMA SameOps ==
  ASSUME TMInv, RestoreInv, tx # NoTx, tx' # NoTx,
         tx'.ops = tx.ops, tx'.id = tx.id, started' = started,
         backups'[tx.id] = backups[tx.id]
  PROVE  FirstPutsBack' /\ \A f, n : Undoable(f, n)' <=> Undoable(f, n)
  <1>1. \A f, n : Undoable(f, n)' <=> Undoable(f, n)
    BY DEF Undoable
  <1>2. ASSUME NEW i \in DOMAIN tx.ops, ~Undoable(tx.ops[i].file, i - 1)'
        PROVE  PutsBack(i)'
    <2>1. PutsBack(i)
      BY <1>1, <1>2 DEF RestoreInv, FirstPutsBack
    <2> QED
      BY <2>1 DEF PutsBack
  <1> QED
    BY <1>1, <1>2 DEF FirstPutsBack

LEMMA RestoreStep ==
  ASSUME TypeOK, TMInv, StageInv, StatusInv, RestoreInv, Next
  PROVE  RestoreInv'
  <1>0. disk \in [Files -> FileData] /\ started \in [Files -> FileData]
    BY DEF TypeOK, TMInv, TMTypeOK
  <1>1. ASSUME NEW id \in TxIds, Begin(id)
        PROVE  RestoreInv'
    BY <1>1 DEF Begin, BeginTransaction, RestoreInv, FirstPutsBack, UntouchedInv,
       RollbackRestores
  <1>2. ASSUME NEW f \in Files,
               (\E type \in OpTypes : AddFails(type, f)) \/ TouchFails(f)
        PROVE  RestoreInv'
    <2>1. /\ UNCHANGED <<tx, call, undo, undoErr, backups, disk, started>>
          /\ \A g \in Files : stage[g] = "touched" => stage'[g] = "touched"
      BY <1>2 DEF AddFails, AddOperationFails, TouchFails, tmVars, TypeOK
    <2> QED
      BY <2>1 DEF RestoreInv, FirstPutsBack, PutsBack, UntouchedInv, Undoable, RollbackRestores
  <1>3. ASSUME NEW f \in Files, Touch(f)
        PROVE  RestoreInv'
    <2>1. /\ UNCHANGED <<tx, call, undo, undoErr, backups, started>>
          /\ tx # NoTx /\ call \notin {"undo", "rollback"}
      BY <1>3 DEF Touch, StageInv, NothingUnderWay
    <2>2. /\ stage'[f] = "touched"
          /\ \A g \in Files \ {f} : stage'[g] = stage[g] /\ disk'[g] = disk[g]
      BY <1>0, <1>3 DEF Touch, TypeOK
    <2>3. FirstPutsBack' /\ \A g, n : Undoable(g, n)' <=> Undoable(g, n)
      BY <2>1, SameOps
    <2>4. UntouchedInv'
      BY <2>1, <2>2, <2>3 DEF RestoreInv, UntouchedInv
    <2> QED
      BY <2>1, <2>3, <2>4 DEF RestoreInv, RollbackRestores
  <1>4. CASE Commit
    <2>1. /\ UNCHANGED <<disk, backups, stage, started>> /\ call = "idle" /\ call' = "commit"
          /\ tx # NoTx /\ tx' # NoTx /\ tx'.ops = tx.ops /\ tx'.id = tx.id
      BY <1>4, CommitInv DEF Commit, CommitTransaction, TMInv
    <2>2. FirstPutsBack' /\ \A g, n : Undoable(g, n)' <=> Undoable(g, n)
      BY <2>1, SameOps
    <2> QED
      BY <2>1, <2>2 DEF RestoreInv, UntouchedInv, RollbackRestores
  <1>5. CASE Rollback
    <2>1. /\ UNCHANGED <<disk, backups, stage, started, tx>> /\ call = "idle" /\ call' = "undo"
          /\ tx # NoTx /\ undo' = Len(tx.ops) /\ \A f \in Files : stage[f] # "touched"
      BY <1>5 DEF Rollback, RollbackTransaction, NothingUnderWay
    <2>2. FirstPutsBack' /\ \A g, n : Undoable(g, n)' <=> Undoable(g, n)
      BY <2>1, SameOps
    <2> QED
      BY <2>1, <2>2 DEF RestoreInv, UntouchedInv, RollbackRestores
  <1>6. CASE RollbackLoop /\ UndoFinished
    <2>1. /\ UNCHANGED <<disk, backups, stage, started, undoErr>>
          /\ call = "undo" /\ undo = 0 /\ call' = "rollback"
          /\ tx # NoTx /\ tx' # NoTx /\ tx'.ops = tx.ops /\ tx'.id = tx.id
      BY <1>6, UndoFinishedInv DEF RollbackLoop, UndoFinished, TMInv
    <2>2. FirstPutsBack'
      BY <2>1, SameOps
    <2>3. \A f \in Files : ~Undoable(f, 0)
      BY <2>1, CurrentTx DEF Undoable
    <2>4. ~undoErr => disk = started
      BY <1>0, <2>1, <2>3 DEF RestoreInv, UntouchedInv
    <2> QED
      BY <2>1, <2>2, <2>4 DEF RestoreInv, UntouchedInv, RollbackRestores
  <1>7. CASE RollbackLoop /\ UndoOperation
    BY <1>7, RestoreUndo DEF RollbackLoop
  <1>8. ASSUME NEW ok \in BOOLEAN, Return(ok)
        PROVE  RestoreInv'
    <2>1. CASE tx' = NoTx
      BY <1>8, <2>1, ReturnKeeps DEF RestoreInv, FirstPutsBack, UntouchedInv, RollbackRestores
    <2>2. CASE tx' = tx /\ call \in {"begin", "add", "complete"}
      <3>1. /\ UNCHANGED <<disk, backups, started, tx>> /\ call' = "idle" /\ tx # NoTx
            /\ \A f \in Files : stage[f] = "touched" => stage'[f] = "touched"
        BY <1>8, <2>2, ReturnKeeps DEF Return
      <3>2. FirstPutsBack' /\ \A g, n : Undoable(g, n)' <=> Undoable(g, n)
        BY <3>1, SameOps
      <3> QED
        BY <2>2, <3>1, <3>2 DEF RestoreInv, UntouchedInv, RollbackRestores
    <2> QED
      BY <1>8, <2>1, <2>2, ReturnKeeps
  <1>9. CASE Crash
    BY <1>9 DEF Crash, TMCrash, RestoreInv, FirstPutsBack, UntouchedInv, RollbackRestores
  <1>10. CASE Cleanup
    <2>1. UNCHANGED <<disk, tx, call, undo, undoErr, stage, started>>
      BY <1>10, CleanupKeeps
    <2>2. CASE tx = NoTx
      BY <2>1, <2>2 DEF RestoreInv, FirstPutsBack, UntouchedInv, Undoable, RollbackRestores
    <2>3. CASE tx # NoTx
      <3>1. backups'[tx.id] = backups[tx.id]
        BY <1>10, <2>3, CleanupKeeps, CurrentTx DEF StatusInv
      <3>2. FirstPutsBack' /\ \A g, n : Undoable(g, n)' <=> Undoable(g, n)
        BY <2>1, <2>3, <3>1, SameOps
      <3> QED
        BY <2>1, <3>2 DEF RestoreInv, UntouchedInv, RollbackRestores
    <2> QED
      BY <2>2, <2>3
  <1> QED
    BY <1>1, <1>2, <1>3, <1>4, <1>5, <1>6, <1>7, <1>8, <1>9, <1>10,
       RestoreAdd, RestoreComplete DEF Next, RollbackLoop

-----------------------------------------------------------------------------
(* What the logs and the backups say *)

LEMMA RecordStep ==
  ASSUME TypeOK, TMInv, StatusInv, RecordInv, Next
  PROVE  RecordInv'
  <1> USE DEF RecordInv
  <1>0. /\ \A t \in TxIds : logs[t] \in Transaction \union {NoLog, Torn}
        /\ backups \in [TxIds -> [1..MaxOps -> FileData]]
        /\ tx # NoTx => tx.id \in TxIds
    BY CurrentTx DEF TMInv, TMTypeOK
  <1>1. ASSUME UNCHANGED <<logs, backups>>, tx' = NoTx \/ tx'.ops = <<>> \/ (tx # NoTx /\ tx' = tx)
        PROVE  RecordInv'
    BY <1>1 DEF LogsFit, CommittedIsClean, PendingBackupsKept, PendingTransactions, Loadable
  <1>2. ASSUME UNCHANGED <<logs, backups>>, tx # NoTx, tx'.id = tx.id, tx'.ops = tx.ops
        PROVE  RecordInv'
    BY <1>2 DEF LogsFit, CommittedIsClean, PendingBackupsKept, PendingTransactions, Loadable
  <1>3. ASSUME NEW f \in Files, NEW type \in OpTypes, Add(type, f)
        PROVE  RecordInv'
    <2> DEFINE n  == Len(tx.ops) + 1
               op == NewOperation(type, f)
    <2>1. /\ logs' = logs /\ tx # NoTx /\ tx'.id = tx.id /\ tx.id \in TxIds
          /\ tx.ops \in Seq(Operation) /\ op \in Operation /\ tx'.ops = Append(tx.ops, op)
          /\ n \in 1..MaxOps
      BY <1>3, AddKeeps, CurrentTx
    <2>2. op.backup => disk[f] # Absent
      BY DEF NewOperation
    <2>3. /\ DOMAIN tx'.ops = 1..n /\ DOMAIN tx.ops = 1..Len(tx.ops)
          /\ \A i \in 1..Len(tx.ops) : tx'.ops[i] = tx.ops[i]
          /\ tx'.ops[n] = op /\ Len(tx.ops) \in Nat
      BY <2>1, AppendProperties
    <2>4. backups' = IF op.backup THEN [backups EXCEPT ![tx.id][n] = disk[f]] ELSE backups
      BY <1>3 DEF Add, AddOperation
    <2> HIDE DEF n, op
    <2>5. ASSUME NEW t \in TxIds, NEW i \in 1..MaxOps, backups[t][i] # Absent
          PROVE  backups'[t][i] # Absent
      <3>1. CASE op.backup
        BY <1>0, <2>1, <2>2, <2>4, <2>5, <3>1
      <3> QED
        BY <2>4, <2>5, <3>1
    <2>6. op.backup => backups'[tx.id][n] # Absent
      BY <1>0, <2>1, <2>2, <2>4
    <2>7. ASSUME NEW i \in DOMAIN tx'.ops, tx'.ops[i].backup
          PROVE  backups'[tx.id][i] # Absent
      <3>1. CASE i = n
        BY <2>3, <2>6, <2>7, <3>1
      <3>2. CASE i # n
        <4>1. i \in 1..Len(tx.ops) /\ i \in 1..MaxOps
          BY <2>1, <2>3, <3>2, MaxOpsType DEF n
        <4>2. backups[tx.id][i] # Absent
          BY <2>1, <2>3, <2>7, <4>1 DEF PendingBackupsKept
        <4> QED
          BY <2>1, <2>5, <4>1, <4>2
      <3> QED
        BY <3>1, <3>2
    <2>8. ASSUME NEW t \in PendingTransactions', NEW i \in DOMAIN logs[t].ops, logs[t].ops[i].backup
          PROVE  backups'[t][i] # Absent
      <3>1. t \in PendingTransactions /\ t \in TxIds /\ Loadable(t)
        BY <2>1, <2>8 DEF PendingTransactions, Loadable
      <3>2. logs[t] \in Transaction
        BY <1>0, <3>1 DEF Loadable
      <3>3. i \in 1..MaxOps
        <4>1. logs[t].ops \in Seq(Operation) /\ Len(logs[t].ops) <= MaxOps
          BY <3>1, <3>2 DEF Transaction, LogsFit
        <4> QED
          BY <4>1, MaxOpsType
      <3>4. backups[t][i] # Absent
        BY <2>8, <3>1 DEF PendingBackupsKept
      <3> QED
        BY <2>5, <3>1, <3>3, <3>4
    <2>9. PendingBackupsKept'
      BY <2>1, <2>7, <2>8 DEF PendingBackupsKept
    <2> QED
      BY <2>1, <2>9 DEF LogsFit, CommittedIsClean, Loadable
  <1>4. ASSUME NEW f \in Files, Complete(f)
        PROVE  RecordInv'
    <2>1. PICK k \in DOMAIN tx.ops :
            /\ tx.ops[k].file = f /\ ~tx.ops[k].completed
            /\ tx'.ops = [tx.ops EXCEPT ![k] = Closed(tx.ops[k], stage[f] = "failed")]
      BY <1>4, CompleteKeeps
    <2>2. /\ DOMAIN tx'.ops = DOMAIN tx.ops
          /\ \A i \in DOMAIN tx.ops : tx'.ops[i].backup = tx.ops[i].backup
      <3>1. (stage[f] = "failed") \in BOOLEAN /\ tx.ops \in Seq(Operation)
        BY <1>4, CompleteKeeps, CurrentTx
      <3> QED
        BY <2>1, <3>1, UndoableComplete
    <2> QED
      BY <1>4, <2>2, CompleteKeeps
         DEF LogsFit, CommittedIsClean, PendingBackupsKept, PendingTransactions, Loadable
  <1>5. ASSUME NEW ok \in BOOLEAN, Return(ok)
        PROVE  RecordInv'
    <2>1. /\ tx \in Transaction /\ tx # NoTx /\ tx.id \in TxIds /\ Len(tx.ops) <= MaxOps
          /\ backups' = backups /\ (tx' = NoTx \/ tx' = tx)
          /\ logs' \in {logs, [logs EXCEPT ![tx.id] = tx], [logs EXCEPT ![tx.id] = Torn]}
      BY <1>5, ReturnKeeps
    <2>2. \A t \in TxIds : logs'[t] \in {logs[t], Torn} \/ (t = tx.id /\ logs'[t] = tx)
      BY <2>1 DEF TMInv, TMTypeOK
    <2>3. tx.status = "committed" => Committable
      BY <2>1 DEF StatusInv
    <2>4. LogsFit' /\ CommittedIsClean'
      BY <2>1, <2>2, <2>3 DEF LogsFit, CommittedIsClean, Committable, Loadable
    <2>5. PendingBackupsKept'
      BY <2>1, <2>2 DEF PendingBackupsKept, PendingTransactions, Loadable
    <2> QED
      BY <2>4, <2>5
  <1>6. CASE Crash
    <2>1. \A t \in TxIds : logs'[t] \in {logs[t], Torn}
      BY <1>6, ManagerCrashInv DEF Crash
    <2> QED
      BY <1>6, <2>1 DEF Crash, TMCrash,
         LogsFit, CommittedIsClean, PendingBackupsKept, PendingTransactions, Loadable
  <1>7. CASE Cleanup
    <2>1. tx' = tx /\ (tx # NoTx => backups'[tx.id] = backups[tx.id])
      BY <1>0, <1>7, CleanupKeeps DEF StatusInv
    <2> QED
      BY <1>7, <2>1, CleanupKeeps
         DEF LogsFit, CommittedIsClean, PendingBackupsKept, PendingTransactions, Loadable
  <1>8. ASSUME NEW f \in Files,
               (\E type \in OpTypes : AddFails(type, f)) \/ Touch(f) \/ TouchFails(f)
        PROVE  RecordInv'
    BY <1>1, <1>2, <1>8 DEF AddFails, AddOperationFails, Touch, TouchFails, tmVars
  <1>9. ASSUME NEW id \in TxIds, Begin(id)
        PROVE  RecordInv'
    BY <1>1, <1>9 DEF Begin, BeginTransaction
  <1>10. CASE Commit \/ Rollback \/ RollbackLoop
    BY <1>2, <1>10, CommitInv, UndoFinishedInv
       DEF Commit, CommitTransaction, Rollback, RollbackTransaction, RollbackLoop,
       UndoOperation, UndoFinished, TMInv
  <1> QED
    BY <1>3, <1>4, <1>5, <1>6, <1>7, <1>8, <1>9, <1>10 DEF Next

-----------------------------------------------------------------------------
(* A file is touched only when the log says how to undo it *)

LEMMA AheadAdd ==
  ASSUME IInv, AheadInv, NEW g \in Files, NEW type \in OpTypes, Add(type, g)
  PROVE  AheadInv'
  <1> USE DEF IInv
  <1> DEFINE n  == Len(tx.ops) + 1
             op == NewOperation(type, g)
  <1>1. /\ UNCHANGED <<logs, disk>> /\ tx # NoTx /\ tx'.id = tx.id /\ tx.id \in TxIds
        /\ tx.ops \in Seq(Operation) /\ op \in Operation /\ tx'.ops = Append(tx.ops, op)
        /\ n \in 1..MaxOps
    BY AddKeeps, CurrentTx
  <1>2. /\ op.file = g /\ ~op.completed /\ op.type = type
        /\ op.backup <=> type = "modify" /\ disk[g] # Absent
        /\ type = "modify" => disk[g] # Absent
    BY DEF NewOperation, Add
  <1>3. /\ DOMAIN tx'.ops = 1..n /\ DOMAIN tx.ops = 1..Len(tx.ops) /\ Len(tx'.ops) = n
        /\ \A i \in 1..Len(tx.ops) : tx'.ops[i] = tx.ops[i]
        /\ tx'.ops[n] = op /\ Len(tx.ops) \in Nat
    BY <1>1, AppendProperties
  <1>4. backups' = IF op.backup THEN [backups EXCEPT ![tx.id][n] = disk[g]] ELSE backups
    BY DEF Add, AddOperation
  <1>5. /\ stage[g] = "none" /\ stage'[g] = "adding"
        /\ \A f \in Files \ {g} : stage'[f] = stage[f]
    BY DEF Add, TypeOK
  <1>6. \A i \in 1..Len(tx.ops) : i # n /\ i \in 1..MaxOps /\ i \in 1..n
    BY <1>1, <1>3, MaxOpsType
  <1> HIDE DEF n, op
  <1>7. /\ \A i \in 1..Len(tx.ops) : backups'[tx.id][i] = backups[tx.id][i]
        /\ op.backup => backups'[tx.id][n] = disk[g]
    <2>1. backups \in [TxIds -> [1..MaxOps -> FileData]]
      BY DEF TMInv, TMTypeOK
    <2>2. CASE op.backup
      BY <1>1, <1>4, <1>6, <2>1, <2>2
    <2>3. CASE ~op.backup
      BY <1>4, <2>3
    <2> QED
      BY <2>2, <2>3
  <1>8. InMemory(g)'
    <2>1. Covers(op, backups'[tx.id][n], g, disk[g]) /\ n \in DOMAIN tx'.ops
      BY <1>1, <1>2, <1>3, <1>7 DEF Covers
    <2> QED
      BY <1>1, <1>3, <2>1 DEF InMemory
  <1>9. ASSUME NEW f \in Files, InMemory(f)
        PROVE  InMemory(f)'
    BY <1>1, <1>3, <1>6, <1>7, <1>9 DEF InMemory
  <1>10. ASSUME NEW f \in Files, InLog(f)
         PROVE  InLog(f)'
    <2>1. PICK i \in DOMAIN logs[tx.id].ops :
            Covers(logs[tx.id].ops[i], backups[tx.id][i], f, disk[f])
      BY <1>10 DEF InLog
    <2>2. logs[tx.id].ops \in Seq(Operation) /\ Len(logs[tx.id].ops) <= Len(tx.ops)
      BY <1>1, <1>10 DEF InLog, Loadable, TMInv, TMTypeOK, Transaction
    <2>3. i \in 1..Len(tx.ops) /\ Len(logs[tx.id].ops) <= Len(tx'.ops)
      BY <1>3, <2>1, <2>2 DEF n
    <2> QED
      BY <1>1, <1>7, <1>10, <2>1, <2>3 DEF InLog, Loadable
  <1> QED
    BY <1>5, <1>8, <1>9, <1>10 DEF AheadInv

LEMMA AheadComplete ==
  ASSUME IInv, AheadInv, NEW g \in Files, Complete(g)
  PROVE  AheadInv'
  <1> USE DEF IInv
  <1>1. /\ tx # NoTx /\ tx'.id = tx.id /\ UNCHANGED <<disk, backups, logs>>
        /\ tx.ops \in Seq(Operation)
    BY CompleteKeeps, CurrentTx
  <1>2. PICK k \in DOMAIN tx.ops :
          /\ tx.ops[k].file = g /\ ~tx.ops[k].completed
          /\ tx'.ops = [tx.ops EXCEPT ![k] = Closed(tx.ops[k], stage[g] = "failed")]
    BY CompleteKeeps
  <1>3. /\ Len(tx'.ops) = Len(tx.ops) /\ DOMAIN tx'.ops = DOMAIN tx.ops
        /\ \A i \in DOMAIN tx.ops : i # k => tx'.ops[i] = tx.ops[i]
    <2>1. (stage[g] = "failed") \in BOOLEAN /\ tx.ops[k] \in Operation
      BY <1>1
    <2>2. Closed(tx.ops[k], stage[g] = "failed") \in Operation
      BY <2>1 DEF Operation, Closed
    <2> QED
      BY <1>1, <1>2, <2>2, UpdateProperties
  <1>4. /\ stage'[g] = "none"
        /\ \A f \in Files \ {g} : stage'[f] = stage[f]
    BY DEF Complete, TypeOK
  <1>5. ASSUME NEW f \in Files \ {g}
        PROVE  (InMemory(f) => InMemory(f)') /\ (InLog(f) => InLog(f)')
    BY <1>1, <1>2, <1>3 DEF InMemory, InLog, Loadable, Covers
  <1> QED
    BY <1>4, <1>5 DEF AheadInv

LEMMA AheadStep ==
  ASSUME "log" \notin Faults, IInv, AheadInv, Next
  PROVE  AheadInv'
  <1> USE DEF IInv
  <1>1. NothingUnderWay' => AheadInv'
    BY DEF AheadInv, NothingUnderWay
  <1>2. \A f \in Files : stage[f] # "none" => tx # NoTx
    BY DEF StageInv, NothingUnderWay
  <1>3. ASSUME NEW id \in TxIds, Begin(id)
        PROVE  AheadInv'
    BY <1>1, <1>3 DEF Begin, BeginTransaction, StageInv, NothingUnderWay
  <1>4. ASSUME NEW g \in Files,
               (\E type \in OpTypes : AddFails(type, g)) \/ Touch(g) \/ TouchFails(g)
        PROVE  AheadInv'
    <2>1. /\ UNCHANGED <<tx, logs, backups>>
          /\ \A f \in Files : stage'[f] \in {"adding", "added"} =>
               stage[f] = stage'[f] /\ disk'[f] = disk[f]
      BY <1>4 DEF AddFails, AddOperationFails, Touch, TouchFails, tmVars, TypeOK, TMInv, TMTypeOK
    <2> QED
      BY <2>1 DEF AheadInv, InMemory, InLog, Loadable
  <1>5. CASE Commit \/ Rollback \/ RollbackLoop
    <2>1. call' \in {"commit", "undo", "rollback"}
      BY <1>5 DEF Commit, CommitTransaction, Rollback, RollbackTransaction, RollbackLoop,
         UndoOperation, UndoFinished
    <2> QED
      BY <1>1, <2>1, StageStep DEF StageInv
  <1>6. ASSUME NEW ok \in BOOLEAN, Return(ok)
        PROVE  AheadInv'
    <2>1. CASE tx' = NoTx
      BY <1>1, <2>1, StageStep DEF StageInv
    <2>2. CASE tx' = tx
      <3>1. /\ UNCHANGED <<disk, backups, tx>> /\ tx # NoTx /\ tx \in Transaction
            /\ logs'[tx.id] = tx
        BY <1>6, <2>2, ReturnKeeps DEF TMInv, TMTypeOK
      <3>2. \A f \in Files : stage'[f] \in {"adding", "added"} => stage[f] \in {"adding", "added"}
        BY <1>6 DEF Return
      <3>3. ASSUME NEW f \in Files, InMemory(f)
            PROVE  InMemory(f)' /\ InLog(f)'
        <4>1. tx \notin {NoLog, Torn} /\ Len(tx.ops) <= Len(tx.ops)
          BY <3>1, TransactionAssumptions, CurrentTx
        <4> QED
          BY <3>1, <3>3, <4>1 DEF InMemory, InLog, Loadable
      <3> QED
        BY <3>2, <3>3 DEF AheadInv
    <2> QED
      BY <1>6, <2>1, <2>2, ReturnKeeps
  <1>7. CASE Crash
    BY <1>1, <1>7 DEF Crash, NothingUnderWay
  <1>8. CASE Cleanup
    <2>1. UNCHANGED <<disk, tx, stage>>
      BY <1>8, CleanupKeeps
    <2>2. tx # NoTx => backups'[tx.id] = backups[tx.id] /\ logs'[tx.id] = logs[tx.id]
      BY <1>8, CleanupKeeps, CurrentTx DEF StatusInv
    <2> QED
      BY <1>2, <2>1, <2>2 DEF AheadInv, InMemory, InLog, Loadable
  <1> QED
    BY <1>3, <1>4, <1>5, <1>6, <1>7, <1>8, AheadAdd, AheadComplete DEF Next

-----------------------------------------------------------------------------
(* The theorems *)

LEMMA InitIInv ==
  ASSUME Init
  PROVE  IInv
  <1>1. /\ tx = NoTx /\ call = "idle" /\ disk = started /\ NothingUnderWay
        /\ \A t \in TxIds : ~Loadable(t)
    BY DEF Init, TMInit, NothingUnderWay, Loadable
  <1> QED
    BY <1>1, ClientInitTyped
       DEF IInv, StageInv, NothingUnderWay, StatusInv, FirstPutsBack, UntouchedInv,
           RollbackRestores, RecordInv, LogsFit, CommittedIsClean, PendingBackupsKept,
           PendingTransactions

LEMMA StepIInv ==
  ASSUME IInv, [Next]_vars
  PROVE  IInv'
  <1>1. CASE Next
    BY <1>1, ClientStepTyped, StageStep, StatusStep, RestoreStep, RecordStep
       DEF IInv, RestoreInv
  <1>2. CASE UNCHANGED vars
    BY <1>2 DEF IInv, vars, tmVars, TypeOK, TMInv, TMTypeOK, StageInv, NothingUnderWay,
       StatusInv, FirstPutsBack, PutsBack, UntouchedInv, Undoable, Committable,
       RollbackRestores, RecordInv, LogsFit, CommittedIsClean, PendingBackupsKept,
       PendingTransactions, Loadable
  <1> QED
    BY <1>1, <1>2

\* The conjunction above is an invariant, whatever faults are injected.
THEOREM ClientInductive == Spec => []IInv
  BY InitIInv, StepIInv, PTL DEF Spec

\* A RollbackTransaction that reports no error leaves every file as it was
\* when the transaction began: whatever the operations, however often they
\* name a file, whatever failed, and also when log writes fail.
THEOREM RollbackRestoresHolds == Spec => []RollbackRestores
  <1>1. IInv => RollbackRestores
    BY DEF IInv
  <1> QED
    BY <1>1, ClientInductive, PTL

\* A log that says "committed" lists operations that went well only, and
\* CleanupOldTransactions takes no backup a pending log points to.
THEOREM ClientInvHolds == Spec => []ClientInv
  <1>1. IInv => ClientInv
    BY DEF IInv, RecordInv, ClientInv
  <1> QED
    BY <1>1, ClientInductive, PTL

\* A log that says how its transaction ended never says otherwise.
THEOREM OutcomeIsFinalHolds == Spec => OutcomeIsFinal
  <1> DEFINE Final == \A t \in TxIds :
                        Loadable(t) /\ logs[t].status # "pending" => logs'[t] \in {logs[t], NoLog}
  <1>1. ASSUME IInv, Next
        PROVE  Final
    <2> SUFFICES ASSUME NEW t \in TxIds, Loadable(t), logs[t].status # "pending"
                 PROVE  logs'[t] \in {logs[t], NoLog}
      OBVIOUS
    <2>1. CASE logs' = logs
      BY <2>1
    <2>2. tx # NoTx => tx.id # t
      BY <1>1 DEF IInv, StatusInv
    <2>3. ASSUME NEW ok \in BOOLEAN, Return(ok)
          PROVE  logs'[t] = logs[t]
      BY <1>1, <2>2, <2>3, ReturnKeeps DEF IInv, TMInv, TMTypeOK
    <2>4. CASE Crash
      <3>1. logs' # logs => tx # NoTx /\ logs' = [logs EXCEPT ![tx.id] = Torn]
        BY <1>1, <2>4 DEF Crash, TMCrash, IInv, TMInv, LogWriters
      <3> QED
        BY <1>1, <2>2, <3>1 DEF IInv, TMInv, TMTypeOK
    <2>5. CASE Cleanup
      BY <1>1, <2>5, CleanupKeeps DEF IInv
    <2> QED
      BY <1>1, <2>1, <2>3, <2>4, <2>5
         DEF Next, Begin, BeginTransaction, Add, AddOperation, AddFails, AddOperationFails,
             Touch, TouchFails, Complete, CompleteOperation, Commit, CommitTransaction,
             Rollback, RollbackTransaction, RollbackLoop, UndoOperation, UndoFinished, tmVars
  <1>2. IInv /\ [Next]_vars => [Final]_vars
    BY <1>1
  <1>3. Spec => [][Final]_vars
    BY <1>2, ClientInductive, PTL DEF Spec
  <1> QED
    BY <1>3 DEF OutcomeIsFinal

\* As long as no write of a log fails, a file is touched only while the log
\* on disk lists an open operation for it, with a backup of what the file
\* held if the operation modifies it: a crash at any moment finds how to
\* undo what was done.
THEOREM WriteAheadHolds == "log" \notin Faults => (Spec => WriteAhead)
  <1> DEFINE Ahead == \A f \in Files :
                        disk'[f] # disk[f] /\ call \notin {"undo"} =>
                          /\ Loadable(tx.id)
                          /\ \E i \in DOMAIN logs[tx.id].ops :
                               LET op == logs[tx.id].ops[i]
                               IN  /\ op.file = f /\ ~op.completed
                                   /\ op.type = "modify" => backups[tx.id][i] = disk[f]
  <1> SUFFICES ASSUME "log" \notin Faults
               PROVE  Spec => WriteAhead
    OBVIOUS
  <1>1. Init => AheadInv
    BY DEF Init, AheadInv
  <1>2. IInv /\ AheadInv /\ [Next]_vars => AheadInv'
    <2>1. CASE UNCHANGED vars
      BY <2>1 DEF vars, tmVars, AheadInv, InMemory, InLog, Loadable
    <2> QED
      BY <2>1, AheadStep
  <1>3. ASSUME IInv, AheadInv, Next
        PROVE  Ahead
    <2> SUFFICES ASSUME NEW f \in Files, disk'[f] # disk[f], call # "undo"
                 PROVE  InLog(f)
      BY DEF InLog, Covers
    <2>1. ASSUME NEW g \in Files, Touch(g)
          PROVE  stage[f] = "added"
      BY <1>3, <2>1 DEF Touch, IInv, TMInv, TMTypeOK
    <2>2. ASSUME NEW ok \in BOOLEAN, Return(ok)
          PROVE  disk' = disk
      BY <1>3, <2>2, ReturnKeeps DEF IInv
    <2>3. ASSUME Commit \/ Rollback \/ RollbackLoop \/ Crash \/ Cleanup
          PROVE  disk' = disk
      BY <2>3 DEF Commit, CommitTransaction, Rollback, RollbackTransaction, RollbackLoop,
         UndoOperation, UndoFinished, Crash, Cleanup, CleanupOldTransactions
    <2>4. ASSUME NEW id \in TxIds, Begin(id)
          PROVE  disk' = disk
      BY <2>4 DEF Begin, BeginTransaction
    <2>5. ASSUME NEW g \in Files,
                 \/ \E type \in OpTypes : Add(type, g) \/ AddFails(type, g)
                 \/ TouchFails(g) \/ Complete(g)
          PROVE  disk' = disk
      BY <2>5 DEF Add, AddOperation, AddFails, AddOperationFails, TouchFails, Complete,
         CompleteOperation, tmVars
    <2>6. \E g \in Files : Touch(g)
      BY <1>3, <2>2, <2>3, <2>4, <2>5 DEF Next
    <2> QED
      BY <1>3, <2>1, <2>6 DEF AheadInv
  <1>4. IInv /\ AheadInv /\ [Next]_vars => [Ahead]_vars
    BY <1>3
  <1>5. Spec => [][Ahead]_vars
    BY <1>1, <1>2, <1>4, ClientInductive, PTL DEF Spec
  <1> QED
    BY <1>5 DEF WriteAhead
=============================================================================
