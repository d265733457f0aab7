------------------------- MODULE TransactionManager -------------------------
(***************************************************************************)
(* The transaction log of multi-file transforms: the type                  *)
(* TransactionManager of core/transaction.go.  A manager holds at most one *)
(* current transaction in memory (tx) and mirrors it, after every method,  *)
(* into a JSON file (logs).  Each method runs under tm.mu from its first   *)
(* to its last line, so a method is at most two steps here: its effect on  *)
(* memory, backups and files, and the rewrite of the log file that ends    *)
(* it.  Between the two, call names the method that holds the mutex.  The  *)
(* rewrite is an os.WriteFile (truncate, then write), so a crash or an I/O *)
(* error in it may leave the old log, or one that no longer parses.        *)
(*                                                                         *)
(* The module defines the methods as actions.  TransactionClient.tla       *)
(* drives them with an arbitrary disciplined caller, TransformFiles.tla    *)
(* with the one caller the program has.                                    *)
(***************************************************************************)
EXTENDS Integers, Sequences

CONSTANTS
  Files,      \* paths a transaction may name
  Contents,   \* file contents, as far as they can be told apart
  Absent,     \* "no such file", for files and for backups
  Partial,    \* a file cut short by a non-atomic write
  TxIds,      \* transaction ids; newTransactionID never repeats one
  MaxOps,     \* bound on the operations of one transaction
  NoTx,       \* currentTx == nil
  NoLog,      \* no <id>.json in the log directory
  Torn,       \* an <id>.json that json.Unmarshal rejects
  Faults      \* the faults the environment may inject in this instance

FaultKinds ==
  {"log",      \* a log write fails
   "backup",   \* AddOperation cannot checksum or copy the file
   "write",    \* a file write fails before the rename
   "release",  \* a file write fails after the rename, releasing its lock
   "restore",  \* a restore of RollbackTransaction fails
   "read",     \* a file cannot be read, parsed or transformed
   "walk",     \* the directory walk or the batch check fails
   "edit",     \* somebody else writes the file
   "crash"}    \* the process dies

OpTypes  == {"modify", "create", "delete"}
Statuses == {"pending", "committed", "rolled_back"}
FileData == Contents \union {Absent, Partial}

\* TransactionOperation.  backup is BackupPath # "", err is Error # "".
Operation == [type: OpTypes, file: Files, backup: BOOLEAN,
              completed: BOOLEAN, err: BOOLEAN]

\* TransactionLog, in memory and, once written, on disk.
Transaction == [id: TxIds, status: Statuses, ops: Seq(Operation)]

ASSUME TransactionAssumptions ==
  /\ MaxOps \in Nat
  /\ Faults \subseteq FaultKinds
  /\ Absent \notin Contents /\ Partial \notin Contents /\ Absent # Partial
  /\ {NoTx, NoLog, Torn} \cap Transaction = {}

VARIABLES
  disk,      \* what each path holds
  backups,   \* backups[t][i]: the backup file of operation i of t
  logs,      \* the log file of each transaction
  tx,        \* tm.currentTx
  call,      \* the method holding tm.mu, "idle" if none does
  undo,      \* RollbackTransaction's loop index
  undoErr    \* len(rollbackErrors) > 0

tmVars == <<disk, backups, logs, tx, call, undo, undoErr>>

\* The methods that are about to rewrite the log, and the rollback loop.
LogWriters == {"begin", "add", "complete", "commit", "rollback"}
Calls      == LogWriters \union {"idle", "undo"}

TMTypeOK ==
  /\ disk \in [Files -> FileData]
  /\ backups \in [TxIds -> [1..MaxOps -> FileData]]
  /\ logs \in [TxIds -> Transaction \union {NoLog, Torn}]
  /\ tx \in Transaction \union {NoTx}
  /\ call \in Calls
  /\ undo \in 0..MaxOps
  /\ undoErr \in BOOLEAN

\* The part of the manager's state every method relies on: a method under
\* way has a transaction, which fits, and the loop index is one of its own.
TMInv ==
  /\ TMTypeOK
  /\ call # "idle" => tx # NoTx
  /\ tx # NoTx => Len(tx.ops) <= MaxOps
  /\ call = "undo" => undo <= Len(tx.ops)

TMInit ==
  /\ disk \in [Files -> Contents]
  /\ backups = [t \in TxIds |-> [i \in 1..MaxOps |-> Absent]]
  /\ logs = [t \in TxIds |-> NoLog]
  /\ tx = NoTx
  /\ call = "idle"
  /\ undo = 0
  /\ undoErr = FALSE

-----------------------------------------------------------------------------
(* Methods *)

\* BeginTransaction on an unused id, up to the write of the empty log.
BeginTransaction(id) ==
  /\ call = "idle"
  /\ tx = NoTx
  /\ logs[id] = NoLog
  /\ tx' = [id |-> id, status |-> "pending", ops |-> <<>>]
  /\ call' = "begin"
  /\ UNCHANGED <<disk, backups, logs, undo, undoErr>>

\* The entry AddOperation appends; an existing file that is to be modified
\* gets a backup.
NewOperation(type, f) ==
  [type |-> type, file |-> f, backup |-> type = "modify" /\ disk[f] # Absent,
   completed |-> FALSE, err |-> FALSE]

\* Mutant: the entry names a backup that was not taken.
AddOperationNoCopy(type, f) ==
  /\ call = "idle"
  /\ tx # NoTx
  /\ Len(tx.ops) < MaxOps
  /\ tx' = [tx EXCEPT !.ops = Append(@, NewOperation(type, f))]
  /\ call' = "add"
  /\ UNCHANGED <<disk, backups, logs, undo, undoErr>>

AddOperation(type, f) ==
  LET n  == Len(tx.ops) + 1
      op == NewOperation(type, f)
  IN  /\ call = "idle"
      /\ tx # NoTx
      /\ n <= MaxOps
      /\ backups' = IF op.backup THEN [backups EXCEPT ![tx.id][n] = disk[f]]
                    ELSE backups
      /\ tx' = [tx EXCEPT !.ops = Append(@, op)]
      /\ call' = "add"
      /\ UNCHANGED <<disk, logs, undo, undoErr>>

\* AddOperation returning early: the checksum or the copy failed and
\* nothing was appended.
AddOperationFails(type, f) ==
  /\ "backup" \in Faults
  /\ call = "idle"
  /\ tx # NoTx
  /\ type \in {"modify", "delete"} /\ disk[f] # Absent
  /\ UNCHANGED tmVars

\* i is the operation CompleteOperation picks for path f: the first open one.
FirstOpen(i, f) ==
  /\ i \in DOMAIN tx.ops
  /\ tx.ops[i].file = f /\ ~tx.ops[i].completed
  /\ \A j \in 1..i-1 : tx.ops[j].file # f \/ tx.ops[j].completed

Closed(op, opErr) == [op EXCEPT !.completed = TRUE, !.err = opErr]

CompleteOperation(f, opErr) ==
  /\ call = "idle"
  /\ tx # NoTx
  /\ \E i \in DOMAIN tx.ops :
       /\ FirstOpen(i, f)
       /\ tx' = [tx EXCEPT !.ops[i] = Closed(@, opErr)]
  /\ call' = "complete"
  /\ UNCHANGED <<disk, backups, logs, undo, undoErr>>

\* Mutant: operations that failed are committed.
CommittableFailed == \A i \in DOMAIN tx.ops : tx.ops[i].completed

\* The check of CommitTransaction.
Committable == \A i \in DOMAIN tx.ops : tx.ops[i].completed /\ ~tx.ops[i].err

\* Mutant: a status no reader knows.
CommitTransactionTypo ==
  /\ call = "idle"
  /\ tx # NoTx
  /\ Committable
  /\ tx' = [tx EXCEPT !.status = "commited"]
  /\ call' = "commit"
  /\ UNCHANGED <<disk, backups, logs, undo, undoErr>>

CommitTransaction ==
  /\ call = "idle"
  /\ tx # NoTx
  /\ Committable
  /\ tx' = [tx EXCEPT !.status = "committed"]
  /\ call' = "commit"
  /\ UNCHANGED <<disk, backups, logs, undo, undoErr>>

\* Mutant: the loop starts one operation too low.
RollbackOffByOne ==
  /\ call = "idle"
  /\ tx # NoTx
  /\ call' = "undo"
  /\ undo' = IF tx.ops = <<>> THEN 0 ELSE Len(tx.ops) - 1
  /\ undoErr' = FALSE
  /\ UNCHANGED <<disk, backups, logs, tx>>

\* RollbackTransaction enters its loop over the operations, last to first.
RollbackTransaction ==
  /\ call = "idle"
  /\ tx # NoTx
  /\ call' = "undo"
  /\ undo' = Len(tx.ops)
  /\ undoErr' = FALSE
  /\ UNCHANGED <<disk, backups, logs, tx>>

\* The operations RollbackTransaction leaves alone: those not completed, and
\* the modifications that failed (rollbackOperation returns nil for them).
LeftAlone(op) == ~op.completed \/ (op.type = "modify" /\ op.err)

UndoSkip ==
  /\ LeftAlone(tx.ops[undo])
  /\ UNCHANGED <<disk, undoErr>>

\* rollbackOperation of a modify, through the atomic writer.  The writer may
\* fail before its rename, or after it while it releases its lock.
UndoModify ==
  LET op   == tx.ops[undo]
      copy == backups[tx.id][undo]
  IN  /\ op.type = "modify" /\ ~LeftAlone(op)
      /\ \/ /\ op.backup /\ copy # Absent
            /\ disk' = [disk EXCEPT ![op.file] = copy]
            /\ undoErr' \in {undoErr} \union {TRUE : x \in Faults \cap {"release"}}
         \/ /\ ~op.backup \/ copy = Absent \/ "restore" \in Faults
            /\ undoErr' = TRUE
            /\ UNCHANGED disk

\* rollbackOperation of a create removes the file, if it is there.
UndoCreate ==
  LET op == tx.ops[undo]
  IN  /\ op.type = "create" /\ ~LeftAlone(op)
      /\ \/ /\ disk' = [disk EXCEPT ![op.file] = Absent]
            /\ UNCHANGED undoErr
         \/ /\ "restore" \in Faults /\ disk[op.file] # Absent
            /\ undoErr' = TRUE
            /\ UNCHANGED disk

\* rollbackOperation of a delete always reports an error.
UndoDelete ==
  /\ tx.ops[undo].type = "delete" /\ ~LeftAlone(tx.ops[undo])
  /\ undoErr' = TRUE
  /\ UNCHANGED disk

UndoOperation ==
  /\ call = "undo"
  /\ undo > 0
  /\ UndoSkip \/ UndoModify \/ UndoCreate \/ UndoDelete
  /\ undo' = undo - 1
  /\ UNCHANGED <<backups, logs, tx, call>>

UndoFinished ==
  /\ call = "undo"
  /\ undo = 0
  /\ tx' = [tx EXCEPT !.status = "rolled_back"]
  /\ call' = "rollback"
  /\ UNCHANGED <<disk, backups, logs, undo, undoErr>>

-----------------------------------------------------------------------------
(* The log file *)

\* Mutant: a finished transaction stays current.
TxAfterCallKept(ok) == IF call = "begin" /\ ~ok THEN NoTx ELSE tx

\* What a method leaves in currentTx when its log write ended with ok.
TxAfterCall(ok) ==
  IF call \in {"commit", "rollback"} \/ (call = "begin" /\ ~ok)
  THEN NoTx ELSE tx

\* The error the method returns is nil.
CallSucceeds(ok) == ok /\ ~(call = "rollback" /\ undoErr)

LogWritten ==
  /\ call \in LogWriters
  /\ logs' = [logs EXCEPT ![tx.id] = tx]
  /\ tx' = TxAfterCall(TRUE)
  /\ call' = "idle"
  /\ UNCHANGED <<disk, backups, undo, undoErr>>

\* The write failed when opening the file (old log stays) or later (torn).
LogWriteFails ==
  /\ "log" \in Faults
  /\ call \in LogWriters
  /\ logs' \in {logs, [logs EXCEPT ![tx.id] = Torn]}
  /\ tx' = TxAfterCall(FALSE)
  /\ call' = "idle"
  /\ UNCHANGED <<disk, backups, undo, undoErr>>

\* The method ends, its log write having succeeded or not.
EndCall(ok) == IF ok THEN LogWritten ELSE LogWriteFails

\* The process dies: memory is gone, and a log being rewritten is the old
\* one or torn (the new one is a crash just after LogWritten).
TMCrash ==
  /\ "crash" \in Faults
  /\ logs' \in {logs} \union {[logs EXCEPT ![tx.id] = Torn] :
                                c \in {call} \cap LogWriters}
  /\ tx' = NoTx
  /\ call' = "idle"
  /\ undo' = 0
  /\ undoErr' = FALSE
  /\ UNCHANGED backups

-----------------------------------------------------------------------------
(* Reading the log directory *)

\* LoadTransaction succeeds.
Loadable(t) == logs[t] \notin {NoLog, Torn}

\* ListPendingTransactions; a log that does not parse is skipped.
PendingTransactions == {t \in TxIds : Loadable(t) /\ logs[t].status = "pending"}

\* Mutant: pending transactions are cleaned up too.
CleanupPendingToo(old) ==
  /\ old # {}
  /\ \A t \in old : Loadable(t)
  /\ logs' = [t \in TxIds |-> IF t \in old THEN NoLog ELSE logs[t]]
  /\ backups' = [t \in TxIds |-> [i \in 1..MaxOps |->
                   IF t \in old /\ i \in DOMAIN logs[t].ops /\ logs[t].ops[i].backup
                   THEN Absent ELSE backups[t][i]]]
  /\ UNCHANGED <<disk, tx, call, undo, undoErr>>

\* CleanupOldTransactions, for any of the finished transactions the cutoff
\* selects.  It does not take tm.mu.
CleanupOldTransactions(old) ==
  /\ old # {}
  /\ \A t \in old : Loadable(t) /\ t \notin PendingTransactions
  /\ logs' = [t \in TxIds |-> IF t \in old THEN NoLog ELSE logs[t]]
  /\ backups' = [t \in TxIds |-> [i \in 1..MaxOps |->
                   IF t \in old /\ i \in DOMAIN logs[t].ops /\ logs[t].ops[i].backup
                   THEN Absent ELSE backups[t][i]]]
  /\ UNCHANGED <<disk, tx, call, undo, undoErr>>
=============================================================================
