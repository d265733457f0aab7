------------------------------ MODULE WriteLog ------------------------------
(***************************************************************************)
(* SafetyManager.AtomicWrite of mcp/safety.go and the TransactionLog of    *)
(* mcp/transaction_log.go.  A process writes a temporary file with a       *)
(* random name and renames it over the path; the backup of a path has one  *)
(* name, whoever makes it.  The log lives in the memory of its process:    *)
(* what it appends to a file nobody reads.                                 *)
(***************************************************************************)
EXTENDS Naturals

CONSTANTS
  Actors,  \* processes that write files
  Files,
  Contents,
  Absent   \* no such file

VARIABLES
  safety,  \* SafetyConfig: [backups: CreateBackups, log: TransactionLog]
  disk,    \* disk[f]: what the path f holds
  bak,     \* bak[f]: what its backup holds
  temp,    \* temp[a]: the temporary file of a
  txs,     \* the transactions of every process, those that failed or were
           \* rolled back left out: nothing looks at them again
  handle   \* the actors that may still finish the transaction they began

writeVars == <<safety, disk, bak, temp, txs, handle>>

SafetyConfigs == [backups: BOOLEAN, log: BOOLEAN]

Transactions == [by: Actors, file: Files, status: {"pending", "completed"}]

WriteTypeOK ==
  /\ safety \in SafetyConfigs
  /\ disk \in [Files -> Contents \union {Absent}]
  /\ bak \in [Files -> Contents \union {Absent}]
  /\ temp \in [Actors -> Contents \union {Absent}]
  /\ txs \subseteq Transactions
  /\ handle \subseteq Actors

WriteInit(configs, first) ==
  /\ safety \in configs
  /\ disk = first
  /\ bak = [f \in Files |-> Absent]
  /\ temp = [a \in Actors |-> Absent]
  /\ txs = {}
  /\ handle = {}

-----------------------------------------------------------------------------
(* AtomicWrite *)

\* createBackup: a file that does not exist leaves the backup as it was.
BackupPath(f) ==
  bak' = IF safety.backups /\ disk[f] # Absent THEN [bak EXCEPT ![f] = disk[f]] ELSE bak

WriteTemp(a, content) == temp' = [temp EXCEPT ![a] = content]

CleanupFailedWrite(a, f) ==
  /\ temp' = [temp EXCEPT ![a] = Absent]
  /\ bak' = IF safety.backups THEN [bak EXCEPT ![f] = Absent] ELSE bak

Tx(a, f, status) == [by |-> a, file |-> f, status |-> status]

BeginTransaction(a, f, status) ==
  IF safety.log
  THEN /\ txs' = txs \union {Tx(a, f, status)}
       /\ handle' = IF status = "pending" THEN handle \union {a} ELSE handle
  ELSE UNCHANGED <<txs, handle>>

\* The rename, with the transaction begun before it.
RenameOver(a, f, status) ==
  /\ disk' = [disk EXCEPT ![f] = temp[a]]
  /\ temp' = [temp EXCEPT ![a] = Absent]
  /\ BeginTransaction(a, f, status)
  /\ UNCHANGED bak

\* os.Rename fails.  cleanupFailedWrite has removed the backup when
\* FailTransaction looks for it, and the target is removed instead.
RenameFails(a, f) ==
  /\ CleanupFailedWrite(a, f)
  /\ UNCHANGED <<txs, handle>>
  /\ disk' = IF safety.log THEN [disk EXCEPT ![f] = Absent] ELSE disk

-----------------------------------------------------------------------------
(* The handle *)

\* The transaction a has begun on f gets another status, or is left out.
Close(a, f, tx) ==
  /\ txs' = IF a \in handle THEN (txs \ {Tx(a, f, "pending")}) \union tx ELSE txs
  /\ handle' = handle \ {a}

CommitHandle(a, f) ==
  /\ Close(a, f, {Tx(a, f, "completed")})
  /\ UNCHANGED <<disk, bak, temp>>

\* rollbackTransactionInternal: the backup goes back or, when there is none,
\* the target is removed.
RollbackHandle(a, f) ==
  LET restored == safety.backups /\ bak[f] # Absent
  IN  /\ IF a \notin handle THEN UNCHANGED <<disk, bak>>
         ELSE /\ disk' = [disk EXCEPT ![f] = IF restored THEN bak[f] ELSE Absent]
              /\ bak' = IF restored THEN [bak EXCEPT ![f] = Absent] ELSE bak
      /\ Close(a, f, {})
      /\ UNCHANGED temp

\* The rename of the backup, or the removal of the target, fails: the
\* transaction stays pending.
RollbackFails(a) ==
  /\ a \in handle
  /\ handle' = handle \ {a}
  /\ UNCHANGED <<disk, bak, temp, txs>>

\* cleanupTransaction, minutes after the completion: the backup is removed,
\* whichever write made it.
CleanupTransaction(tx) ==
  /\ tx.status = "completed"
  /\ txs' = txs \ {tx}
  /\ bak' = IF safety.backups THEN [bak EXCEPT ![tx.file] = Absent] ELSE bak
  /\ UNCHANGED <<safety, disk, temp, handle>>

\* The process of a dies, and its log with it.
LogDies(a) ==
  /\ txs' = {tx \in txs : tx.by # a}
  /\ handle' = handle \ {a}
  /\ UNCHANGED <<disk, bak>>
=============================================================================
