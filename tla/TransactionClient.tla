-------------------------- MODULE TransactionClient --------------------------
(***************************************************************************)
(* TransactionManager driven by a caller that keeps the discipline the     *)
(* tests of core/transaction.go and TransformFiles keep: an operation is   *)
(* added before its file is touched, the file is touched at most once per  *)
(* operation and only if AddOperation returned nil, CompleteOperation gets *)
(* the outcome, and commit or rollback waits until no operation is under   *)
(* way.  Unlike TransformFiles it uses all three kinds of operation, names *)
(* a file in several operations, runs several transactions and cleans up.  *)
(***************************************************************************)
EXTENDS TransactionManager

VARIABLES
  stage,    \* what the caller is doing with each file
  started,  \* disk when the current transaction began
  begun     \* transactions whose BeginTransaction returned nil and whose
            \* commit or rollback has not returned

vars == <<tmVars, stage, started, begun>>

Stages == {"none", "adding", "added", "touched", "failed"}

TypeOK ==
  /\ TMTypeOK
  /\ stage \in [Files -> Stages]
  /\ started \in [Files -> FileData]
  /\ begun \subseteq TxIds

Init ==
  /\ TMInit
  /\ stage = [f \in Files |-> "none"]
  /\ started = disk
  /\ begun = {}

NothingUnderWay == \A f \in Files : stage[f] = "none"

Begin(id) ==
  /\ BeginTransaction(id)
  /\ started' = disk
  /\ UNCHANGED <<stage, begun>>

\* The operations that make sense for f: create what is not there, modify or
\* delete what is.
Add(type, f) ==
  /\ stage[f] = "none"
  /\ (type = "create") = (disk[f] = Absent)
  /\ AddOperation(type, f)
  /\ stage' = [stage EXCEPT ![f] = "adding"]
  /\ UNCHANGED <<started, begun>>

AddFails(type, f) ==
  /\ stage[f] = "none"
  /\ AddOperationFails(type, f)
  /\ UNCHANGED <<stage, started, begun>>

\* The content an operation of this type may leave in its file.
Outcome(type) == IF type = "delete" THEN {Absent} ELSE Contents

Touch(f) ==
  /\ stage[f] = "added"
  /\ \E i \in DOMAIN tx.ops : /\ FirstOpen(i, f)
                              /\ \E c \in Outcome(tx.ops[i].type) :
                                   disk' = [disk EXCEPT ![f] = c]
  /\ stage' = [stage EXCEPT ![f] = "touched"]
  /\ UNCHANGED <<backups, logs, tx, call, undo, undoErr, started, begun>>

TouchFails(f) ==
  /\ "write" \in Faults
  /\ stage[f] = "added"
  /\ stage' = [stage EXCEPT ![f] = "failed"]
  /\ UNCHANGED <<tmVars, started, begun>>

Complete(f) ==
  /\ stage[f] \in {"touched", "failed"}
  /\ CompleteOperation(f, stage[f] = "failed")
  /\ stage' = [stage EXCEPT ![f] = "none"]
  /\ UNCHANGED <<started, begun>>

Commit ==
  /\ NothingUnderWay
  /\ CommitTransaction
  /\ UNCHANGED <<stage, started, begun>>

Rollback ==
  /\ NothingUnderWay
  /\ RollbackTransaction
  /\ UNCHANGED <<stage, started, begun>>

RollbackLoop ==
  /\ UndoOperation \/ UndoFinished
  /\ UNCHANGED <<stage, started, begun>>

\* A method returns.  An operation whose AddOperation failed is not touched.
Return(ok) ==
  /\ EndCall(ok)
  /\ stage' = [f \in Files |-> IF stage[f] # "adding" THEN stage[f]
                               ELSE IF ok THEN "added" ELSE "none"]
  /\ begun' = CASE call = "begin" /\ ok             -> begun \union {tx.id}
                [] call \in {"commit", "rollback"}  -> begun \ {tx.id}
                [] OTHER                            -> begun
  /\ UNCHANGED started

Crash ==
  /\ TMCrash
  /\ stage' = [f \in Files |-> "none"]
  /\ UNCHANGED <<disk, started, begun>>

Cleanup ==
  /\ \E old \in SUBSET TxIds : CleanupOldTransactions(old)
  /\ UNCHANGED <<stage, started, begun>>

Next ==
  \/ \E id \in TxIds : Begin(id)
  \/ \E f \in Files, type \in OpTypes : Add(type, f) \/ AddFails(type, f)
  \/ \E f \in Files : Touch(f) \/ TouchFails(f) \/ Complete(f)
  \/ Commit
  \/ Rollback
  \/ RollbackLoop
  \/ \E ok \in BOOLEAN : Return(ok)
  \/ Crash
  \/ Cleanup

Spec == Init /\ [][Next]_vars

-----------------------------------------------------------------------------
(* Properties *)

\* RollbackTransaction undoes the whole transaction: when its loop is over
\* and no restore reported an error, every file is what it was when the
\* transaction began, also a file that several operations named (which is
\* why the loop runs backwards) and one that did not exist.
RollbackRestores ==
  call = "rollback" /\ ~undoErr => disk = started

\* A file is touched only while the log on disk, as a reader would load it,
\* has an open operation for it, with a backup of what the file held if the
\* operation modifies it.
WriteAhead ==
  [][\A f \in Files :
       disk'[f] # disk[f] /\ call \notin {"undo"} =>
         /\ Loadable(tx.id)
         /\ \E i \in DOMAIN logs[tx.id].ops :
              LET op == logs[tx.id].ops[i]
              IN  /\ op.file = f /\ ~op.completed
                  /\ op.type = "modify" => backups[tx.id][i] = disk[f]]_vars

\* A log that says "committed" lists only operations that completed without
\* an error.
CommittedIsClean ==
  \A t \in TxIds :
    Loadable(t) /\ logs[t].status = "committed" =>
      \A i \in DOMAIN logs[t].ops : logs[t].ops[i].completed /\ ~logs[t].ops[i].err

\* CleanupOldTransactions never takes a backup that a pending log, on disk
\* or in memory, still points to.
PendingBackupsKept ==
  /\ \A t \in PendingTransactions : \A i \in DOMAIN logs[t].ops :
       logs[t].ops[i].backup => backups[t][i] # Absent
  /\ tx # NoTx => \A i \in DOMAIN tx.ops :
       tx.ops[i].backup => backups[tx.id][i] # Absent

\* What the logs and backups on disk say is consistent, whatever was called
\* in whatever order.
ClientInv == TypeOK /\ CommittedIsClean /\ PendingBackupsKept

\* Once a log records how its transaction ended, it never says otherwise: it
\* can only be deleted.
OutcomeIsFinal ==
  [][\A t \in TxIds :
       Loadable(t) /\ logs[t].status # "pending" => logs'[t] \in {logs[t], NoLog}]_vars

\* "ListPendingTransactions returns all pending transactions"
\* (core/transaction.go:281): after a crash, every transaction that was
\* begun and not ended is among them.
AllPendingListed ==
  tx = NoTx => begun \subseteq PendingTransactions
=============================================================================
