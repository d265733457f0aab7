--------------------------- MODULE TransformFiles ---------------------------
(***************************************************************************)
(* FileProcessor.TransformFiles of core/fileprocessor.go: one              *)
(* transformation applied to every file a walk found, a goroutine per file *)
(* behind a semaphore, under one transaction that is committed if every    *)
(* file went well and rolled back otherwise.                               *)
(*                                                                         *)
(* main is where the calling goroutine is, pc[f] where the goroutine of    *)
(* file f is (transformFile).  What the providers compute is abstracted to *)
(* its outcome: an error, no change, or any other content.  WriteFile of   *)
(* the atomic writer is one step with the outcomes AtomicWriter.tla gives  *)
(* it when nobody else holds the lock of the path.                         *)
(***************************************************************************)
EXTENDS TransactionManager, FiniteSets

CONSTANTS
  Workers,   \* capacity of the semaphore (fp.workers)
  Tx,        \* the id of the transaction of this call
  Options    \* the option records this instance is checked with

OptionRecords == [safe: BOOLEAN, dryRun: BOOLEAN, backup: BOOLEAN]

ASSUME TransformAssumptions ==
  /\ Workers \in Nat \ {0}
  /\ Tx \in TxIds
  /\ Options \subseteq OptionRecords

VARIABLES
  opt,       \* safetyEnabled, op.DryRun, op.Backup
  main,      \* program counter of TransformFiles
  found,     \* the files the walk returned
  walkErr,   \* len(walkErrors) > 0 after the walk
  pc,        \* program counter of each file's goroutine
  seen,      \* originalContent: what transformFile read
  plan,      \* result.Modified: what it means to write
  modified,  \* detail.Modified
  failed,    \* detail.Error # ""
  bak,       \* the <file>.bak of a backup without transaction
  outcome,   \* how the call returned
  orig,      \* history: the files when the call started
  edited     \* history: the files somebody else has written since

runVars == <<opt, found, walkErr, orig>>
vars == <<tmVars, main, pc, seen, plan, modified, failed, bak, outcome,
          edited, runVars>>

\* Waiting for the semaphore, holding it, and done with it.
Holding  == {"read", "register", "adding", "write", "complete", "completing"}
FilePCs  == Holding \union {"none", "queued", "done"}
MainPCs  == {"start", "begin", "walk", "files", "commit", "rollback", "unwind",
             "returned", "crashed"}
Outcomes == {"none", "committed", "rolled_back", "plain", "error"}

TypeOK ==
  /\ TMTypeOK
  /\ opt \in OptionRecords
  /\ main \in MainPCs
  /\ found \subseteq Files
  /\ walkErr \in BOOLEAN
  /\ pc \in [Files -> FilePCs]
  /\ seen \in [Files -> FileData]
  /\ plan \in [Files -> FileData]
  /\ modified \in [Files -> BOOLEAN]
  /\ failed \in [Files -> BOOLEAN]
  /\ bak \in [Files -> FileData]
  /\ outcome \in Outcomes
  /\ orig \in [Files -> FileData]
  /\ edited \subseteq Files

Init ==
  /\ TMInit
  /\ opt \in Options
  /\ main = "start"
  /\ found = {}
  /\ walkErr = FALSE
  /\ pc = [f \in Files |-> "none"]
  /\ seen = [f \in Files |-> Absent]
  /\ plan = [f \in Files |-> Absent]
  /\ modified = [f \in Files |-> FALSE]
  /\ failed = [f \in Files |-> FALSE]
  /\ bak = [f \in Files |-> Absent]
  /\ outcome = "none"
  /\ orig = disk
  /\ edited = {}

\* fp.safetyEnabled && !op.DryRun: the call runs under a transaction.
Transactional == opt.safe /\ ~opt.dryRun

Goto(f, label) == pc' = [pc EXCEPT ![f] = label]

\* transformFile returns with detail.Error set, or without.
FailFile(f) == Goto(f, "done") /\ failed' = [failed EXCEPT ![f] = TRUE]
DoneFile(f) == Goto(f, "done") /\ UNCHANGED failed

-----------------------------------------------------------------------------
(* transformFile *)

fileUnchanged == UNCHANGED <<main, outcome, edited, runVars>>

\* Mutant: a goroutine that is done keeps its place in the semaphore.
AcquireNoRelease(f) ==
  /\ main = "files"
  /\ pc[f] = "queued"
  /\ Cardinality({g \in Files : pc[g] \in Holding \union {"done"}}) < Workers
  /\ Goto(f, "read")
  /\ UNCHANGED <<tmVars, seen, plan, modified, failed, bak>> /\ fileUnchanged

\* semaphore <- struct{}{}
Acquire(f) ==
  /\ main = "files"
  /\ pc[f] = "queued"
  /\ Cardinality({g \in Files : pc[g] \in Holding}) < Workers
  /\ Goto(f, "read")
  /\ UNCHANGED <<tmVars, seen, plan, modified, failed, bak>> /\ fileUnchanged

\* Look up the provider, read the file, transform, check the confidence.
ReadFails(f) ==
  /\ "read" \in Faults \/ disk[f] = Absent
  /\ main = "files"
  /\ pc[f] = "read"
  /\ FailFile(f)
  /\ UNCHANGED <<tmVars, seen, plan, modified, bak>> /\ fileUnchanged

ReadNoChange(f) ==
  /\ main = "files"
  /\ pc[f] = "read"
  /\ disk[f] # Absent
  /\ seen' = [seen EXCEPT ![f] = disk[f]]
  /\ DoneFile(f)
  /\ UNCHANGED <<tmVars, plan, modified, bak>> /\ fileUnchanged

ReadChange(f) ==
  /\ main = "files"
  /\ pc[f] = "read"
  /\ disk[f] # Absent
  /\ \E c \in Contents \ {disk[f]} : plan' = [plan EXCEPT ![f] = c]
  /\ seen' = [seen EXCEPT ![f] = disk[f]]
  /\ modified' = [modified EXCEPT ![f] = TRUE]
  /\ Goto(f, "register")
  /\ UNCHANGED <<tmVars, failed, bak>> /\ fileUnchanged

\* Register the operation in the transaction ...
Register(f) ==
  /\ main = "files"
  /\ pc[f] = "register"
  /\ Transactional
  /\ AddOperation("modify", f)
  /\ Goto(f, "adding")
  /\ UNCHANGED <<seen, plan, modified, failed, bak>> /\ fileUnchanged

RegisterFails(f) ==
  /\ main = "files"
  /\ pc[f] = "register"
  /\ Transactional
  /\ AddOperationFails("modify", f)
  /\ FailFile(f)
  /\ UNCHANGED <<seen, plan, modified, bak>> /\ fileUnchanged

Registered(f, ok) ==
  /\ main = "files"
  /\ pc[f] = "adding"
  /\ EndCall(ok)
  /\ IF ok THEN Goto(f, "write") /\ UNCHANGED failed ELSE FailFile(f)
  /\ UNCHANGED <<seen, plan, modified, bak>> /\ fileUnchanged

\* Mutant: a dry run goes on to the write.
BackupDryWrites(f) ==
  /\ main = "files"
  /\ pc[f] = "register"
  /\ ~Transactional
  /\ opt.backup => disk[f] # Absent
  /\ bak' = IF opt.backup THEN [bak EXCEPT ![f] = disk[f]] ELSE bak
  /\ Goto(f, "write")
  /\ UNCHANGED <<tmVars, seen, plan, modified, failed>> /\ fileUnchanged

\* ... or, without a transaction, copy the file to <file>.bak if asked to.
\* A dry run ends here, and copies too.
Backup(f) ==
  /\ main = "files"
  /\ pc[f] = "register"
  /\ ~Transactional
  /\ opt.backup => disk[f] # Absent
  /\ bak' = IF opt.backup THEN [bak EXCEPT ![f] = disk[f]] ELSE bak
  /\ Goto(f, IF opt.dryRun THEN "done" ELSE "write")
  /\ UNCHANGED <<tmVars, seen, plan, modified, failed>> /\ fileUnchanged

BackupFails(f) ==
  /\ main = "files"
  /\ pc[f] = "register"
  /\ ~Transactional
  /\ opt.backup
  /\ "backup" \in Faults \/ disk[f] = Absent
  /\ FailFile(f)
  /\ UNCHANGED <<tmVars, seen, plan, modified, bak>> /\ fileUnchanged

\* The write.  With a transaction its outcome goes to CompleteOperation.
Write(f) ==
  /\ main = "files"
  /\ pc[f] = "write"
  /\ disk' = [disk EXCEPT ![f] = plan[f]]
  /\ IF Transactional THEN Goto(f, "complete") /\ UNCHANGED failed ELSE DoneFile(f)
  /\ UNCHANGED <<backups, logs, tx, call, undo, undoErr>>
  /\ UNCHANGED <<seen, plan, modified, bak>> /\ fileUnchanged

\* A failed atomic write leaves the file alone, except when what failed is
\* the release of the lock, after the rename.  A failed plain write may
\* leave any part of the content, or all of it (the chmod failed).
LeftByFailure(f) ==
  IF opt.safe
  THEN {disk[f] : x \in Faults \cap {"write"}} \union
       {plan[f] : x \in Faults \cap {"release"}}
  ELSE {y \in {disk[f], Partial, plan[f]} : "write" \in Faults}

WriteFails(f) ==
  /\ main = "files"
  /\ pc[f] = "write"
  /\ \E c \in LeftByFailure(f) : disk' = [disk EXCEPT ![f] = c]
  /\ failed' = [failed EXCEPT ![f] = TRUE]
  /\ Goto(f, IF Transactional THEN "complete" ELSE "done")
  /\ UNCHANGED <<backups, logs, tx, call, undo, undoErr>>
  /\ UNCHANGED <<seen, plan, modified, bak>> /\ fileUnchanged

Complete(f) ==
  /\ main = "files"
  /\ pc[f] = "complete"
  /\ CompleteOperation(f, failed[f])
  /\ Goto(f, "completing")
  /\ UNCHANGED <<seen, plan, modified, failed, bak>> /\ fileUnchanged

Completed(f, ok) ==
  /\ main = "files"
  /\ pc[f] = "completing"
  /\ EndCall(ok)
  /\ IF ok THEN DoneFile(f) ELSE FailFile(f)
  /\ UNCHANGED <<seen, plan, modified, bak>> /\ fileUnchanged

FileStep(f) ==
  \/ Acquire(f)
  \/ ReadFails(f) \/ ReadNoChange(f) \/ ReadChange(f)
  \/ Register(f) \/ RegisterFails(f) \/ \E ok \in BOOLEAN : Registered(f, ok)
  \/ Backup(f) \/ BackupFails(f)
  \/ Write(f) \/ WriteFails(f)
  \/ Complete(f) \/ \E ok \in BOOLEAN : Completed(f, ok)

-----------------------------------------------------------------------------
(* TransformFiles *)

mainUnchanged == UNCHANGED <<seen, plan, modified, failed, bak, edited, opt, orig>>

Return(o) == main' = "returned" /\ outcome' = o

\* if fp.safetyEnabled && !op.DryRun { BeginTransaction }
Start ==
  /\ main = "start"
  /\ IF Transactional
     THEN BeginTransaction(Tx) /\ main' = "begin"
     ELSE UNCHANGED tmVars /\ main' = "walk"
  /\ UNCHANGED <<pc, outcome, found, walkErr>> /\ mainUnchanged

Begun(ok) ==
  /\ main = "begin"
  /\ EndCall(ok)
  /\ IF ok THEN main' = "walk" /\ UNCHANGED outcome ELSE Return("error")
  /\ UNCHANGED <<pc, found, walkErr>> /\ mainUnchanged

\* Walk and ValidateBatch; then one goroutine per file.
Walk ==
  /\ main = "walk"
  /\ found' \in SUBSET Files
  /\ walkErr' \in {FALSE} \union {TRUE : x \in Faults \cap {"walk"}}
  /\ pc' = [f \in Files |-> IF f \in found' THEN "queued" ELSE "none"]
  /\ main' = "files"
  /\ UNCHANGED <<tmVars, outcome>> /\ mainUnchanged

\* Either of them returned an error: the deferred rollback runs.
WalkFails ==
  /\ "walk" \in Faults
  /\ main = "walk"
  /\ IF Transactional
     THEN RollbackTransaction /\ main' = "unwind" /\ UNCHANGED outcome
     ELSE UNCHANGED tmVars /\ Return("error")
  /\ UNCHANGED <<pc, found, walkErr>> /\ mainUnchanged

\* Mutant: the files' errors are not looked at.
HasWalkErrors == walkErr

AllDone   == \A f \in found : pc[f] = "done"
HasErrors == walkErr \/ \E f \in found : failed[f]

\* All results are in: roll back, commit, or nothing to settle.
SettleRollback ==
  /\ main = "files"
  /\ AllDone /\ Transactional /\ HasErrors
  /\ RollbackTransaction
  /\ main' = "rollback"
  /\ UNCHANGED <<pc, outcome, found, walkErr>> /\ mainUnchanged

\* CommitTransaction refuses if some operation is open or failed; then it is
\* an error and the deferred rollback that settle the call.
SettleCommit ==
  /\ main = "files"
  /\ AllDone /\ Transactional /\ ~HasErrors
  /\ IF Committable
     THEN CommitTransaction /\ main' = "commit"
     ELSE RollbackTransaction /\ main' = "unwind"
  /\ UNCHANGED <<pc, outcome, found, walkErr>> /\ mainUnchanged

SettlePlain ==
  /\ main = "files"
  /\ AllDone /\ ~Transactional
  /\ UNCHANGED tmVars
  /\ Return("plain")
  /\ UNCHANGED <<pc, found, walkErr>> /\ mainUnchanged

RollbackLoop ==
  /\ main \in {"rollback", "unwind"}
  /\ UndoOperation \/ UndoFinished
  /\ UNCHANGED <<main, pc, outcome, found, walkErr>> /\ mainUnchanged

\* The commit or the rollback returns.  A rollback that reported no error
\* makes TransformFiles return a result and a nil error.
Settled(ok) ==
  /\ main \in {"commit", "rollback", "unwind"}
  /\ EndCall(ok)
  /\ Return(CASE main = "commit" /\ ok                    -> "committed"
              [] main = "rollback" /\ CallSucceeds(ok)    -> "rolled_back"
              [] OTHER                                    -> "error")
  /\ UNCHANGED <<pc, found, walkErr>> /\ mainUnchanged

MainStep ==
  \/ Start \/ Walk \/ WalkFails
  \/ SettleRollback \/ SettleCommit \/ SettlePlain
  \/ RollbackLoop
  \/ \E ok \in BOOLEAN : Begun(ok) \/ Settled(ok)

-----------------------------------------------------------------------------
(* The environment *)

Running == main \notin {"returned", "crashed"}

\* An editor, a build, another morfx process writes or deletes a file; once
\* per file.
Edit(f) ==
  /\ "edit" \in Faults
  /\ Running
  /\ f \notin edited
  /\ \E c \in (Contents \union {Absent}) \ {disk[f]} : disk' = [disk EXCEPT ![f] = c]
  /\ edited' = edited \union {f}
  /\ UNCHANGED <<backups, logs, tx, call, undo, undoErr, main, pc, seen, plan,
                 modified, failed, bak, outcome, runVars>>

\* The process dies.  A plain write under way may leave part of its content.
Crash ==
  /\ TMCrash
  /\ Running
  /\ main' = "crashed"
  /\ disk' \in {d \in [Files -> FileData] : \A f \in Files :
                  d[f] \in {disk[f]} \union
                           {Partial : x \in {pc[f]} \cap (IF opt.safe THEN {} ELSE {"write"})}}
  /\ UNCHANGED <<pc, seen, plan, modified, failed, bak, outcome, edited, runVars>>

\* Nothing is left to do; keeps TLC's deadlock check for the other states.
Terminated == ~Running /\ UNCHANGED vars

Program == MainStep \/ \E f \in Files : FileStep(f)

Next == Program \/ (\E f \in Files : Edit(f)) \/ Crash \/ Terminated

Spec == Init /\ [][Next]_vars

\* The Go scheduler keeps running some goroutine that can run.
FairSpec == Spec /\ WF_vars(Program)

-----------------------------------------------------------------------------
(* Properties *)

\* All or nothing, for every file nobody else wrote during the call: a call
\* that committed left each with the content it planned, or alone if it
\* planned none; one that rolled back without an error left each as it was,
\* however far the other goroutines had got.  An outside edit spoils this for
\* the edited file only.
AllOrNothing ==
  \A f \in Files \ edited :
    /\ outcome = "committed" => disk[f] = IF modified[f] THEN plan[f] ELSE orig[f]
    /\ outcome = "rolled_back" => disk[f] = orig[f]

\* The check of CommitTransaction never fails here: if no goroutine reported
\* an error then every operation was completed without one.  (Otherwise the
\* call would return an error for a transform that went well.)
CommitNeverRefused ==
  main = "files" /\ AllDone /\ Transactional /\ ~HasErrors => Committable

\* After a crash, whatever the goroutines were doing, each file holds its old
\* content or the planned one, and a log that loads and is not committed
\* names every changed file and a backup with its old content.
CrashRecoverable ==
  main = "crashed" /\ Transactional =>
    \A f \in Files \ edited : disk[f] # orig[f] =>
      /\ disk[f] = plan[f]
      /\ Loadable(Tx) /\ logs[Tx].status # "committed" =>
           \E i \in DOMAIN logs[Tx].ops :
             /\ logs[Tx].ops[i].file = f /\ logs[Tx].ops[i].backup
             /\ backups[Tx][i] = orig[f]

\* Without a transaction, a requested backup holds the old content of every
\* file that was changed, also half changed; and a dry run changes none.
PlainBackupFirst ==
  ~Transactional =>
    \A f \in Files \ edited : disk[f] # orig[f] =>
      ~opt.dryRun /\ (opt.backup => bak[f] = orig[f])

\* The call returns unless the process dies: no goroutine waits forever for
\* the semaphore or tm.mu.
Returns == <>~Running

\* The atomic batch this implements: to the caller the files change when the
\* call returns (or the process dies), not before.
BatchStore  == IF Running THEN orig ELSE disk
BatchIntent == [f \in Files |-> IF modified[f] THEN {plan[f]} ELSE {}]
BatchPhase  == IF main = "crashed" THEN "crashed"
               ELSE IF outcome = "none" THEN "open" ELSE outcome

Batch == INSTANCE AtomicBatch
           WITH store <- BatchStore, intent <- BatchIntent, phase <- BatchPhase

ImplementsBatch == Batch!Spec

\* "Files actually changed" (core/types.go:116): a file the result reports as
\* modified holds its planned content when the call returns without an error.
ReportedFilesChanged ==
  outcome \in {"committed", "rolled_back"} =>
    \A f \in Files \ edited : modified[f] => disk[f] = plan[f]

\* "If the modify operation itself failed, the original file remains in
\* place" (core/transaction.go:225), the reason rollbackOperation gives for
\* skipping such an operation.
FailedModifyLeavesOriginal ==
  call = "undo" =>
    \A i \in DOMAIN tx.ops :
      tx.ops[i].completed /\ tx.ops[i].err /\ tx.ops[i].file \notin edited =>
        disk[tx.ops[i].file] = orig[tx.ops[i].file]
=============================================================================
