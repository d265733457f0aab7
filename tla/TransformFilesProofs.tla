------------------------ MODULE TransformFilesProofs ------------------------
(***************************************************************************)
(* TransformFiles is all or nothing, for any number of files, workers and  *)
(* contents, as long as no lock release fails: IInv is inductive.  Without *)
(* a transaction it still makes every backup before its write.  At every   *)
(* moment of a call a crash leaves what a recovery needs, and              *)
(* TransformFiles implements AtomicBatch: both rest on IInv and on         *)
(* CrashInv, which is inductive relative to it.                            *)
(***************************************************************************)
EXTENDS TransformFilesInv, TransactionManagerProofs

\* The variables of the run have their types and the manager its invariant.
Typed == TypeOK /\ TMInv

LEMMA InitTyped ==
  ASSUME Init
  PROVE  Typed
  <1>1. TMInv
    BY TMInitInv DEF Init
  <1>2. orig \in [Files -> FileData] /\ disk \in [Files -> FileData]
    BY <1>1 DEF Init, TMInv, TMTypeOK
  <1>3. opt \in OptionRecords
    BY TransformAssumptions DEF Init
  <1>4. /\ pc \in [Files -> FilePCs]
        /\ seen \in [Files -> FileData] /\ plan \in [Files -> FileData]
        /\ bak \in [Files -> FileData]
    BY DEF Init, FilePCs, FileData
  <1>5. modified \in [Files -> BOOLEAN] /\ failed \in [Files -> BOOLEAN] /\ walkErr \in BOOLEAN
    BY Zenon DEF Init
  <1>6. main \in MainPCs /\ found \subseteq Files /\ outcome \in Outcomes /\ edited \subseteq Files
    BY DEF Init, MainPCs, Outcomes
  <1> QED
    BY <1>1, <1>2, <1>3, <1>4, <1>5, <1>6 DEF Typed, TypeOK, TMInv

\* What the goroutine of file f does to its own variables is well typed, and
\* the manager's methods keep the manager's invariant.
LEMMA FileStepTyped ==
  ASSUME Typed, NEW f \in Files, FileStep(f)
  PROVE  Typed'
  <1> USE DEF Typed, TypeOK, Goto, FailFile, DoneFile, FilePCs, Holding
  <1>1. CASE Acquire(f)
    BY <1>1 DEF Acquire, fileUnchanged, tmVars, runVars, TMInv, TMTypeOK
  <1>2. CASE ReadFails(f)
    BY <1>2 DEF ReadFails, fileUnchanged, tmVars, runVars, TMInv, TMTypeOK
  <1>3. CASE ReadNoChange(f)
    BY <1>3 DEF ReadNoChange, fileUnchanged, tmVars, runVars, TMInv, TMTypeOK
  <1>4. CASE ReadChange(f)
    BY <1>4 DEF ReadChange, fileUnchanged, tmVars, runVars, TMInv, TMTypeOK, FileData
  <1>5. CASE Register(f)
    <2>1. TMInv'
      BY <1>5, AddInv DEF Register, OpTypes
    <2> QED
      BY <1>5, <2>1 DEF Register, fileUnchanged, runVars, TMInv
  <1>6. CASE RegisterFails(f)
    BY <1>6 DEF RegisterFails, AddOperationFails, fileUnchanged, tmVars, runVars, TMInv, TMTypeOK
  <1>7. ASSUME NEW ok \in BOOLEAN, Registered(f, ok)
        PROVE  Typed'
    <2>1. TMInv'
      BY <1>7, EndCallInv DEF Registered
    <2> QED
      BY <1>7, <2>1 DEF Registered, fileUnchanged, runVars, TMInv
  <1>8. CASE Backup(f)
    BY <1>8 DEF Backup, fileUnchanged, tmVars, runVars, TMInv, TMTypeOK
  <1>9. CASE BackupFails(f)
    BY <1>9 DEF BackupFails, fileUnchanged, tmVars, runVars, TMInv, TMTypeOK
  <1>10. CASE Write(f)
    BY <1>10 DEF Write, fileUnchanged, runVars, TMInv, TMTypeOK
  <1>11. CASE WriteFails(f)
    <2>1. PICK c \in LeftByFailure(f) : disk' = [disk EXCEPT ![f] = c]
      BY <1>11 DEF WriteFails
    <2>2. c \in FileData
      BY DEF LeftByFailure, TMInv, TMTypeOK, FileData
    <2> QED
      BY <1>11, <2>1, <2>2 DEF WriteFails, fileUnchanged, runVars, TMInv, TMTypeOK
  <1>12. CASE Complete(f)
    <2>1. TMInv'
      BY <1>12, CompleteInv DEF Complete
    <2> QED
      BY <1>12, <2>1 DEF Complete, fileUnchanged, runVars, TMInv
  <1>13. ASSUME NEW ok \in BOOLEAN, Completed(f, ok)
         PROVE  Typed'
    <2>1. TMInv'
      BY <1>13, EndCallInv DEF Completed
    <2> QED
      BY <1>13, <2>1 DEF Completed, fileUnchanged, runVars, TMInv
  <1> QED
    BY <1>1, <1>2, <1>3, <1>4, <1>5, <1>6, <1>7, <1>8, <1>9, <1>10, <1>11, <1>12, <1>13
       DEF FileStep

\* A step of the calling goroutine.
LEMMA MainStepTyped ==
  ASSUME Typed, MainStep
  PROVE  Typed'
  <1> USE DEF Typed, TypeOK, mainUnchanged, Return, MainPCs, Outcomes
  <1>1. CASE Start
    <2>1. TMInv'
      BY <1>1, BeginInv, TransformAssumptions DEF Start, tmVars, TMInv, TMTypeOK
    <2> QED
      BY <1>1, <2>1 DEF Start, TMInv
  <1>2. CASE Walk
    <2>1. pc' \in [Files -> FilePCs]
      BY <1>2 DEF Walk, FilePCs, Holding
    <2>2. walkErr' \in BOOLEAN
      BY <1>2 DEF Walk
    <2> QED
      BY <1>2, <2>1, <2>2 DEF Walk, tmVars, TMInv, TMTypeOK
  <1>3. CASE WalkFails
    <2>1. TMInv'
      BY <1>3, RollbackInv DEF WalkFails, tmVars, TMInv, TMTypeOK
    <2> QED
      BY <1>3, <2>1 DEF WalkFails, TMInv
  <1>4. CASE SettleRollback
    <2>1. TMInv'
      BY <1>4, RollbackInv DEF SettleRollback
    <2> QED
      BY <1>4, <2>1 DEF SettleRollback, TMInv
  <1>5. CASE SettleCommit
    <2>1. TMInv'
      BY <1>5, RollbackInv, CommitInv DEF SettleCommit
    <2> QED
      BY <1>5, <2>1 DEF SettleCommit, TMInv
  <1>6. CASE SettlePlain
    BY <1>6 DEF SettlePlain, tmVars, TMInv, TMTypeOK
  <1>7. CASE RollbackLoop
    <2>1. TMInv'
      BY <1>7, UndoInv, UndoFinishedInv DEF RollbackLoop
    <2> QED
      BY <1>7, <2>1 DEF RollbackLoop, TMInv
  <1>8. ASSUME NEW ok \in BOOLEAN, Begun(ok)
        PROVE  Typed'
    <2>1. TMInv'
      BY <1>8, EndCallInv DEF Begun
    <2> QED
      BY <1>8, <2>1 DEF Begun, TMInv
  <1>9. ASSUME NEW ok \in BOOLEAN, Settled(ok)
        PROVE  Typed'
    <2>1. TMInv'
      BY <1>9, EndCallInv DEF Settled
    <2> QED
      BY <1>9, <2>1 DEF Settled, TMInv
  <1> QED
    BY <1>1, <1>2, <1>3, <1>4, <1>5, <1>6, <1>7, <1>8, <1>9 DEF MainStep

\* A step of the environment, or none.
LEMMA OtherStepTyped ==
  ASSUME Typed,
         (\E f \in Files : Edit(f)) \/ Crash \/ Terminated \/ UNCHANGED vars
  PROVE  Typed'
  <1> USE DEF Typed, TypeOK
  <1>1. ASSUME NEW f \in Files, Edit(f)
        PROVE  Typed'
    BY <1>1 DEF Edit, runVars, TMInv, TMTypeOK, FileData
  <1>2. CASE Crash
    <2>1. /\ disk' \in [Files -> FileData] /\ tx' = NoTx /\ call' = "idle"
          /\ undo' = 0 /\ backups' = backups
      BY <1>2 DEF Crash, TMCrash
    <2>2. undoErr' \in BOOLEAN
      BY <1>2, Zenon DEF Crash, TMCrash
    <2>3. logs' \in [TxIds -> Transaction \union {NoLog, Torn}]
      BY <1>2 DEF Crash, TMCrash, TMInv, TMTypeOK
    <2>4. TMInv'
      BY <2>1, <2>2, <2>3, MaxOpsType DEF TMInv, TMTypeOK, Calls
    <2> QED
      BY <1>2, <2>4 DEF Crash, runVars, MainPCs, TMInv
  <1>3. CASE Terminated \/ UNCHANGED vars
    BY <1>3 DEF Terminated, vars, tmVars, runVars, TMInv, TMTypeOK
  <1> QED
    BY <1>1, <1>2, <1>3

LEMMA StepTyped ==
  ASSUME Typed, [Next]_vars
  PROVE  Typed'
  BY FileStepTyped, MainStepTyped, OtherStepTyped DEF Next, Program

\* The variables keep their types, whatever fails.
THEOREM TypeCorrect == Spec => []TypeOK
  <1>1. Init => Typed
    BY InitTyped
  <1>2. Typed /\ [Next]_vars => Typed'
    BY StepTyped
  <1>3. Typed => TypeOK
    BY DEF Typed
  <1> QED
    BY <1>1, <1>2, <1>3, PTL DEF Spec

-----------------------------------------------------------------------------
(* Control *)

\* The effect of the manager's methods on what ControlInv speaks of.
LEMMA AddControl ==
  ASSUME TMInv, NEW type \in OpTypes, NEW f \in Files, AddOperation(type, f)
  PROVE  call = "idle" /\ call' = "add" /\ tx # NoTx /\ tx' # NoTx /\ tx'.id = tx.id
  <1>1. tx' \in Transaction
    BY AddEffect
  <1> QED
    BY <1>1, NoTxType, AddEffect DEF AddOperation

LEMMA CompleteControl ==
  ASSUME TMInv, NEW f \in Files, NEW opErr \in BOOLEAN, CompleteOperation(f, opErr)
  PROVE  call = "idle" /\ call' = "complete" /\ tx # NoTx /\ tx' # NoTx /\ tx'.id = tx.id
  <1>1. tx' \in Transaction
    BY CompleteEffect
  <1> QED
    BY <1>1, NoTxType, CompleteEffect DEF CompleteOperation

LEMMA FileStepControl ==
  ASSUME Typed, ControlInv, NEW f \in Files, FileStep(f)
  PROVE  ControlInv'
  <1>1. main = "files" /\ main' = main /\ outcome' = outcome /\ opt' = opt
    BY DEF FileStep, Acquire, ReadFails, ReadNoChange, ReadChange, Register, RegisterFails,
       Registered, Backup, BackupFails, Write, WriteFails, Complete, Completed,
       fileUnchanged, runVars
  <1>2. Transactional' = Transactional
    BY <1>1 DEF Transactional
  <1>3. CASE UNCHANGED <<tx, call>>
    BY <1>1, <1>2, <1>3 DEF ControlInv
  <1>4. CASE Register(f)
    <2>1. call = "idle" /\ call' = "add" /\ tx # NoTx /\ tx' # NoTx /\ tx'.id = tx.id
      BY <1>4, AddControl DEF Register, OpTypes, Typed
    <2> QED
      BY <1>1, <1>2, <2>1 DEF ControlInv
  <1>5. CASE Complete(f)
    <2>1. failed[f] \in BOOLEAN
      BY DEF Typed, TypeOK
    <2>2. call = "idle" /\ call' = "complete" /\ tx # NoTx /\ tx' # NoTx /\ tx'.id = tx.id
      BY <1>5, <2>1, CompleteControl DEF Complete, Typed
    <2> QED
      BY <1>1, <1>2, <2>2 DEF ControlInv
  <1>6. ASSUME NEW ok \in BOOLEAN, EndCall(ok)
        PROVE  ControlInv'
    <2>1. call' = "idle" /\ tx' = TxAfterCall(ok)
      BY <1>6, EndCallInv DEF Typed
    <2>2. tx' = tx
      BY <1>1, <2>1 DEF TxAfterCall, ControlInv
    <2> QED
      BY <1>1, <1>2, <2>1, <2>2 DEF ControlInv
  <1> QED
    BY <1>3, <1>4, <1>5, <1>6
       DEF FileStep, Acquire, ReadFails, ReadNoChange, ReadChange, RegisterFails,
       AddOperationFails, Registered, Backup, BackupFails, Write, WriteFails, Completed,
       tmVars

LEMMA MainStepControl ==
  ASSUME Typed, ControlInv, MainStep
  PROVE  ControlInv'
  <1>1. opt' = opt
    BY DEF MainStep, Start, Walk, WalkFails, SettleRollback, SettleCommit, SettlePlain,
       RollbackLoop, Begun, Settled, mainUnchanged
  <1>2. Transactional' = Transactional
    BY <1>1 DEF Transactional
  <1>3. CASE Start
    <2>1. CASE Transactional
      <3>1. /\ main' = "begin" /\ call' = "begin" /\ tx'.id = Tx /\ tx'.ops = <<>>
            /\ main = "start" /\ outcome' = outcome
        BY <1>3, <2>1 DEF Start, BeginTransaction
      <3>2. Transactional'
        BY <1>2, <2>1
      <3> QED
        BY <3>1, <3>2 DEF ControlInv
    <2>2. CASE ~Transactional
      BY <1>2, <1>3, <2>2 DEF ControlInv, Start, tmVars
    <2> QED
      BY <2>1, <2>2
  <1>4. CASE Walk
    BY <1>2, <1>4 DEF ControlInv, Walk, tmVars
  <1>5. CASE WalkFails
    BY <1>2, <1>5 DEF ControlInv, WalkFails, RollbackTransaction, Return, tmVars
  <1>6. CASE SettleRollback
    BY <1>2, <1>6 DEF ControlInv, SettleRollback, RollbackTransaction
  <1>7. CASE SettleCommit
    <2>1. CASE CommitTransaction /\ main' = "commit"
      <3>1. call' = "commit" /\ tx # NoTx /\ tx'.id = tx.id
        BY <2>1, CommitInv DEF CommitTransaction, Typed
      <3> QED
        BY <1>2, <1>7, <2>1, <3>1 DEF ControlInv, SettleCommit
    <2>2. CASE RollbackTransaction /\ main' = "unwind"
      BY <1>2, <1>7, <2>2 DEF ControlInv, SettleCommit, RollbackTransaction
    <2> QED
      BY <1>7, <2>1, <2>2 DEF SettleCommit
  <1>8. CASE SettlePlain
    BY <1>2, <1>8 DEF ControlInv, SettlePlain, Return, tmVars, Typed, TMInv
  <1>9. CASE RollbackLoop
    <2>1. CASE UndoOperation
      BY <1>2, <1>9, <2>1 DEF ControlInv, RollbackLoop, UndoOperation
    <2>2. CASE UndoFinished
      <3>1. call' = "rollback" /\ tx # NoTx /\ tx'.id = tx.id
        BY <2>2, UndoFinishedInv DEF UndoFinished, Typed
      <3> QED
        BY <1>2, <1>9, <2>2, <3>1 DEF ControlInv, RollbackLoop
    <2> QED
      BY <1>9, <2>1, <2>2 DEF RollbackLoop
  <1>10. ASSUME NEW ok \in BOOLEAN, Begun(ok)
         PROVE  ControlInv'
    <2>1. call' = "idle" /\ tx' = TxAfterCall(ok)
      BY <1>10, EndCallInv DEF Begun, Typed
    <2>2. CASE ok
      <3>1. main = "begin" /\ main' = "walk" /\ outcome' = outcome
        BY <1>10, <2>2 DEF Begun
      <3>2. call = "begin" /\ tx' = tx
        BY <2>1, <2>2, <3>1 DEF ControlInv, TxAfterCall
      <3>3. tx # NoTx
        BY <3>2 DEF Typed, TMInv
      <3> QED
        BY <1>2, <2>1, <3>1, <3>2, <3>3 DEF ControlInv
    <2>3. CASE ~ok
      <3>1. main = "begin" /\ main' = "returned" /\ outcome' = "error"
        BY <1>10, <2>3 DEF Begun, Return
      <3>2. tx' = NoTx
        BY <2>1, <2>3, <3>1 DEF ControlInv, TxAfterCall
      <3> QED
        BY <1>2, <2>1, <3>1, <3>2 DEF ControlInv
    <2> QED
      BY <2>2, <2>3
  <1>11. ASSUME NEW ok \in BOOLEAN, Settled(ok)
         PROVE  ControlInv'
    <2>1. call' = "idle" /\ tx' = TxAfterCall(ok)
      BY <1>11, EndCallInv DEF Settled, Typed
    <2>2. main' = "returned" /\ outcome' \in {"committed", "rolled_back", "error"}
      BY <1>11 DEF Settled, Return
    <2>3. tx' = NoTx
      BY <1>11, <2>1 DEF ControlInv, Settled, TxAfterCall, EndCall, LogWritten,
         LogWriteFails, LogWriters
    <2> QED
      BY <1>2, <2>1, <2>2, <2>3 DEF ControlInv
  <1> QED
    BY <1>3, <1>4, <1>5, <1>6, <1>7, <1>8, <1>9, <1>10, <1>11 DEF MainStep

LEMMA OtherStepControl ==
  ASSUME Typed, ControlInv,
         (\E f \in Files : Edit(f)) \/ Crash \/ Terminated \/ UNCHANGED vars
  PROVE  ControlInv'
  <1>1. CASE Crash
    BY <1>1 DEF Crash, TMCrash, ControlInv, runVars, Running
  <1>2. CASE UNCHANGED <<main, outcome, opt, tx, call>>
    BY <1>2 DEF ControlInv, Transactional
  <1> QED
    BY <1>1, <1>2 DEF Edit, Terminated, vars, tmVars, runVars

-----------------------------------------------------------------------------
(* Files *)

\* A step of the goroutine of f touches no other file's variables.
LEMMA OtherFiles ==
  ASSUME Typed, NEW f \in Files, FileStep(f)
  PROVE  /\ main = "files" /\ main' = main
         /\ UNCHANGED <<outcome, edited, opt, found, walkErr, orig>>
         /\ \A g \in Files \ {f} :
              /\ pc'[g] = pc[g] /\ plan'[g] = plan[g] /\ disk'[g] = disk[g]
              /\ modified'[g] = modified[g] /\ failed'[g] = failed[g]
  <1> USE DEF Goto, FailFile, DoneFile, fileUnchanged, runVars, tmVars, Typed, TypeOK,
          TMInv, TMTypeOK
  <1>1. CASE Acquire(f)
    BY <1>1 DEF Acquire
  <1>2. CASE ReadFails(f)
    BY <1>2 DEF ReadFails
  <1>3. CASE ReadNoChange(f)
    BY <1>3 DEF ReadNoChange
  <1>4. CASE ReadChange(f)
    BY <1>4 DEF ReadChange
  <1>5. CASE Register(f)
    BY <1>5 DEF Register, AddOperation
  <1>6. CASE RegisterFails(f)
    BY <1>6 DEF RegisterFails, AddOperationFails
  <1>7. ASSUME NEW ok \in BOOLEAN, Registered(f, ok)
        PROVE  /\ main = "files" /\ main' = main
               /\ UNCHANGED <<outcome, edited, opt, found, walkErr, orig>>
               /\ \A g \in Files \ {f} :
                    /\ pc'[g] = pc[g] /\ plan'[g] = plan[g] /\ disk'[g] = disk[g]
                    /\ modified'[g] = modified[g] /\ failed'[g] = failed[g]
    BY <1>7 DEF Registered, EndCall, LogWritten, LogWriteFails
  <1>8. CASE Backup(f)
    BY <1>8 DEF Backup
  <1>9. CASE BackupFails(f)
    BY <1>9 DEF BackupFails
  <1>10. CASE Write(f)
    BY <1>10 DEF Write
  <1>11. CASE WriteFails(f)
    BY <1>11 DEF WriteFails
  <1>12. CASE Complete(f)
    BY <1>12 DEF Complete, CompleteOperation
  <1>13. ASSUME NEW ok \in BOOLEAN, Completed(f, ok)
         PROVE  /\ main = "files" /\ main' = main
                /\ UNCHANGED <<outcome, edited, opt, found, walkErr, orig>>
                /\ \A g \in Files \ {f} :
                     /\ pc'[g] = pc[g] /\ plan'[g] = plan[g] /\ disk'[g] = disk[g]
                     /\ modified'[g] = modified[g] /\ failed'[g] = failed[g]
    BY <1>13 DEF Completed, EndCall, LogWritten, LogWriteFails
  <1> QED
    BY <1>1, <1>2, <1>3, <1>4, <1>5, <1>6, <1>7, <1>8, <1>9, <1>10, <1>11, <1>12, <1>13
       DEF FileStep

\* Where the goroutine of f goes, and who holds tm.mu before and after.
LEMMA OwnFile ==
  ASSUME Typed, ControlInv, FileInv, NEW f \in Files, FileStep(f)
  PROVE  /\ pc[f] # "none" /\ pc'[f] # "none"
         /\ pc'[f] \in {"none", "queued", "read"} => ~modified'[f] /\ ~failed'[f]
         /\ pc'[f] \in {"register", "adding", "write", "complete", "completing"} => modified'[f]
         /\ pc'[f] \in {"register", "adding", "write"} => ~failed'[f]
         /\ \/ /\ pc[f] \notin {"adding", "completing"}
               /\ pc'[f] \notin {"adding", "completing"} /\ call' = call
            \/ /\ pc[f] \notin {"adding", "completing"} /\ call = "idle"
               /\ \/ pc'[f] = "adding" /\ call' = "add"
                  \/ pc'[f] = "completing" /\ call' = "complete"
            \/ /\ pc[f] \in {"adding", "completing"}
               /\ pc'[f] \notin {"adding", "completing"} /\ call' = "idle"
  <1> USE DEF Goto, FailFile, DoneFile, tmVars, Typed, TypeOK
  <1> DEFINE Goal ==
        /\ pc[f] # "none" /\ pc'[f] # "none"
        /\ pc'[f] \in {"none", "queued", "read"} => ~modified'[f] /\ ~failed'[f]
        /\ pc'[f] \in {"register", "adding", "write", "complete", "completing"} => modified'[f]
        /\ pc'[f] \in {"register", "adding", "write"} => ~failed'[f]
        /\ \/ /\ pc[f] \notin {"adding", "completing"}
              /\ pc'[f] \notin {"adding", "completing"} /\ call' = call
           \/ /\ pc[f] \notin {"adding", "completing"} /\ call = "idle"
              /\ \/ pc'[f] = "adding" /\ call' = "add"
                 \/ pc'[f] = "completing" /\ call' = "complete"
           \/ /\ pc[f] \in {"adding", "completing"}
              /\ pc'[f] \notin {"adding", "completing"} /\ call' = "idle"
  <1>1. CASE Acquire(f)
    BY <1>1 DEF Acquire, FileInv
  <1>2. CASE ReadFails(f)
    BY <1>2 DEF ReadFails
  <1>3. CASE ReadNoChange(f)
    BY <1>3 DEF ReadNoChange
  <1>4. CASE ReadChange(f)
    BY <1>4 DEF ReadChange, FileInv
  <1>5. CASE Register(f)
    BY <1>5 DEF Register, AddOperation, FileInv
  <1>6. CASE RegisterFails(f)
    BY <1>6 DEF RegisterFails, AddOperationFails
  <1>7. ASSUME NEW ok \in BOOLEAN, Registered(f, ok)
        PROVE  Goal
    BY <1>7 DEF Registered, EndCall, LogWritten, LogWriteFails, FileInv
  <1>8. CASE Backup(f)
    BY <1>8 DEF Backup, FileInv
  <1>9. CASE BackupFails(f)
    BY <1>9 DEF BackupFails
  <1>10. CASE Write(f)
    BY <1>10 DEF Write, FileInv
  <1>11. CASE WriteFails(f)
    BY <1>11 DEF WriteFails, FileInv
  <1>12. CASE Complete(f)
    BY <1>12 DEF Complete, CompleteOperation, FileInv
  <1>13. ASSUME NEW ok \in BOOLEAN, Completed(f, ok)
         PROVE  Goal
    BY <1>13 DEF Completed, EndCall, LogWritten, LogWriteFails
  <1> QED
    BY <1>1, <1>2, <1>3, <1>4, <1>5, <1>6, <1>7, <1>8, <1>9, <1>10, <1>11, <1>12, <1>13
       DEF FileStep

LEMMA FileStepFiles ==
  ASSUME Typed, ControlInv, FileInv, NEW f \in Files, FileStep(f)
  PROVE  FileInv'
  <1>1. main = "files" /\ main' = main /\ found' = found
    BY OtherFiles
  <1>2. \A g \in Files : g \in found' <=> pc'[g] # "none"
    BY <1>1, OtherFiles, OwnFile DEF FileInv
  <1>3. \A g \in Files :
          /\ pc'[g] \in {"none", "queued", "read"} => ~modified'[g] /\ ~failed'[g]
          /\ pc'[g] \in {"register", "adding", "write", "complete", "completing"} => modified'[g]
          /\ pc'[g] \in {"register", "adding", "write"} => ~failed'[g]
    BY OtherFiles, OwnFile DEF FileInv
  <1>4. \A g \in Files :
          /\ pc'[g] = "adding" => call' = "add"
          /\ pc'[g] = "completing" => call' = "complete"
    BY <1>1, OtherFiles, OwnFile DEF FileInv
  <1>5. \A g, h \in Files :
          pc'[g] \in {"adding", "completing"} /\ pc'[h] \in {"adding", "completing"} => g = h
    BY <1>1, OtherFiles, OwnFile DEF FileInv
  <1> QED
    BY <1>1, <1>2, <1>3, <1>4, <1>5 DEF FileInv

LEMMA MainStepFiles ==
  ASSUME Typed, ControlInv, FileInv, MainStep
  PROVE  FileInv'
  <1> USE DEF mainUnchanged
  <1>1. UNCHANGED <<modified, failed>>
    BY DEF MainStep, Start, Walk, WalkFails, SettleRollback, SettleCommit, SettlePlain,
       RollbackLoop, Begun, Settled
  <1>2. CASE Walk
    BY <1>1, <1>2 DEF Walk, FileInv, Typed, TypeOK
  <1>3. CASE SettleRollback \/ SettleCommit
    <2>1. UNCHANGED <<pc, found>> /\ main = "files" /\ AllDone
          /\ main' \in {"rollback", "commit", "unwind"}
      BY <1>3 DEF SettleRollback, SettleCommit
    <2>2. \A f \in Files : pc[f] \in {"none", "done"}
      BY <2>1 DEF AllDone, FileInv
    <2> QED
      BY <1>1, <2>1, <2>2 DEF FileInv
  <1>4. CASE UNCHANGED <<pc, found>> /\ main' \in {"begin", "walk", "unwind", "returned"}
             /\ (main' \in {"begin", "walk"} => main \in {"start", "begin"})
    BY <1>1, <1>4 DEF FileInv
  <1>5. CASE UNCHANGED <<pc, found, main>> /\ main \in {"rollback", "unwind"}
    BY <1>1, <1>5 DEF FileInv
  <1> QED
    BY <1>2, <1>3, <1>4, <1>5
       DEF MainStep, Start, WalkFails, SettlePlain, RollbackLoop, Begun, Settled, Return

LEMMA OtherStepFiles ==
  ASSUME Typed, FileInv,
         (\E f \in Files : Edit(f)) \/ Crash \/ Terminated \/ UNCHANGED vars
  PROVE  FileInv'
  <1>1. UNCHANGED <<pc, found, modified, failed>>
    BY DEF Edit, Crash, Terminated, vars, runVars
  <1>2. main' = "crashed" \/ UNCHANGED <<main, call>>
    BY DEF Edit, Crash, Terminated, vars, tmVars
  <1> QED
    BY <1>1, <1>2 DEF FileInv

-----------------------------------------------------------------------------
(* Operations *)

\* What a step of the goroutine of f does, under a transaction and when no
\* release fails: to the transaction, the file, and the goroutine's place.
FileEffect(f) ==
  \/ /\ pc[f] \in {"queued", "read", "register"}
     /\ pc'[f] \in {"read", "register", "done"}
     /\ pc'[f] = "done" /\ modified'[f] => failed'[f]
     /\ UNCHANGED <<tx, backups, disk>>
  \/ /\ pc[f] = "register" /\ pc'[f] = "adding"
     /\ AddOperation("modify", f)
     /\ UNCHANGED <<disk, plan, modified, failed>>
  \/ /\ pc[f] = "adding"
     /\ pc'[f] = "write" \/ (pc'[f] = "done" /\ failed'[f])
     /\ UNCHANGED <<tx, backups, disk, plan, modified>>
  \/ /\ pc[f] = "write" /\ pc'[f] = "complete"
     /\ disk'[f] = IF failed'[f] THEN disk[f] ELSE plan[f]
     /\ UNCHANGED <<tx, backups, plan, modified>>
  \/ /\ pc[f] = "complete" /\ pc'[f] = "completing"
     /\ CompleteOperation(f, failed[f])
     /\ UNCHANGED <<backups, disk, plan, modified, failed>>
  \/ /\ pc[f] = "completing" /\ pc'[f] = "done"
     /\ failed'[f] \/ failed'[f] = failed[f]
     /\ UNCHANGED <<tx, backups, disk, plan, modified>>

\* A log write of a method called by a goroutine leaves the transaction.
LEMMA GoroutineEndCall ==
  ASSUME Typed, ControlInv, main = "files", NEW ok \in BOOLEAN, EndCall(ok)
  PROVE  UNCHANGED <<tx, backups, disk>>
  <1>1. tx' = TxAfterCall(ok)
    BY EndCallInv DEF Typed
  <1> QED
    BY <1>1 DEF TxAfterCall, ControlInv, EndCall, LogWritten, LogWriteFails

LEMMA FileStepEffect ==
  ASSUME "release" \notin Faults, Typed, ControlInv, FileInv, Transactional,
         NEW f \in Files, FileStep(f)
  PROVE  FileEffect(f)
  <1> USE DEF Goto, FailFile, DoneFile, tmVars, Typed, TypeOK, FileEffect
  <1>1. CASE Acquire(f)
    BY <1>1 DEF Acquire, FileInv
  <1>2. CASE ReadFails(f)
    BY <1>2 DEF ReadFails
  <1>3. CASE ReadNoChange(f)
    BY <1>3 DEF ReadNoChange, FileInv
  <1>4. CASE ReadChange(f)
    BY <1>4 DEF ReadChange
  <1>5. CASE Register(f)
    <2>1. UNCHANGED <<disk, plan, modified, failed>>
      BY <1>5 DEF Register, AddOperation
    <2> QED
      BY <1>5, <2>1 DEF Register
  <1>6. CASE RegisterFails(f)
    BY <1>6 DEF RegisterFails, AddOperationFails
  <1>7. ASSUME NEW ok \in BOOLEAN, Registered(f, ok)
        PROVE  FileEffect(f)
    <2>1. UNCHANGED <<tx, backups, disk>>
      BY <1>7, GoroutineEndCall DEF Registered
    <2> QED
      BY <1>7, <2>1 DEF Registered
  <1>8. CASE Backup(f) \/ BackupFails(f)
    BY <1>8 DEF Backup, BackupFails
  <1>9. CASE Write(f)
    <2>1. disk'[f] = plan[f] /\ ~failed'[f] /\ pc'[f] = "complete" /\ pc[f] = "write"
      BY <1>9 DEF Write, FileInv, TMInv, TMTypeOK
    <2>2. UNCHANGED <<tx, backups, plan, modified>>
      BY <1>9 DEF Write
    <2> QED
      BY <2>1, <2>2
  <1>10. CASE WriteFails(f)
    <2>1. disk'[f] = disk[f]
      BY <1>10 DEF WriteFails, LeftByFailure, Transactional, TMInv, TMTypeOK
    <2>2. failed'[f] /\ pc'[f] = "complete" /\ pc[f] = "write"
      BY <1>10 DEF WriteFails
    <2>3. UNCHANGED <<tx, backups, plan, modified>>
      BY <1>10 DEF WriteFails
    <2> QED
      BY <2>1, <2>2, <2>3
  <1>11. CASE Complete(f)
    <2>1. UNCHANGED <<backups, disk, plan, modified, failed>>
      BY <1>11 DEF Complete, CompleteOperation
    <2> QED
      BY <1>11, <2>1 DEF Complete
  <1>12. ASSUME NEW ok \in BOOLEAN, Completed(f, ok)
         PROVE  FileEffect(f)
    <2>1. UNCHANGED <<tx, backups, disk>>
      BY <1>12, GoroutineEndCall DEF Completed
    <2> QED
      BY <1>12, <2>1 DEF Completed
  <1> QED
    BY <1>1, <1>2, <1>3, <1>4, <1>5, <1>6, <1>7, <1>8, <1>9, <1>10, <1>11, <1>12
       DEF FileStep

\* AddOperation, as the goroutine of f sees it.
LEMMA RegisterEffect ==
  ASSUME Typed, tx # NoTx => tx.id = Tx, NEW f \in Files, AddOperation("modify", f)
  PROVE  /\ tx # NoTx /\ tx' # NoTx
         /\ Len(tx.ops) \in Nat /\ Len(tx'.ops) = Len(tx.ops) + 1
         /\ DOMAIN tx.ops = 1..Len(tx.ops)
         /\ DOMAIN tx'.ops = 1..(Len(tx.ops) + 1)
         /\ \A i \in DOMAIN tx.ops :
              tx'.ops[i] = tx.ops[i] /\ backups'[Tx][i] = backups[Tx][i]
         /\ tx'.ops[Len(tx.ops) + 1] = NewOperation("modify", f)
         /\ disk[f] # Absent => backups'[Tx][Len(tx.ops) + 1] = disk[f]
  <1>1. /\ tx # NoTx /\ tx' \in Transaction /\ Len(tx.ops) + 1 \in 1..MaxOps
        /\ tx'.ops = Append(tx.ops, NewOperation("modify", f))
        /\ Len(tx'.ops) = Len(tx.ops) + 1
    BY AddEffect DEF OpTypes, Typed
  <1>2. tx.ops \in Seq(Operation) /\ tx.id = Tx /\ tx.id \in TxIds
    BY <1>1, CurrentTx DEF Typed
  <1>3. NewOperation("modify", f) \in Operation
    BY NewOperationType DEF OpTypes
  <1>4. /\ DOMAIN tx'.ops = 1..(Len(tx.ops) + 1)
        /\ DOMAIN tx.ops = 1..Len(tx.ops)
        /\ \A i \in 1..Len(tx.ops) : tx'.ops[i] = tx.ops[i]
        /\ tx'.ops[Len(tx.ops) + 1] = NewOperation("modify", f)
    BY <1>1, <1>2, <1>3, AppendProperties
  <1>5. /\ backups[Tx] \in [1..MaxOps -> FileData]
        /\ backups \in [TxIds -> [1..MaxOps -> FileData]]
    BY <1>2 DEF Typed, TMInv, TMTypeOK
  <1>6. backups' = IF disk[f] # Absent
                   THEN [backups EXCEPT ![Tx][Len(tx.ops) + 1] = disk[f]] ELSE backups
    BY <1>2 DEF AddOperation, NewOperation
  <1>7. \A i \in DOMAIN tx.ops : backups'[Tx][i] = backups[Tx][i]
    BY <1>1, <1>2, <1>4, <1>5, <1>6, MaxOpsType
  <1>8. disk[f] # Absent => backups'[Tx][Len(tx.ops) + 1] = disk[f]
    BY <1>1, <1>2, <1>5, <1>6
  <1>9. Len(tx.ops) \in Nat
    BY <1>2
  <1> QED
    BY <1>1, <1>4, <1>7, <1>8, <1>9, NoTxType

\* CompleteOperation, as the goroutine of f sees it.
LEMMA CompletionEffect ==
  ASSUME Typed, NEW f \in Files, CompleteOperation(f, failed[f])
  PROVE  /\ tx # NoTx /\ tx' # NoTx
         /\ Len(tx'.ops) = Len(tx.ops)
         /\ DOMAIN tx'.ops = DOMAIN tx.ops
         /\ \E k \in DOMAIN tx.ops :
              /\ tx.ops[k].file = f /\ ~tx.ops[k].completed
              /\ tx'.ops[k].type = tx.ops[k].type /\ tx'.ops[k].file = f
              /\ tx'.ops[k].backup = tx.ops[k].backup
              /\ tx'.ops[k].completed /\ tx'.ops[k].err = failed[f]
              /\ \A i \in DOMAIN tx.ops : i # k => tx'.ops[i] = tx.ops[i]
  <1>1. failed[f] \in BOOLEAN
    BY DEF Typed, TypeOK
  <1>2. /\ tx # NoTx /\ tx' \in Transaction
        /\ Len(tx'.ops) = Len(tx.ops)
    BY <1>1, CompleteEffect DEF Typed
  <1>3. PICK k \in DOMAIN tx.ops :
          /\ tx.ops[k].file = f /\ ~tx.ops[k].completed
          /\ tx'.ops = [tx.ops EXCEPT ![k] = Closed(tx.ops[k], failed[f])]
          /\ Closed(tx.ops[k], failed[f]) \in Operation
    BY <1>1, CompleteEffect DEF Typed
  <1>4. tx.ops \in Seq(Operation) /\ tx.ops[k] \in Operation
    BY <1>2, <1>3, CurrentTx DEF Typed
  <1>5. /\ DOMAIN tx'.ops = DOMAIN tx.ops
        /\ tx'.ops[k] = Closed(tx.ops[k], failed[f])
        /\ \A i \in DOMAIN tx.ops : i # k => tx'.ops[i] = tx.ops[i]
    BY <1>3, <1>4, UpdateProperties
  <1>6. /\ tx'.ops[k].type = tx.ops[k].type /\ tx'.ops[k].file = f
        /\ tx'.ops[k].backup = tx.ops[k].backup
        /\ tx'.ops[k].completed /\ tx'.ops[k].err = failed[f]
    BY <1>3, <1>4, <1>5 DEF Closed, Operation
  <1> QED
    BY <1>2, <1>3, <1>5, <1>6, NoTxType

\* A goroutine step under a transaction keeps one agreeing operation per file.
LEMMA FileStepOps ==
  ASSUME Typed, ControlInv, FileInv, OpsInv, DiskInv, Transactional,
         NEW f \in Files, FileStep(f), FileEffect(f), tx # NoTx
  PROVE  OpsInv'
  <1>1. /\ main = "files" /\ UNCHANGED <<edited, orig>>
        /\ \A g \in Files \ {f} :
             pc'[g] = pc[g] /\ modified'[g] = modified[g] /\ failed'[g] = failed[g]
    BY OtherFiles
  <1>2. tx.id = Tx /\ \A i \in DOMAIN tx.ops : tx.ops[i].file \in Files
    BY CurrentTx DEF ControlInv, Typed, Operation
  <1>3. CASE tx' = tx /\ backups' = backups
    <2>1. ASSUME NEW i \in DOMAIN tx.ops
          PROVE  OpAgrees(tx.ops[i])'
      <3>1. OpAgrees(tx.ops[i])
        BY DEF OpsInv
      <3>2. CASE tx.ops[i].file # f
        BY <1>1, <1>2, <1>3, <3>1, <3>2 DEF OpAgrees
      <3>3. CASE tx.ops[i].file = f
        <4>1. pc[f] \in {"adding", "write", "completing"} /\ modified[f] /\ modified'[f] = modified[f]
          BY <1>3, <3>1, <3>3, CompletionEffect, RegisterEffect, <1>2
             DEF OpAgrees, FileEffect, FileInv
        <4> QED
          BY <1>3, <3>1, <3>3, <4>1 DEF OpAgrees, FileEffect, FileInv
      <3> QED
        BY <3>2, <3>3
    <2> QED
      BY <1>1, <1>3, <2>1 DEF OpsInv
  <1>4. CASE AddOperation("modify", f) /\ pc[f] = "register" /\ pc'[f] = "adding"
    <2> DEFINE n == Len(tx.ops) + 1
    <2>1. /\ Len(tx.ops) \in Nat /\ DOMAIN tx.ops = 1..Len(tx.ops) /\ DOMAIN tx'.ops = 1..n
          /\ \A i \in DOMAIN tx.ops :
               tx'.ops[i] = tx.ops[i] /\ backups'[Tx][i] = backups[Tx][i]
          /\ tx'.ops[n] = NewOperation("modify", f)
          /\ disk[f] # Absent => backups'[Tx][n] = disk[f]
      BY <1>2, <1>4, RegisterEffect
    <2>2. \A i \in DOMAIN tx.ops : tx.ops[i].file # f
      BY <1>4 DEF OpsInv, OpAgrees
    <2>3. f \notin edited => disk[f] = orig[f] /\ disk[f] # Absent
      <3>1. orig[f] # Absent
        BY TransactionAssumptions DEF DiskInv
      <3>2. ~Written(f)
        BY <1>4 DEF Written
      <3> QED
        BY <1>1, <3>1, <3>2 DEF DiskInv, Contains
    <2>4. /\ tx'.ops[n].type = "modify" /\ tx'.ops[n].file = f /\ ~tx'.ops[n].completed
          /\ tx'.ops[n].backup = (disk[f] # Absent)
      BY <2>1 DEF NewOperation
    <2>5. \A i \in DOMAIN tx.ops : OpAgrees(tx.ops[i])'
      BY <1>1, <1>2, <2>1, <2>2 DEF OpAgrees, OpsInv
    <2>6. ASSUME NEW i \in DOMAIN tx'.ops
          PROVE  /\ tx'.ops[i].type = "modify"
                 /\ OpAgrees(tx.ops[i])'
                 /\ tx'.ops[i].file \notin edited' =>
                      tx'.ops[i].backup /\ backups'[Tx][i] = orig'[tx'.ops[i].file]
      <3>1. CASE i \in DOMAIN tx.ops
        BY <1>1, <2>1, <2>5, <3>1 DEF OpsInv
      <3>2. CASE i = n
        BY <1>1, <1>4, <2>1, <2>3, <2>4, <3>2 DEF OpAgrees
      <3> QED
        BY <2>1, <3>1, <3>2
    <2>7. ASSUME NEW i \in DOMAIN tx'.ops, NEW j \in DOMAIN tx'.ops,
                 tx'.ops[i].file = tx'.ops[j].file
          PROVE  i = j
      <3>1. \A k \in DOMAIN tx'.ops : k \in DOMAIN tx.ops \/ k = n
        BY <2>1
      <3>2. \A k \in DOMAIN tx.ops : tx'.ops[k].file = tx.ops[k].file /\ tx'.ops[k].file # f
        BY <2>1, <2>2
      <3>3. CASE i \in DOMAIN tx.ops /\ j \in DOMAIN tx.ops
        <4>1. tx.ops[i].file = tx.ops[j].file
          BY <2>7, <3>2, <3>3
        <4> QED
          BY <3>3, <4>1 DEF OpsInv
      <3>4. CASE i = n \/ j = n
        BY <2>4, <2>7, <3>1, <3>2, <3>4
      <3> QED
        BY <3>1, <3>3, <3>4
    <2> QED
      BY <2>6, <2>7 DEF OpsInv
  <1>5. CASE /\ CompleteOperation(f, failed[f]) /\ pc'[f] = "completing"
             /\ backups' = backups /\ failed'[f] = failed[f]
    <2>1. PICK k \in DOMAIN tx.ops :
            /\ tx.ops[k].file = f /\ ~tx.ops[k].completed
            /\ tx'.ops[k].type = tx.ops[k].type /\ tx'.ops[k].file = f
            /\ tx'.ops[k].backup = tx.ops[k].backup
            /\ tx'.ops[k].completed /\ tx'.ops[k].err = failed[f]
            /\ \A i \in DOMAIN tx.ops : i # k => tx'.ops[i] = tx.ops[i]
      BY <1>5, CompletionEffect
    <2>2. DOMAIN tx'.ops = DOMAIN tx.ops
      BY <1>5, CompletionEffect
    <2>3. \A i \in DOMAIN tx.ops : tx'.ops[i].file = tx.ops[i].file
      BY <2>1
    <2>4. ASSUME NEW i \in DOMAIN tx.ops
          PROVE  OpAgrees(tx.ops[i])'
      <3>1. CASE i = k
        BY <1>5, <2>1, <3>1 DEF OpAgrees
      <3>2. CASE i # k
        <4>1. tx.ops[i].file # f /\ OpAgrees(tx.ops[i])
          BY <2>1, <3>2 DEF OpsInv
        <4> QED
          BY <1>1, <1>2, <2>1, <3>2, <4>1 DEF OpAgrees
      <3> QED
        BY <3>1, <3>2
    <2>5. \A i \in DOMAIN tx.ops :
            tx'.ops[i].type = tx.ops[i].type /\ tx'.ops[i].backup = tx.ops[i].backup
      BY <2>1
    <2> QED
      BY <1>1, <1>5, <2>2, <2>3, <2>4, <2>5 DEF OpsInv
  <1> QED
    BY <1>3, <1>4, <1>5 DEF FileEffect

\* The calling goroutine starts and settles the transaction; in between it
\* leaves the operations and the files' goroutines alone.
LEMMA MainStepEffect ==
  ASSUME Typed, ControlInv, MainStep
  PROVE  /\ UNCHANGED <<backups, edited, orig, plan, modified, failed, opt>>
         /\ tx' # NoTx => \/ main = "start" /\ tx'.ops = <<>> /\ pc' = pc
                          \/ tx # NoTx /\ tx'.ops = tx.ops
         /\ pc' # pc => /\ main = "walk" /\ main' = "files" /\ UNCHANGED <<tx, disk>>
                        /\ \A f \in Files : pc'[f] \in {"none", "queued"}
  <1> USE DEF mainUnchanged, tmVars
  <1>1. CASE Start
    BY <1>1 DEF Start, BeginTransaction
  <1>2. CASE Walk
    BY <1>2 DEF Walk
  <1>3. CASE WalkFails
    BY <1>3 DEF WalkFails, RollbackTransaction
  <1>4. CASE SettleRollback
    BY <1>4 DEF SettleRollback, RollbackTransaction
  <1>5. CASE SettleCommit
    <2>1. tx # NoTx /\ tx'.ops = tx.ops
      BY <1>5, CommitInv DEF SettleCommit, RollbackTransaction, Typed
    <2> QED
      BY <1>5, <2>1 DEF SettleCommit, RollbackTransaction, CommitTransaction
  <1>6. CASE SettlePlain
    BY <1>6 DEF SettlePlain
  <1>7. CASE RollbackLoop
    <2>1. tx # NoTx /\ tx'.ops = tx.ops
      <3>1. CASE UndoOperation
        BY <3>1 DEF UndoOperation, Typed, TMInv
      <3>2. CASE UndoFinished
        BY <3>2, UndoFinishedInv DEF Typed
      <3> QED
        BY <1>7, <3>1, <3>2 DEF RollbackLoop
    <2> QED
      BY <1>7, <2>1 DEF RollbackLoop, UndoOperation, UndoFinished
  <1>8. ASSUME NEW ok \in BOOLEAN, Begun(ok) \/ Settled(ok)
        PROVE  /\ UNCHANGED <<backups, edited, orig, plan, modified, failed, opt>>
               /\ tx' # NoTx => tx # NoTx /\ tx'.ops = tx.ops
               /\ pc' = pc
    <2>1. EndCall(ok)
      BY <1>8 DEF Begun, Settled
    <2>2. tx' = tx \/ tx' = NoTx
      BY <2>1, EndCallInv DEF TxAfterCall, Typed
    <2> QED
      BY <1>8, <2>1, <2>2 DEF Begun, Settled, EndCall, LogWritten, LogWriteFails
  <1> QED
    BY <1>1, <1>2, <1>3, <1>4, <1>5, <1>6, <1>7, <1>8 DEF MainStep

LEMMA MainStepOps ==
  ASSUME Typed, ControlInv, FileInv, OpsInv, MainStep
  PROVE  OpsInv'
  <1> USE MainStepEffect
  <1>1. CASE tx' = NoTx \/ tx'.ops = <<>>
    BY <1>1 DEF OpsInv
  <1>2. CASE pc' # pc
    <2>1. tx' # NoTx => tx'.ops = <<>>
      BY <1>2 DEF ControlInv
    <2> QED
      BY <2>1 DEF OpsInv
  <1>3. CASE tx # NoTx /\ tx'.ops = tx.ops /\ pc' = pc
    BY <1>3 DEF OpsInv, OpAgrees
  <1> QED
    BY <1>1, <1>2, <1>3

LEMMA OtherStepOps ==
  ASSUME Typed, OpsInv,
         (\E f \in Files : Edit(f)) \/ Crash \/ Terminated \/ UNCHANGED vars
  PROVE  OpsInv'
  <1>1. CASE Crash
    BY <1>1 DEF Crash, TMCrash, OpsInv
  <1>2. CASE UNCHANGED <<tx, pc, failed, modified, backups, orig>> /\ edited \subseteq edited'
    BY <1>2 DEF OpsInv, OpAgrees
  <1> QED
    BY <1>1, <1>2 DEF Edit, Terminated, vars, tmVars, runVars

-----------------------------------------------------------------------------
(* Registration *)

LEMMA FileStepRegistration ==
  ASSUME Typed, ControlInv, FileInv, OpsInv, Registration, Transactional,
         NEW f \in Files, FileStep(f), FileEffect(f), tx # NoTx
  PROVE  Registration'
  <1>1. /\ main = "files"
        /\ \A g \in Files \ {f} :
             pc'[g] = pc[g] /\ modified'[g] = modified[g] /\ failed'[g] = failed[g]
    BY OtherFiles
  <1>2. tx.id = Tx
    BY DEF ControlInv
  <1>3. CASE tx' = tx
    <2>1. pc'[f] \in {"adding", "write", "complete", "completing"} =>
            \E i \in DOMAIN tx.ops : tx.ops[i].file = f
      BY <1>2, <1>3, RegisterEffect, CompletionEffect DEF FileEffect, Registration
    <2>2. ASSUME pc'[f] = "done", modified'[f], ~failed'[f]
          PROVE  \E i \in DOMAIN tx.ops :
                   tx.ops[i].file = f /\ tx.ops[i].completed /\ ~tx.ops[i].err
      <3>1. pc[f] = "completing" /\ failed'[f] = failed[f]
        BY <2>2 DEF FileEffect
      <3>2. PICK i \in DOMAIN tx.ops : tx.ops[i].file = f
        BY <3>1 DEF Registration
      <3>3. OpAgrees(tx.ops[i])
        BY DEF OpsInv
      <3> QED
        BY <2>2, <3>1, <3>2, <3>3 DEF OpAgrees
    <2> QED
      BY <1>1, <1>3, <2>1, <2>2 DEF Registration
  <1>4. CASE AddOperation("modify", f) /\ pc'[f] = "adding"
    <2> DEFINE n == Len(tx.ops) + 1
    <2>1. /\ Len(tx.ops) \in Nat /\ DOMAIN tx.ops = 1..Len(tx.ops) /\ DOMAIN tx'.ops = 1..n
          /\ \A i \in DOMAIN tx.ops : tx'.ops[i] = tx.ops[i]
          /\ tx'.ops[n] = NewOperation("modify", f)
      BY <1>2, <1>4, RegisterEffect
    <2>2. n \in DOMAIN tx'.ops /\ tx'.ops[n].file = f
      BY <2>1 DEF NewOperation
    <2>3. \A i \in DOMAIN tx.ops : i \in DOMAIN tx'.ops
      BY <2>1
    <2> QED
      BY <1>1, <1>4, <2>1, <2>2, <2>3 DEF Registration
  <1>5. CASE CompleteOperation(f, failed[f]) /\ pc'[f] = "completing"
    <2>1. PICK k \in DOMAIN tx.ops :
            /\ tx.ops[k].file = f /\ tx'.ops[k].file = f
            /\ \A i \in DOMAIN tx.ops : i # k => tx'.ops[i] = tx.ops[i]
      BY <1>5, CompletionEffect
    <2>2. DOMAIN tx'.ops = DOMAIN tx.ops
      BY <1>5, CompletionEffect
    <2> QED
      BY <1>1, <1>5, <2>1, <2>2 DEF Registration
  <1> QED
    BY <1>3, <1>4, <1>5 DEF FileEffect

LEMMA MainStepRegistration ==
  ASSUME Typed, ControlInv, FileInv, Registration, MainStep
  PROVE  Registration'
  <1> USE MainStepEffect
  <1>1. CASE pc' # pc
    BY <1>1 DEF Registration
  <1>2. CASE main = "start" /\ pc' = pc
    <2>1. \A f \in Files : pc'[f] = "none"
      BY <1>2 DEF FileInv
    <2> QED
      BY <2>1 DEF Registration
  <1>3. CASE tx # NoTx /\ tx'.ops = tx.ops /\ pc' = pc
    BY <1>3 DEF Registration
  <1>4. CASE tx' = NoTx
    BY <1>4 DEF Registration
  <1> QED
    BY <1>1, <1>2, <1>3, <1>4

LEMMA OtherStepRegistration ==
  ASSUME Typed, Registration,
         (\E f \in Files : Edit(f)) \/ Crash \/ Terminated \/ UNCHANGED vars
  PROVE  Registration'
  <1>1. CASE Crash
    BY <1>1 DEF Crash, TMCrash, Registration
  <1>2. CASE UNCHANGED <<tx, pc, failed, modified>>
    BY <1>2 DEF Registration
  <1> QED
    BY <1>1, <1>2 DEF Edit, Terminated, vars, tmVars, runVars

-----------------------------------------------------------------------------
(* Files on disk *)

\* The goroutine of f applies no operation of another file, and does not
\* apply its own except by CompleteOperation.
LEMMA AppliedElsewhere ==
  ASSUME Typed, ControlInv, NEW f \in Files, FileEffect(f), tx # NoTx,
         NEW g \in Files \ {f}
  PROVE  Applied(g, Len(tx.ops))' <=> Applied(g, Len(tx.ops))
  <1>1. tx.id = Tx /\ Len(tx.ops) \in Nat /\ DOMAIN tx.ops = 1..Len(tx.ops)
    BY CurrentTx DEF ControlInv, Typed
  <1>2. CASE tx' = tx
    BY <1>2 DEF Applied
  <1>3. CASE AddOperation("modify", f)
    <2> DEFINE n == Len(tx.ops) + 1
    <2>1. NewOperation("modify", f).file = f
      BY DEF NewOperation
    <2>2. /\ DOMAIN tx'.ops = 1..n /\ Len(tx'.ops) = n
          /\ \A i \in DOMAIN tx.ops : tx'.ops[i] = tx.ops[i]
          /\ tx'.ops[n].file = f
      BY <1>1, <1>3, <2>1, RegisterEffect
    <2>3. /\ \A i \in 1..n : i <= n /\ (i \in 1..Len(tx.ops) \/ i = n)
          /\ \A i \in 1..Len(tx.ops) : i \in 1..n /\ i <= Len(tx.ops)
      BY <1>1
    <2> QED
      BY <1>1, <2>2, <2>3 DEF Applied
  <1>4. CASE CompleteOperation(f, failed[f])
    <2>1. PICK k \in DOMAIN tx.ops :
            /\ tx.ops[k].file = f /\ tx'.ops[k].file = f
            /\ \A i \in DOMAIN tx.ops : i # k => tx'.ops[i] = tx.ops[i]
      BY <1>4, CompletionEffect
    <2>2. DOMAIN tx'.ops = DOMAIN tx.ops /\ Len(tx'.ops) = Len(tx.ops)
      BY <1>4, CompletionEffect
    <2> QED
      BY <1>1, <2>1, <2>2 DEF Applied
  <1> QED
    BY <1>2, <1>3, <1>4 DEF FileEffect

\* The file of the goroutine itself.
LEMMA OwnFileOnDisk ==
  ASSUME Typed, ControlInv, FileInv, OpsInv, Registration,
         NEW f \in Files, FileEffect(f), tx # NoTx, main = "files",
         disk[f] = IF Written(f) THEN plan[f] ELSE orig[f], orig' = orig
  PROVE  disk'[f] = (IF Written(f) THEN plan[f] ELSE orig[f])'
  <1>1. tx.id = Tx /\ DOMAIN tx.ops = 1..Len(tx.ops) /\ Len(tx.ops) \in Nat
    BY CurrentTx DEF ControlInv, Typed
  <1>2. CASE pc[f] \in {"queued", "read", "register"} /\ tx' = tx /\ disk' = disk
             /\ pc'[f] \in {"read", "register", "done"}
    <2>1. ~Written(f)
      BY <1>2 DEF Written
    <2>2. ~Applied(f, Len(tx.ops))
      BY <1>2 DEF Applied, OpsInv, OpAgrees
    <2>3. ~Written(f)'
      BY <1>2, <2>2 DEF Written, Applied
    <2> QED
      BY <1>2, <2>1, <2>3
  <1>3. CASE pc[f] = "register" /\ pc'[f] = "adding" /\ disk' = disk
    <2>1. ~Written(f) /\ ~Written(f)'
      BY <1>3 DEF Written
    <2> QED
      BY <1>3, <2>1
  <1>4. CASE pc[f] = "adding" /\ pc'[f] \in {"write", "done"} /\ tx' = tx /\ disk' = disk
    <2>1. ~Written(f)
      BY <1>4 DEF Written
    <2>2. ~Applied(f, Len(tx.ops))
      BY <1>4 DEF Applied, OpsInv, OpAgrees
    <2>3. ~Written(f)'
      BY <1>4, <2>2 DEF Written, Applied
    <2> QED
      BY <1>4, <2>1, <2>3
  <1>5. CASE pc[f] = "write" /\ pc'[f] = "complete" /\ plan' = plan
             /\ disk'[f] = IF failed'[f] THEN disk[f] ELSE plan[f]
    <2>1. ~Written(f) /\ (Written(f)' <=> ~failed'[f])
      BY <1>5 DEF Written
    <2> QED
      BY <1>5, <2>1
  <1>6. CASE pc[f] = "complete" /\ pc'[f] = "completing"
             /\ UNCHANGED <<disk, plan, failed>>
    <2>1. Written(f)' <=> Written(f)
      BY <1>6 DEF Written
    <2> QED
      BY <1>6, <2>1
  <1>7. CASE pc[f] = "completing" /\ pc'[f] = "done" /\ UNCHANGED <<tx, disk, plan>>
    <2>1. Written(f) <=> ~failed[f]
      BY <1>7 DEF Written
    <2>2. Applied(f, Len(tx.ops)) <=> ~failed[f]
      <3>1. PICK i \in DOMAIN tx.ops : tx.ops[i].file = f
        BY <1>7 DEF Registration
      <3>2. i <= Len(tx.ops)
        BY <1>1, <3>1
      <3> QED
        BY <1>7, <3>1, <3>2 DEF OpsInv, OpAgrees, Applied
    <2>3. Written(f)' <=> ~failed[f]
      BY <1>7, <2>2 DEF Written, Applied
    <2> QED
      BY <1>7, <2>1, <2>3
  <1> QED
    BY <1>2, <1>3, <1>4, <1>5, <1>6, <1>7 DEF FileEffect

LEMMA FileStepDisk ==
  ASSUME Typed, ControlInv, FileInv, OpsInv, Registration, DiskInv, Transactional,
         NEW f \in Files, FileStep(f), FileEffect(f)
  PROVE  DiskInv'
  <1>1. /\ main = "files" /\ main' = main
        /\ UNCHANGED <<outcome, edited, opt, orig>>
        /\ \A g \in Files \ {f} :
             /\ pc'[g] = pc[g] /\ plan'[g] = plan[g] /\ disk'[g] = disk[g]
             /\ failed'[g] = failed[g]
    BY OtherFiles
  <1>2. tx # NoTx /\ outcome = "none"
    BY <1>1 DEF ControlInv
  <1>3. ASSUME NEW g \in Files \ edited
        PROVE  disk'[g] = (IF Written(g) THEN plan[g] ELSE orig[g])'
    <2>1. disk[g] = IF Written(g) THEN plan[g] ELSE orig[g]
      BY <1>1 DEF DiskInv, Contains
    <2>2. CASE g = f
      BY <1>1, <1>2, <2>1, <2>2, OwnFileOnDisk
    <2>3. CASE g # f
      <3>1. Applied(g, Len(tx.ops))' <=> Applied(g, Len(tx.ops))
        BY <1>2, <2>3, AppliedElsewhere
      <3>2. Written(g)' <=> Written(g)
        BY <1>1, <2>3, <3>1 DEF Written
      <3> QED
        BY <1>1, <2>1, <2>3, <3>2
    <2> QED
      BY <2>2, <2>3
  <1> QED
    BY <1>1, <1>2, <1>3 DEF DiskInv, Contains

\* When all goroutines are done, a file holds its planned content exactly if
\* its operation was applied; with no error at all, exactly if it has a plan.
LEMMA DoneFiles ==
  ASSUME Typed, ControlInv, FileInv, OpsInv, Registration, tx # NoTx,
         main = "files", AllDone, NEW f \in Files
  PROVE  /\ Written(f) <=> Applied(f, Len(tx.ops))
         /\ ~HasErrors => (Written(f) <=> modified[f])
  <1>1. DOMAIN tx.ops = 1..Len(tx.ops) /\ Len(tx.ops) \in Nat
    BY CurrentTx DEF Typed
  <1>2. \A i \in DOMAIN tx.ops : i <= Len(tx.ops)
    BY <1>1
  <1>3. f \in found <=> pc[f] # "none"
    BY DEF FileInv
  <1>4. pc[f] \in {"none", "done"}
    BY <1>3 DEF AllDone
  <1>5. Applied(f, Len(tx.ops)) => pc[f] = "done" /\ modified[f]
    BY <1>4 DEF Applied, OpsInv, OpAgrees
  <1>6. ASSUME ~HasErrors, modified[f]
        PROVE  pc[f] = "done" /\ Applied(f, Len(tx.ops))
    <2>1. pc[f] = "done"
      BY <1>4, <1>6 DEF FileInv
    <2>2. ~failed[f]
      BY <1>3, <1>6, <2>1 DEF HasErrors
    <2> QED
      BY <1>2, <1>6, <2>1, <2>2 DEF Registration, Applied
  <1> QED
    BY <1>4, <1>5, <1>6 DEF Written

\* One step of the rollback loop undoes exactly one operation.
LEMMA UndoOnDisk ==
  ASSUME Typed, ControlInv, OpsInv, UndoOperation, ~undoErr', NEW f \in Files \ edited,
         disk[f] = IF Applied(f, undo) THEN plan[f] ELSE orig[f],
         UNCHANGED <<plan, orig>>
  PROVE  ~undoErr /\ disk'[f] = (IF Applied(f, undo) THEN plan[f] ELSE orig[f])'
  <1>1. /\ undo \in DOMAIN tx.ops /\ undo' = undo - 1 /\ tx' = tx /\ backups' = backups
        /\ tx # NoTx /\ tx.id = Tx
    BY UndoInv DEF UndoOperation, ControlInv, Typed, TMInv
  <1>2. /\ tx.ops[undo].type = "modify"
        /\ tx.ops[undo].file \notin edited =>
             backups[Tx][undo] = orig[tx.ops[undo].file]
        /\ \A j \in DOMAIN tx.ops : tx.ops[j].file = tx.ops[undo].file => j = undo
    BY <1>1 DEF OpsInv
  <1>3. undo \in Nat /\ undo > 0 /\ DOMAIN tx.ops = 1..Len(tx.ops)
    BY <1>1, CurrentTx DEF Typed, UndoOperation, TMInv, TMTypeOK
  <1>4. \A j \in DOMAIN tx.ops : j <= undo <=> (j <= undo - 1 \/ j = undo)
    BY <1>3
  <1>5. ~(undo <= undo - 1)
    BY <1>3
  <1>6. Applied(f, undo)' <=> Applied(f, undo - 1)
    BY <1>1 DEF Applied
  <1>7. ~undoErr
    BY DEF UndoOperation, UndoSkip, UndoModify, UndoCreate, UndoDelete
  <1>8. CASE LeftAlone(tx.ops[undo])
    <2>1. disk' = disk
      BY <1>2, <1>8 DEF UndoOperation, UndoSkip, UndoModify, UndoCreate, UndoDelete
    <2>2. Applied(f, undo) <=> Applied(f, undo - 1)
      BY <1>1, <1>2, <1>4, <1>8 DEF Applied, LeftAlone
    <2> QED
      BY <1>6, <1>7, <2>1, <2>2
  <1>9. CASE ~LeftAlone(tx.ops[undo])
    <2>1. disk' = [disk EXCEPT ![tx.ops[undo].file] = backups[Tx][undo]]
      BY <1>1, <1>2, <1>9 DEF UndoOperation, UndoSkip, UndoModify, UndoCreate, UndoDelete
    <2>2. CASE tx.ops[undo].file = f
      <3>1. ~Applied(f, undo - 1)
        BY <1>2, <1>5, <2>2 DEF Applied
      <3>2. disk'[f] = orig[f]
        BY <1>2, <2>1, <2>2 DEF Typed, TMInv, TMTypeOK
      <3> QED
        BY <1>6, <1>7, <3>1, <3>2
    <2>3. CASE tx.ops[undo].file # f
      <3>1. disk'[f] = disk[f]
        BY <2>1, <2>3 DEF Typed, TMInv, TMTypeOK
      <3>2. Applied(f, undo) <=> Applied(f, undo - 1)
        BY <1>4, <2>3 DEF Applied
      <3> QED
        BY <1>6, <1>7, <3>1, <3>2
    <2> QED
      BY <2>2, <2>3
  <1> QED
    BY <1>8, <1>9

LEMMA MainStepDisk ==
  ASSUME Typed, ControlInv, FileInv, OpsInv, Registration, DiskInv, MainStep
  PROVE  DiskInv'
  <1>1. UNCHANGED <<backups, edited, orig, plan, modified, failed, opt>>
    BY MainStepEffect
  <1>2. ControlInv'
    BY MainStepControl
  <1>3. orig' \in [Files -> Contents]
    BY <1>1 DEF DiskInv
  <1>4. Transactional' = Transactional
    BY <1>1 DEF Transactional
  <1>5. outcome' \in {"committed", "rolled_back"} => Transactional
    BY DEF MainStep, Start, Walk, WalkFails, SettleRollback, SettleCommit, SettlePlain,
       RollbackLoop, Begun, Settled, Return, ControlInv, DiskInv
  <1>6. ASSUME NEW f \in Files \ edited, Transactional
        PROVE  Contains(f)'
    <2> USE <1>1 DEF mainUnchanged, tmVars
    <2>1. Contains(f)
      BY <1>6 DEF DiskInv
    <2>2. CASE Start
      BY <1>6, <2>1, <2>2 DEF Start, BeginTransaction, Contains, ControlInv
    <2>3. CASE Walk
      <3>1. ~Written(f)' /\ disk' = disk /\ main = "walk" /\ main' = "files"
            /\ outcome' = outcome /\ outcome = "none"
        BY <2>3 DEF Walk, Written, ControlInv
      <3> QED
        BY <2>1, <3>1 DEF Contains
    <2>4. CASE WalkFails
      BY <1>6, <2>1, <2>4 DEF WalkFails, Contains, ControlInv
    <2>5. CASE SettleRollback
      <3>1. /\ disk' = disk /\ main = "files" /\ main' = "rollback" /\ AllDone
            /\ outcome' = outcome /\ outcome = "none" /\ tx' = tx /\ tx # NoTx
            /\ call' = "undo" /\ undo' = Len(tx.ops)
        BY <2>5 DEF SettleRollback, RollbackTransaction, ControlInv
      <3>2. Written(f) <=> Applied(f, undo)'
        BY <3>1, DoneFiles DEF Applied
      <3> QED
        BY <2>1, <3>1, <3>2 DEF Contains
    <2>6. CASE SettleCommit
      <3>1. /\ disk' = disk /\ main = "files" /\ main' \in {"commit", "unwind"}
            /\ AllDone /\ ~HasErrors /\ outcome' = outcome /\ outcome = "none" /\ tx # NoTx
        BY <2>6 DEF SettleCommit, RollbackTransaction, CommitTransaction, ControlInv
      <3>2. Written(f) <=> modified[f]
        BY <3>1, DoneFiles
      <3> QED
        BY <2>1, <3>1, <3>2 DEF Contains
    <2>7. CASE SettlePlain
      BY <1>6, <2>7 DEF SettlePlain
    <2>8. CASE RollbackLoop
      <3>1. /\ main' = main /\ main \in {"rollback", "unwind"}
            /\ outcome' = outcome /\ outcome = "none"
        BY <2>8 DEF RollbackLoop, ControlInv
      <3>2. CASE UndoOperation
        <4>1. call = "undo" /\ call' = "undo"
          BY <3>2 DEF UndoOperation
        <4>2. ASSUME main = "rollback", ~undoErr'
              PROVE  disk'[f] = (IF Applied(f, undo) THEN plan[f] ELSE orig[f])'
          <5>1. ~undoErr
            BY <3>2, <4>2 DEF UndoOperation, UndoSkip, UndoModify, UndoCreate, UndoDelete
          <5>2. disk[f] = IF Applied(f, undo) THEN plan[f] ELSE orig[f]
            BY <2>1, <4>1, <4>2, <5>1 DEF Contains
          <5> QED
            BY <1>6, <3>2, <4>2, <5>2, UndoOnDisk
        <4> QED
          BY <3>1, <4>1, <4>2 DEF Contains
      <3>3. CASE UndoFinished
        <4>1. /\ call = "undo" /\ call' = "rollback" /\ undo = 0
              /\ UNCHANGED <<disk, undoErr>>
          BY <3>3 DEF UndoFinished
        <4>2. tx # NoTx
          BY <4>1 DEF Typed, TMInv
        <4>3. DOMAIN tx.ops = 1..Len(tx.ops) /\ Len(tx.ops) \in Nat
          BY <4>2, CurrentTx DEF Typed
        <4>4. ~Applied(f, undo)
          BY <4>1, <4>3 DEF Applied
        <4> QED
          BY <2>1, <3>1, <4>1, <4>4 DEF Contains
      <3> QED
        BY <2>8, <3>2, <3>3 DEF RollbackLoop
    <2>9. ASSUME NEW ok \in BOOLEAN, Begun(ok)
          PROVE  Contains(f)'
      <3>1. disk' = disk /\ main = "begin" /\ main' \in {"walk", "returned"}
            /\ outcome' \in {outcome, "error"} /\ outcome = "none"
        BY <2>9 DEF Begun, Return, EndCall, LogWritten, LogWriteFails, ControlInv
      <3> QED
        BY <2>1, <3>1 DEF Contains
    <2>10. ASSUME NEW ok \in BOOLEAN, Settled(ok)
           PROVE  Contains(f)'
      <3>1. disk' = disk /\ main \in {"commit", "rollback", "unwind"} /\ main' = "returned"
            /\ EndCall(ok)
        BY <2>10 DEF Settled, Return, EndCall, LogWritten, LogWriteFails
      <3>2. outcome' = "committed" => main = "commit"
        BY <2>10 DEF Settled, Return
      <3>3. outcome' = "rolled_back" => main = "rollback" /\ CallSucceeds(ok)
        BY <2>10 DEF Settled, Return
      <3>4. call \in LogWriters
        BY <3>1 DEF EndCall, LogWritten, LogWriteFails
      <3>5. outcome' = "rolled_back" => call = "rollback" /\ ~undoErr
        BY <3>3, <3>4 DEF CallSucceeds, ControlInv, LogWriters
      <3> QED
        BY <2>1, <3>1, <3>2, <3>3, <3>5 DEF Contains
    <2> QED
      BY <2>2, <2>3, <2>4, <2>5, <2>6, <2>7, <2>8, <2>9, <2>10 DEF MainStep
  <1> QED
    BY <1>1, <1>3, <1>4, <1>5, <1>6 DEF DiskInv

LEMMA OtherStepDisk ==
  ASSUME Typed, ControlInv, DiskInv,
         (\E f \in Files : Edit(f)) \/ Crash \/ Terminated \/ UNCHANGED vars
  PROVE  DiskInv'
  <1>1. ASSUME NEW f \in Files, Edit(f)
        PROVE  DiskInv'
    <2>1. /\ \A g \in Files \ {f} : disk'[g] = disk[g]
          /\ edited' = edited \union {f}
          /\ UNCHANGED <<tx, call, undo, undoErr, main, pc, plan, modified, failed,
                         outcome, opt, orig>>
      BY <1>1 DEF Edit, runVars, Typed, TMInv, TMTypeOK
    <2> QED
      BY <2>1 DEF DiskInv, Contains, Written, Applied, Transactional
  <1>2. CASE Crash
    <2>1. main' = "crashed" /\ UNCHANGED <<outcome, opt, orig, edited>> /\ outcome = "none"
      BY <1>2 DEF Crash, Running, runVars, ControlInv
    <2> QED
      BY <2>1 DEF DiskInv, Contains, Transactional
  <1>3. CASE UNCHANGED vars
    BY <1>3 DEF vars, tmVars, runVars, DiskInv, Contains, Written, Applied, Transactional
  <1> QED
    BY <1>1, <1>2, <1>3 DEF Terminated

-----------------------------------------------------------------------------
(* Results *)

LEMMA InitInv ==
  ASSUME Init
  PROVE  IInv
  <1>1. Typed
    BY InitTyped
  <1>2. tx = NoTx /\ call = "idle" /\ main = "start" /\ outcome = "none" /\ orig = disk
        /\ disk \in [Files -> Contents] /\ pc = [f \in Files |-> "none"]
    BY DEF Init, TMInit
  <1>3. \A f \in Files : ~modified[f] /\ ~failed[f]
    BY DEF Init
  <1>4. ControlInv /\ OpsInv /\ Registration
    BY <1>2 DEF ControlInv, OpsInv, Registration
  <1>5. FileInv
    BY <1>2, <1>3 DEF FileInv
  <1>6. DiskInv
    BY <1>2 DEF DiskInv, Contains
  <1> QED
    BY <1>1, <1>4, <1>5, <1>6 DEF IInv, Typed

LEMMA FileStepInv ==
  ASSUME "release" \notin Faults, IInv, NEW f \in Files, FileStep(f)
  PROVE  IInv'
  <1>1. Typed /\ ControlInv /\ FileInv /\ OpsInv /\ Registration /\ DiskInv
    BY DEF IInv, Typed
  <1>2. Typed' /\ ControlInv' /\ FileInv'
    BY <1>1, FileStepTyped, FileStepControl, FileStepFiles
  <1>3. main = "files" /\ UNCHANGED <<opt, orig, outcome>>
    BY <1>1, OtherFiles
  <1>4. CASE Transactional
    <2>1. FileEffect(f) /\ tx # NoTx
      BY <1>1, <1>3, <1>4, FileStepEffect DEF ControlInv
    <2>2. OpsInv'
      BY <1>1, <1>4, <2>1, FileStepOps
    <2>3. Registration'
      BY <1>1, <1>4, <2>1, FileStepRegistration
    <2>4. DiskInv'
      BY <1>1, <1>4, <2>1, FileStepDisk
    <2> QED
      BY <1>2, <2>2, <2>3, <2>4 DEF IInv, Typed
  <1>5. CASE ~Transactional
    <2>1. ~Transactional'
      BY <1>3, <1>5 DEF Transactional
    <2>2. tx' = NoTx
      BY <1>2, <2>1 DEF ControlInv
    <2>3. OpsInv' /\ Registration'
      BY <2>2 DEF OpsInv, Registration
    <2>4. DiskInv'
      BY <1>1, <1>3, <2>1, <1>5 DEF DiskInv
    <2> QED
      BY <1>2, <2>3, <2>4 DEF IInv, Typed
  <1> QED
    BY <1>4, <1>5

LEMMA StepInv ==
  ASSUME "release" \notin Faults, IInv, [Next]_vars
  PROVE  IInv'
  <1>1. Typed /\ ControlInv /\ FileInv /\ OpsInv /\ Registration /\ DiskInv
    BY DEF IInv, Typed
  <1>2. CASE MainStep
    BY <1>1, <1>2, MainStepTyped, MainStepControl, MainStepFiles, MainStepOps,
       MainStepRegistration, MainStepDisk DEF IInv, Typed
  <1>3. ASSUME NEW f \in Files, FileStep(f)
        PROVE  IInv'
    BY <1>3, FileStepInv
  <1>4. CASE (\E f \in Files : Edit(f)) \/ Crash \/ Terminated \/ UNCHANGED vars
    BY <1>1, <1>4, OtherStepTyped, OtherStepControl, OtherStepFiles, OtherStepOps,
       OtherStepRegistration, OtherStepDisk DEF IInv, Typed
  <1> QED
    BY <1>2, <1>3, <1>4 DEF Next, Program

\* IInv is inductive, so it holds throughout, as long as the release of a
\* lock does not fail.
THEOREM Inductive == "release" \notin Faults => (Spec => []IInv)
  <1> SUFFICES ASSUME "release" \notin Faults
               PROVE  Spec => []IInv
    OBVIOUS
  <1>1. Init => IInv
    BY InitInv
  <1>2. IInv /\ [Next]_vars => IInv'
    BY StepInv
  <1> QED
    BY <1>1, <1>2, PTL DEF Spec

\* TransformFiles is all or nothing: when it returns with a commit, or with a
\* rollback that reported no error, every file nobody else wrote holds what
\* it planned, or what it held.
THEOREM AllOrNothingHolds == "release" \notin Faults => (Spec => []AllOrNothing)
  <1>1. ASSUME IInv
        PROVE  AllOrNothing
    BY <1>1 DEF IInv, DiskInv, Contains, AllOrNothing
  <1> QED
    BY <1>1, Inductive, PTL

\* CommitTransaction never refuses a batch in which no file failed.
THEOREM CommitNeverRefusedHolds ==
  "release" \notin Faults => (Spec => []CommitNeverRefused)
  <1>1. ASSUME IInv
        PROVE  CommitNeverRefused
    <2> SUFFICES ASSUME main = "files", AllDone, Transactional, ~HasErrors,
                        NEW i \in DOMAIN tx.ops
                 PROVE  tx.ops[i].completed /\ ~tx.ops[i].err
      BY DEF CommitNeverRefused, Committable
    <2>1. tx # NoTx
      BY <1>1 DEF IInv, ControlInv
    <2>2. OpAgrees(tx.ops[i]) /\ tx.ops[i].file \in Files
      BY <1>1, <2>1, CurrentTx DEF IInv, OpsInv, Operation
    <2>3. tx.ops[i].file \in found <=> pc[tx.ops[i].file] # "none"
      BY <1>1, <2>2 DEF IInv, FileInv
    <2>4. pc[tx.ops[i].file] = "done" /\ ~failed[tx.ops[i].file]
      BY <2>2, <2>3 DEF OpAgrees, AllDone, HasErrors
    <2> QED
      BY <2>2, <2>4 DEF OpAgrees
  <1> QED
    BY <1>1, Inductive, PTL

-----------------------------------------------------------------------------
(* Without a transaction *)

\* A file that nobody else wrote is as it was until its goroutine writes it,
\* and from the backup on the backup is there.
PlainFile(f) ==
  /\ pc[f] \in {"none", "queued", "read", "register"} => disk[f] = orig[f]
  /\ pc[f] = "write" \/ disk[f] # orig[f] =>
       ~opt.dryRun /\ (opt.backup => bak[f] = orig[f])

PlainInv ==
  ~Transactional =>
    /\ main \in {"start", "walk", "files", "returned", "crashed"}
    /\ main \in {"start", "walk"} => \A f \in Files : pc[f] = "none"
    /\ \A f \in Files : pc[f] \notin {"adding", "complete", "completing"}
    /\ \A f \in Files \ edited : PlainFile(f)

\* A step of the goroutine of f leaves the other files and their backups alone.
LEMMA FileStepPlain ==
  ASSUME Typed, PlainInv, NEW f \in Files, FileStep(f)
  PROVE  PlainInv'
  <1> SUFFICES ASSUME ~Transactional'
               PROVE  /\ main' \in {"start", "walk", "files", "returned", "crashed"}
                      /\ main' \in {"start", "walk"} => \A g \in Files : pc'[g] = "none"
                      /\ \A g \in Files : pc'[g] \notin {"adding", "complete", "completing"}
                      /\ \A g \in Files \ edited' : PlainFile(g)'
    BY DEF PlainInv
  <1>1. main = "files" /\ UNCHANGED <<main, edited, opt, orig>>
    BY DEF FileStep, Acquire, ReadFails, ReadNoChange, ReadChange, Register, RegisterFails,
       Registered, Backup, BackupFails, Write, WriteFails, Complete, Completed, fileUnchanged, runVars
  <1>2. /\ ~Transactional /\ pc[f] \notin {"adding", "complete", "completing"}
        /\ \A g \in Files : pc[g] \notin {"adding", "complete", "completing"}
        /\ \A g \in Files \ edited : PlainFile(g)
    BY <1>1 DEF PlainInv, Transactional
  <1>3. /\ pc \in [Files -> FilePCs] /\ bak \in [Files -> FileData] /\ disk \in [Files -> FileData]
    BY DEF Typed, TypeOK, TMTypeOK
  <1>4. /\ \A g \in Files \ {f} : pc'[g] = pc[g] /\ disk'[g] = disk[g] /\ bak'[g] = bak[g]
        /\ pc'[f] \notin {"adding", "complete", "completing"}
        /\ f \notin edited => PlainFile(f)'
    <2>1. CASE Acquire(f) \/ ReadFails(f) \/ ReadNoChange(f) \/ ReadChange(f) \/ BackupFails(f)
      <3>1. UNCHANGED <<disk, bak>>
        BY <2>1 DEF Acquire, ReadFails, ReadNoChange, ReadChange, BackupFails, tmVars
      <3>2. /\ \A g \in Files \ {f} : pc'[g] = pc[g]
            /\ pc[f] \in {"queued", "read", "register"} /\ pc'[f] \in {"read", "register", "done"}
        BY <1>3, <2>1 DEF Acquire, ReadFails, ReadNoChange, ReadChange, BackupFails, Goto, FailFile, DoneFile
      <3>3. QED
        BY <1>1, <1>2, <3>1, <3>2 DEF PlainFile
    <2>2. CASE Backup(f)
      BY <1>1, <1>2, <1>3, <2>2 DEF Backup, Goto, PlainFile, tmVars
    <2>3. CASE Write(f)
      BY <1>1, <1>2, <1>3, <2>3 DEF Write, Goto, DoneFile, PlainFile
    <2>4. CASE WriteFails(f)
      BY <1>1, <1>2, <1>3, <2>4 DEF WriteFails, Goto, PlainFile
    <2>5. CASE Register(f) \/ RegisterFails(f) \/ Complete(f) \/ \E ok \in BOOLEAN : Registered(f, ok) \/ Completed(f, ok)
      BY <1>2, <2>5 DEF Register, RegisterFails, Complete, Registered, Completed
    <2>6. QED
      BY <2>1, <2>2, <2>3, <2>4, <2>5 DEF FileStep
  <1>5. ASSUME NEW g \in Files \ {f}, g \notin edited
        PROVE  PlainFile(g)'
    BY <1>1, <1>2, <1>4, <1>5 DEF PlainFile
  <1> QED
    BY <1>1, <1>2, <1>4, <1>5

LEMMA MainStepPlain ==
  ASSUME Typed, PlainInv, MainStep
  PROVE  PlainInv'
  <1> SUFFICES ASSUME ~Transactional'
               PROVE  /\ main' \in {"start", "walk", "files", "returned", "crashed"}
                      /\ main' \in {"start", "walk"} => \A g \in Files : pc'[g] = "none"
                      /\ \A g \in Files : pc'[g] \notin {"adding", "complete", "completing"}
                      /\ \A g \in Files \ edited' : PlainFile(g)'
    BY DEF PlainInv
  <1>1. UNCHANGED <<edited, opt, orig, bak>>
    BY DEF MainStep, Start, Walk, WalkFails, SettleRollback, SettleCommit, SettlePlain, RollbackLoop,
       Begun, Settled, mainUnchanged
  <1>2. /\ ~Transactional
        /\ main \in {"start", "walk", "files", "returned", "crashed"}
        /\ main \in {"start", "walk"} => \A f \in Files : pc[f] = "none"
        /\ \A g \in Files : pc[g] \notin {"adding", "complete", "completing"}
        /\ \A g \in Files \ edited : PlainFile(g)
    BY <1>1 DEF PlainInv, Transactional
  <1>3. UNCHANGED disk /\ (Start \/ Walk \/ WalkFails \/ SettlePlain)
    BY <1>2 DEF MainStep, Start, Walk, WalkFails, SettleRollback, SettleCommit, SettlePlain, RollbackLoop,
       Begun, Settled, tmVars
  <1>4. CASE Walk
    <2>1. main = "walk" /\ main' = "files" /\ \A g \in Files : pc'[g] \in {"queued", "none"}
      BY <1>4 DEF Walk
    <2>2. \A g \in Files \ edited : disk[g] = orig[g] /\ PlainFile(g)
      BY <1>2, <2>1 DEF PlainFile
    <2>3. QED
      BY <1>1, <1>3, <2>1, <2>2 DEF PlainFile
  <1>5. CASE Start \/ WalkFails \/ SettlePlain
    <2>1. /\ UNCHANGED pc /\ main' \in {"walk", "returned"}
          /\ main' = "walk" => main = "start"
      BY <1>2, <1>5 DEF Start, WalkFails, SettlePlain, Return
    <2>2. QED
      BY <1>1, <1>2, <1>3, <2>1 DEF PlainFile
  <1> QED
    BY <1>3, <1>4, <1>5

LEMMA OtherStepPlain ==
  ASSUME Typed, PlainInv, (\E f \in Files : Edit(f)) \/ Crash \/ UNCHANGED vars
  PROVE  PlainInv'
  <1>1. ASSUME NEW f \in Files, Edit(f) PROVE PlainInv'
    <2>1. /\ \A g \in Files \ edited' : g \notin edited /\ disk'[g] = disk[g]
          /\ UNCHANGED <<main, pc, bak, opt, orig>>
      BY <1>1 DEF Edit, runVars, Typed, TypeOK, TMTypeOK
    <2>2. QED
      BY <2>1 DEF PlainInv, PlainFile, Transactional
  <1>2. CASE Crash
    <2>1. /\ main' = "crashed" /\ UNCHANGED <<pc, bak, opt, orig, edited>>
          /\ \A g \in Files : pc[g] # "write" => disk'[g] = disk[g]
      BY <1>2 DEF Crash, runVars
    <2>2. QED
      BY <2>1 DEF PlainInv, PlainFile, Transactional
  <1>3. CASE UNCHANGED vars
    BY <1>3 DEF PlainInv, PlainFile, Transactional, vars, tmVars, runVars
  <1> QED
    BY <1>1, <1>2, <1>3

\* Without a transaction, whatever fails, and whoever else writes other files:
\* a requested backup holds the old content of every file that was changed,
\* wholly or in part, and a dry run changes none.
THEOREM PlainBackupFirstHolds == Spec => []PlainBackupFirst
  <1>1. Init => Typed /\ PlainInv
    <2>1. SUFFICES ASSUME Init PROVE PlainInv
      BY InitTyped
    <2>2. main = "start" /\ orig = disk /\ \A f \in Files : pc[f] = "none"
      BY <2>1 DEF Init
    <2>3. QED
      BY <2>2 DEF PlainInv, PlainFile
  <1>2. Typed /\ PlainInv /\ [Next]_vars => Typed' /\ PlainInv'
    BY StepTyped, FileStepPlain, MainStepPlain, OtherStepPlain DEF Next, Program, Terminated
  <1>3. PlainInv => PlainBackupFirst
    BY DEF PlainInv, PlainFile, PlainBackupFirst
  <1> QED
    BY <1>1, <1>2, <1>3, PTL DEF Spec

-----------------------------------------------------------------------------
(* A crash, and the abstract batch *)

\* What IInv says, in the parts the lemmas above take.
LEMMA IInvParts ==
  ASSUME IInv
  PROVE  Typed /\ ControlInv /\ FileInv /\ OpsInv /\ Registration /\ DiskInv
  BY DEF IInv, Typed

-----------------------------------------------------------------------------
(* Old or new *)

\* A plan is made once and stays.
LEMMA PlanStays ==
  ASSUME Typed, FileInv, NEW f \in Files, FileStep(f), NEW g \in Files, modified[g]
  PROVE  modified'[g] /\ plan'[g] = plan[g]
  <1>1. CASE g # f
    BY <1>1, OtherFiles
  <1>2. CASE g = f
    <2>1. pc[f] # "read"
      BY <1>2 DEF FileInv
    <2> QED
      BY <1>2, <2>1 DEF FileStep, Acquire, ReadFails, ReadNoChange, ReadChange, Register,
         RegisterFails, Registered, Backup, BackupFails, Write, WriteFails, Complete, Completed
  <1> QED
    BY <1>1, <1>2

LEMMA FileStepOldOrNew ==
  ASSUME "release" \notin Faults, IInv, OldOrNew, NEW f \in Files, FileStep(f)
  PROVE  OldOrNew'
  <1> USE IInvParts
  <1>1. /\ UNCHANGED <<opt, orig, edited>>
        /\ \A g \in Files \ {f} : disk'[g] = disk[g]
    BY OtherFiles
  <1>2. SUFFICES ASSUME Transactional, NEW g \in Files \ edited
                 PROVE  disk'[g] = orig[g] \/ (modified'[g] /\ disk'[g] = plan'[g])
    BY <1>1 DEF OldOrNew, Transactional
  <1>3. disk[g] = orig[g] \/ (modified[g] /\ disk[g] = plan[g])
    BY <1>2 DEF OldOrNew
  <1>4. CASE disk'[g] = disk[g]
    BY <1>3, <1>4, PlanStays
  <1>5. CASE g = f /\ disk'[f] # disk[f]
    <2>1. FileEffect(f)
      BY <1>2, FileStepEffect
    <2>2. pc[f] = "write" /\ disk'[f] = plan[f]
      BY <1>5, <2>1 DEF FileEffect, AddOperation
    <2>3. modified[f]
      BY <2>2 DEF FileInv
    <2> QED
      BY <1>5, <2>2, <2>3, PlanStays
  <1> QED
    BY <1>1, <1>4, <1>5

\* An undone file is an old one.
LEMMA UndoneIsOld ==
  ASSUME IInv, UndoOperation, NEW f \in Files \ edited
  PROVE  disk'[f] = disk[f] \/ disk'[f] = orig[f]
  <1> USE IInvParts
  <1>1. tx # NoTx /\ undo \in DOMAIN tx.ops /\ tx.id = Tx
    BY UndoInv DEF UndoOperation, ControlInv, Typed, TMInv
  <1>2. /\ tx.ops[undo].type = "modify"
        /\ tx.ops[undo].file \notin edited =>
             backups[Tx][undo] = orig[tx.ops[undo].file]
    BY <1>1 DEF OpsInv
  <1>3. disk' = disk \/ disk' = [disk EXCEPT ![tx.ops[undo].file] = backups[Tx][undo]]
    BY <1>1, <1>2 DEF UndoOperation, UndoSkip, UndoModify, UndoCreate, UndoDelete
  <1>4. disk \in [Files -> FileData]
    BY DEF Typed, TMInv, TMTypeOK
  <1> QED
    BY <1>2, <1>3, <1>4

\* The calling goroutine changes files in the rollback loop only.
LEMMA MainStepDisks ==
  ASSUME MainStep, ~UndoOperation
  PROVE  disk' = disk
  BY DEF MainStep, Start, Walk, WalkFails, SettleRollback, SettleCommit, SettlePlain,
     RollbackLoop, Begun, Settled, BeginTransaction, RollbackTransaction,
     CommitTransaction, UndoFinished, EndCall, LogWritten, LogWriteFails, tmVars

LEMMA MainStepOldOrNew ==
  ASSUME IInv, OldOrNew, MainStep
  PROVE  OldOrNew'
  <1>1. UNCHANGED <<edited, orig, plan, modified, opt>>
    BY IInvParts, MainStepEffect
  <1>2. CASE UndoOperation
    BY <1>1, <1>2, UndoneIsOld DEF OldOrNew, Transactional
  <1>3. CASE ~UndoOperation
    BY <1>1, <1>3, MainStepDisks DEF OldOrNew, Transactional
  <1> QED
    BY <1>2, <1>3

\* A crash leaves the files alone when they are written atomically.
LEMMA CrashDisk ==
  ASSUME IInv, Transactional, Crash
  PROVE  disk' = disk
  <1>1. disk' \in [Files -> FileData] /\ \A f \in Files : disk'[f] = disk[f]
    BY DEF Crash, Transactional
  <1>2. disk \in [Files -> FileData]
    BY DEF IInv, TMInv, TMTypeOK
  <1> QED
    BY <1>1, <1>2

LEMMA OtherStepOldOrNew ==
  ASSUME IInv, OldOrNew,
         (\E f \in Files : Edit(f)) \/ Crash \/ Terminated \/ UNCHANGED vars
  PROVE  OldOrNew'
  <1>1. ASSUME NEW f \in Files, Edit(f)
        PROVE  OldOrNew'
    BY <1>1, IInvParts DEF Edit, runVars, OldOrNew, Transactional, Typed, TMInv, TMTypeOK
  <1>2. CASE Crash
    BY <1>2, CrashDisk DEF Crash, runVars, OldOrNew, Transactional
  <1>3. CASE UNCHANGED vars
    BY <1>3 DEF vars, tmVars, runVars, OldOrNew, Transactional
  <1> QED
    BY <1>1, <1>2, <1>3 DEF Terminated

-----------------------------------------------------------------------------
(* The log *)

\* A file being registered or under way, or changed, has an operation with a
\* backup of the original.
LEMMA ChangedHasOperation ==
  ASSUME IInv, main = "files", Transactional, NEW f \in Files \ edited,
         pc[f] \in {"adding", "write"} \/ disk[f] # orig[f]
  PROVE  \E i \in DOMAIN tx.ops : /\ tx.ops[i].file = f /\ tx.ops[i].backup
                                  /\ backups[Tx][i] = orig[f]
  <1> USE IInvParts
  <1>1. tx # NoTx
    BY DEF ControlInv
  <1>2. Contains(f)
    BY DEF DiskInv
  <1>3. pc[f] \in {"adding", "write", "complete", "completing"} \/ Applied(f, Len(tx.ops))
    BY <1>2 DEF Contains, Written
  <1>4. PICK i \in DOMAIN tx.ops : tx.ops[i].file = f
    BY <1>1, <1>3 DEF Registration, Applied
  <1> QED
    BY <1>1, <1>4 DEF OpsInv

\* A log write that ends a method called by a goroutine.
LEMMA GoroutineLog ==
  ASSUME IInv, LogInv, main = "files", main' = "files", NEW ok \in BOOLEAN, EndCall(ok),
         NEW f \in Files, UNCHANGED <<opt, orig, edited>>,
         \A g \in Files \ {f} : pc'[g] = pc[g],
         pc'[f] = "write" => ok /\ pc[f] = "adding"
  PROVE  LogInv'
  <1> USE IInvParts
  <1>1. SUFFICES ASSUME Transactional, Loadable(Tx)'
                 PROVE  LogInv'
    BY DEF LogInv, Transactional
  <1>2. tx # NoTx /\ tx.id = Tx /\ Tx \in TxIds
    BY <1>1, TransformAssumptions DEF ControlInv
  <1>3. UNCHANGED <<tx, backups, disk>>
    BY GoroutineEndCall
  <1>4. logs \in [TxIds -> Transaction \union {NoLog, Torn}]
    BY DEF Typed, TMInv, TMTypeOK
  <1>5. CASE ok
    <2>1. logs'[Tx] = tx
      BY <1>2, <1>4, <1>5 DEF EndCall, LogWritten
    <2>2. Len(tx.ops) <= Len(tx.ops)
      BY <1>2, CurrentTx DEF Typed
    <2>3. ASSUME NEW g \in Files \ edited, pc'[g] = "write" \/ disk[g] # orig[g]
          PROVE  Logged(g)'
      <3>1. pc[g] \in {"adding", "write"} \/ disk[g] # orig[g]
        BY <2>3
      <3>2. \E i \in DOMAIN tx.ops : /\ tx.ops[i].file = g /\ tx.ops[i].backup
                                     /\ backups[Tx][i] = orig[g]
        BY <1>1, <3>1, ChangedHasOperation
      <3> QED
        BY <1>3, <2>1, <3>2 DEF Logged
    <2> QED
      BY <1>3, <2>1, <2>2, <2>3 DEF LogInv
  <1>6. CASE ~ok
    <2>1. logs' = logs \/ logs' = [logs EXCEPT ![Tx] = Torn]
      BY <1>2, <1>6 DEF EndCall, LogWriteFails
    <2>2. logs' = logs
      BY <1>1, <1>2, <1>4, <2>1 DEF Loadable
    <2>3. \A g \in Files : pc'[g] = "write" => pc[g] = "write"
      BY <1>6
    <2> QED
      BY <1>1, <1>3, <2>2, <2>3 DEF LogInv, Loadable, Logged
  <1> QED
    BY <1>5, <1>6

\* A step that leaves the log and its backups alone, and gives no file the
\* chance to change that had none.
LEMMA QuietLog ==
  ASSUME LogInv, UNCHANGED <<logs, backups, opt, orig>>,
         Transactional => main # "returned",
         tx' # NoTx => tx # NoTx /\ Len(tx'.ops) = Len(tx.ops),
         edited \subseteq edited',
         \A f \in Files \ edited' :
           pc'[f] = "write" \/ disk'[f] # orig[f] => pc[f] = "write" \/ disk[f] # orig[f]
  PROVE  LogInv'
  <1>1. SUFFICES ASSUME Transactional, Loadable(Tx)
                 PROVE  LogInv'
    BY DEF LogInv, Transactional, Loadable
  <1>2. /\ tx # NoTx => Len(logs[Tx].ops) <= Len(tx.ops)
        /\ \A f \in Files \ edited : pc[f] = "write" \/ disk[f] # orig[f] => Logged(f)
    BY <1>1 DEF LogInv
  <1>3. tx' # NoTx => Len(logs'[Tx].ops) <= Len(tx'.ops)
    BY <1>2
  <1>4. ASSUME NEW f \in Files \ edited', pc'[f] = "write" \/ disk'[f] # orig'[f]
        PROVE  Logged(f)'
    <2>1. Logged(f)
      BY <1>2, <1>4
    <2> QED
      BY <2>1 DEF Logged
  <1> QED
    BY <1>3, <1>4 DEF LogInv
\* A registration takes a new backup, none the log names.
LEMMA RegisterLog ==
  ASSUME IInv, LogInv, NEW f \in Files, Register(f)
  PROVE  LogInv'
  <1> USE IInvParts
  <1>1. /\ AddOperation("modify", f) /\ pc'[f] = "adding"
        /\ UNCHANGED <<logs, disk, main, opt, orig, edited>>
        /\ \A g \in Files \ {f} : pc'[g] = pc[g]
        /\ main = "files"
    BY DEF Register, Goto, AddOperation, fileUnchanged, runVars, Typed, TypeOK
  <1>2. SUFFICES ASSUME Transactional, Loadable(Tx)
                 PROVE  LogInv'
    BY <1>1 DEF LogInv, Transactional, Loadable
  <1>3. tx # NoTx /\ tx.id = Tx /\ Tx \in TxIds
    BY <1>1, <1>2, TransformAssumptions DEF ControlInv
  <1>4. /\ Len(logs[Tx].ops) <= Len(tx.ops)
        /\ \A g \in Files \ edited : pc[g] = "write" \/ disk[g] # orig[g] => Logged(g)
    BY <1>1, <1>2, <1>3 DEF LogInv
  <1>5. /\ Len(tx.ops) \in Nat /\ Len(tx'.ops) = Len(tx.ops) + 1
        /\ DOMAIN tx.ops = 1..Len(tx.ops)
        /\ \A i \in DOMAIN tx.ops : backups'[Tx][i] = backups[Tx][i]
    BY <1>1, <1>3, RegisterEffect
  <1>6. logs[Tx] \in Transaction
    BY <1>2, <1>3 DEF Loadable, Typed, TMInv, TMTypeOK
  <1>7. Len(logs[Tx].ops) \in Nat /\ DOMAIN logs[Tx].ops = 1..Len(logs[Tx].ops)
    BY <1>6 DEF Transaction
  <1>8. \A i \in DOMAIN logs[Tx].ops : i \in DOMAIN tx.ops
    BY <1>4, <1>5, <1>7
  <1>9. Len(logs'[Tx].ops) <= Len(tx'.ops)
    BY <1>1, <1>4, <1>5, <1>7
  <1>10. ASSUME NEW g \in Files \ edited, pc'[g] = "write" \/ disk[g] # orig[g]
         PROVE  Logged(g)'
    <2>1. Logged(g)
      BY <1>1, <1>4, <1>10
    <2> QED
      BY <1>1, <1>5, <1>8, <2>1 DEF Logged
  <1> QED
    BY <1>1, <1>9, <1>10 DEF LogInv

LEMMA FileStepLog ==
  ASSUME IInv, LogInv, NEW f \in Files, FileStep(f)
  PROVE  LogInv'
  <1> USE IInvParts
  <1>1. /\ main = "files" /\ main' = main /\ UNCHANGED <<opt, orig, edited>>
        /\ \A g \in Files \ {f} : pc'[g] = pc[g] /\ disk'[g] = disk[g]
    BY OtherFiles
  <1>2. pc \in [Files -> FilePCs]
    BY DEF Typed, TypeOK
  <1>3. CASE \/ Acquire(f) \/ ReadFails(f) \/ ReadNoChange(f) \/ ReadChange(f)
             \/ RegisterFails(f)
    <2>1. UNCHANGED <<logs, backups, tx, disk>> /\ pc'[f] # "write"
      BY <1>2, <1>3 DEF Acquire, ReadFails, ReadNoChange, ReadChange, RegisterFails,
         AddOperationFails, tmVars, Goto, FailFile, DoneFile
    <2> QED
      BY <1>1, <2>1, QuietLog
  <1>4. CASE Backup(f) \/ BackupFails(f)
    BY <1>1, <1>4 DEF Backup, BackupFails, LogInv, Transactional
  <1>5. CASE Register(f)
    BY <1>5, RegisterLog
  <1>6. ASSUME NEW ok \in BOOLEAN, Registered(f, ok)
        PROVE  LogInv'
    <2>1. EndCall(ok) /\ (pc'[f] = "write" => ok /\ pc[f] = "adding")
      BY <1>2, <1>6 DEF Registered, Goto, FailFile
    <2> QED
      BY <1>1, <2>1, GoroutineLog
  <1>7. CASE Write(f) \/ WriteFails(f)
    <2>1. /\ UNCHANGED <<logs, backups, tx>>
          /\ pc[f] = "write" /\ pc'[f] # "write"
      BY <1>2, <1>7 DEF Write, WriteFails, Goto, DoneFile
    <2> QED
      BY <1>1, <2>1, QuietLog
  <1>8. CASE Complete(f)
    <2>1. /\ UNCHANGED <<logs, backups, disk>> /\ pc'[f] # "write"
          /\ CompleteOperation(f, failed[f])
      BY <1>2, <1>8 DEF Complete, CompleteOperation, Goto
    <2>2. tx # NoTx /\ Len(tx'.ops) = Len(tx.ops)
      BY <2>1, CompletionEffect
    <2> QED
      BY <1>1, <2>1, <2>2, QuietLog
  <1>9. ASSUME NEW ok \in BOOLEAN, Completed(f, ok)
        PROVE  LogInv'
    <2>1. EndCall(ok) /\ pc'[f] # "write"
      BY <1>2, <1>9 DEF Completed, Goto, FailFile, DoneFile
    <2> QED
      BY <1>1, <2>1, GoroutineLog
  <1> QED
    BY <1>3, <1>4, <1>5, <1>6, <1>7, <1>8, <1>9 DEF FileStep

\* The first log write: nothing is changed yet.
LEMMA BegunLog ==
  ASSUME IInv, LogInv, NEW ok \in BOOLEAN, Begun(ok)
  PROVE  LogInv'
  <1> USE IInvParts
  <1>1. /\ main = "begin" /\ main' \in {"walk", "returned"} /\ (main' = "walk" => ok)
        /\ UNCHANGED <<pc, opt, orig, edited, disk, backups>> /\ EndCall(ok)
    BY DEF Begun, Return, mainUnchanged, EndCall, LogWritten, LogWriteFails
  <1>2. SUFFICES ASSUME main' = "walk"
                 PROVE  LogInv'
    BY <1>1 DEF LogInv
  <1>3. Transactional /\ call = "begin"
    BY <1>1 DEF ControlInv
  <1>4. tx # NoTx /\ tx.id = Tx /\ Tx \in TxIds
    BY <1>3, TransformAssumptions DEF ControlInv, Typed, TMInv
  <1>5. logs'[Tx] = tx
    BY <1>1, <1>2, <1>4 DEF EndCall, LogWritten, Typed, TMInv, TMTypeOK
  <1>6. tx' = tx
    BY <1>1, <1>2, <1>3 DEF EndCall, LogWritten, TxAfterCall
  <1>7. Len(tx.ops) \in Nat
    BY <1>4, CurrentTx DEF Typed
  <1>8. \A f \in Files \ edited : disk'[f] = orig'[f]
    BY <1>1, <1>3 DEF DiskInv, Contains
  <1>9. \A f \in Files : pc'[f] # "write"
    BY <1>1 DEF FileInv
  <1> QED
    BY <1>1, <1>5, <1>6, <1>7, <1>8, <1>9 DEF LogInv

LEMMA MainStepLog ==
  ASSUME IInv, LogInv, MainStep
  PROVE  LogInv'
  <1> USE IInvParts
  <1>1. UNCHANGED <<backups, edited, orig, opt>> /\ main # "returned"
    BY MainStepEffect DEF MainStep, Start, Walk, WalkFails, SettleRollback, SettleCommit,
       SettlePlain, RollbackLoop, Begun, Settled
  <1>2. /\ tx' # NoTx => \/ main = "start" /\ tx'.ops = <<>> /\ pc' = pc
                         \/ tx # NoTx /\ tx'.ops = tx.ops
        /\ pc' # pc => \A f \in Files : pc'[f] \in {"none", "queued"}
    BY MainStepEffect
  <1>3. \A f \in Files : pc'[f] = "write" => pc[f] = "write"
    BY <1>2
  <1>4. CASE Start
    <2>1. CASE Transactional
      <3>1. logs' = logs /\ logs[Tx] = NoLog
        BY <1>4, <2>1 DEF Start, BeginTransaction
      <3> QED
        BY <3>1 DEF LogInv, Loadable
    <2>2. CASE ~Transactional
      BY <1>1, <2>2 DEF LogInv, Transactional
    <2> QED
      BY <2>1, <2>2
  <1>5. ASSUME NEW ok \in BOOLEAN, Begun(ok)
        PROVE  LogInv'
    BY <1>5, BegunLog
  <1>6. CASE \/ Walk \/ WalkFails \/ SettleRollback \/ SettleCommit \/ RollbackLoop
    <2>1. logs' = logs /\ main # "start"
      BY <1>6 DEF Walk, WalkFails, SettleRollback, SettleCommit, RollbackLoop, tmVars,
         RollbackTransaction, CommitTransaction, UndoOperation, UndoFinished, ControlInv
    <2>2. tx' # NoTx => tx # NoTx /\ Len(tx'.ops) = Len(tx.ops)
      BY <1>2, <2>1
    <2>3. \A f \in Files \ edited : disk'[f] = disk[f] \/ disk'[f] = orig[f]
      BY UndoneIsOld, MainStepDisks
    <2> QED
      BY <1>1, <1>3, <2>1, <2>2, <2>3, QuietLog
  <1>7. ASSUME SettlePlain \/ \E ok \in BOOLEAN : Settled(ok)
        PROVE  LogInv'
    BY <1>7 DEF SettlePlain, Settled, Return, LogInv
  <1> QED
    BY <1>4, <1>5, <1>6, <1>7 DEF MainStep

LEMMA OtherStepLog ==
  ASSUME IInv, LogInv,
         (\E f \in Files : Edit(f)) \/ Crash \/ Terminated \/ UNCHANGED vars
  PROVE  LogInv'
  <1> USE IInvParts
  <1>1. ASSUME NEW f \in Files, Edit(f)
        PROVE  LogInv'
    <2>1. /\ UNCHANGED <<logs, backups, tx, pc, opt, orig>> /\ main # "returned"
          /\ edited' = edited \union {f}
          /\ \A g \in Files \ {f} : disk'[g] = disk[g]
      BY <1>1 DEF Edit, Running, runVars, Typed, TMInv, TMTypeOK
    <2> QED
      BY <2>1, QuietLog
  <1>2. CASE Crash
    <2>1. SUFFICES ASSUME Transactional, Loadable(Tx)'
                   PROVE  LogInv'
      BY <1>2 DEF Crash, runVars, LogInv, Transactional
    <2>2. /\ tx' = NoTx /\ main # "returned" /\ disk' = disk
          /\ UNCHANGED <<backups, pc, opt, orig, edited>>
      BY <1>2, <2>1, CrashDisk DEF Crash, TMCrash, Running, runVars
    <2>3. logs'[Tx] \in {logs[Tx], Torn}
      BY <1>2, TransformAssumptions DEF Crash, TMCrash, Typed, TMInv, TMTypeOK
    <2>4. logs'[Tx] = logs[Tx]
      BY <2>1, <2>3 DEF Loadable
    <2> QED
      BY <2>1, <2>2, <2>4 DEF LogInv, Loadable, Logged
  <1>3. CASE UNCHANGED vars
    BY <1>3 DEF vars, tmVars, runVars, LogInv, Transactional, Loadable, Logged
  <1> QED
    BY <1>1, <1>2, <1>3 DEF Terminated
-----------------------------------------------------------------------------
(* A crash *)

LEMMA CrashStepInv ==
  ASSUME "release" \notin Faults, IInv, CrashInv, [Next]_vars
  PROVE  CrashInv'
  <1>1. CASE MainStep
    BY <1>1, MainStepOldOrNew, MainStepLog DEF CrashInv
  <1>2. ASSUME NEW f \in Files, FileStep(f)
        PROVE  CrashInv'
    BY <1>2, FileStepOldOrNew, FileStepLog DEF CrashInv
  <1>3. CASE (\E f \in Files : Edit(f)) \/ Crash \/ Terminated \/ UNCHANGED vars
    BY <1>3, OtherStepOldOrNew, OtherStepLog DEF CrashInv
  <1> QED
    BY <1>1, <1>2, <1>3 DEF Next, Program

\* At every moment each file holds its old content or the planned one, and a
\* log that loads has every changed file and its backup.
THEOREM CrashInvHolds == "release" \notin Faults => (Spec => []CrashInv)
  <1> SUFFICES ASSUME "release" \notin Faults
               PROVE  Spec => []CrashInv
    OBVIOUS
  <1>1. Init => CrashInv
    BY DEF Init, TMInit, CrashInv, OldOrNew, LogInv, Loadable
  <1>2. IInv /\ CrashInv /\ [Next]_vars => CrashInv'
    BY CrashStepInv
  <1>3. Spec => []IInv
    BY Inductive
  <1> QED
    BY <1>1, <1>2, <1>3, PTL DEF Spec

\* Wherever the process dies, a changed file holds the content its goroutine
\* planned and, if the log loads and is not committed, a backup named there
\* holds what it was.
THEOREM CrashRecoverableHolds ==
  "release" \notin Faults => (Spec => []CrashRecoverable)
  <1>1. ASSUME CrashInv
        PROVE  CrashRecoverable
    BY <1>1 DEF CrashInv, OldOrNew, LogInv, Logged, CrashRecoverable
  <1> QED
    BY <1>1, CrashInvHolds, PTL

-----------------------------------------------------------------------------
(* The abstract batch *)

\* The circumstances in which the call is the abstract batch: it runs under a
\* transaction, nobody else writes its files, no lock release fails.
Undisturbed ==
  /\ "release" \notin Faults
  /\ "edit" \notin Faults
  /\ \A o \in Options : o.safe /\ ~o.dryRun

BatchInv == IInv /\ CrashInv /\ Transactional /\ edited = {}

LEMMA BatchStepInv ==
  ASSUME Undisturbed, BatchInv, [Next]_vars
  PROVE  BatchInv'
  <1> USE DEF BatchInv
  <1>1. IInv' /\ CrashInv'
    BY StepInv, CrashStepInv DEF Undisturbed
  <1>2. UNCHANGED <<opt, edited>>
    <2>1. CASE MainStep
      BY <2>1, IInvParts, MainStepEffect
    <2>2. ASSUME NEW f \in Files, FileStep(f)
          PROVE  UNCHANGED <<opt, edited>>
      BY <2>2, IInvParts, OtherFiles
    <2>3. CASE Crash \/ Terminated \/ UNCHANGED vars
      BY <2>3 DEF Crash, Terminated, vars, runVars
    <2>4. \A f \in Files : ~Edit(f)
      BY DEF Edit, Undisturbed
    <2> QED
      BY <2>1, <2>2, <2>3, <2>4 DEF Next, Program
  <1> QED
    BY <1>1, <1>2 DEF Transactional

\* A goroutine of a file makes one intent, or none.
LEMMA FileStepBatch ==
  ASSUME BatchInv, NEW f \in Files, FileStep(f)
  PROVE  [Batch!Next]_(Batch!vars)
  <1> USE IInvParts DEF BatchInv
  <1>1. /\ main = "files" /\ main' = main /\ UNCHANGED <<outcome, orig>>
        /\ \A g \in Files \ {f} : plan'[g] = plan[g] /\ modified'[g] = modified[g]
    BY OtherFiles
  <1>2. outcome = "none"
    BY <1>1 DEF ControlInv
  <1>3. UNCHANGED <<BatchStore, BatchPhase>> /\ BatchPhase = "open"
    BY <1>1, <1>2 DEF BatchStore, BatchPhase, Running
  <1>4. \A g \in Files \ {f} : BatchIntent'[g] = BatchIntent[g]
    BY <1>1 DEF BatchIntent
  <1>5. CASE modified[f]
    <2>1. \A g \in Files : modified'[g] = modified[g] /\ plan'[g] = plan[g]
      <3>1. modified'[f] /\ plan'[f] = plan[f]
        BY <1>5, PlanStays
      <3>2. modified \in [Files -> BOOLEAN] /\ modified' \in [Files -> BOOLEAN]
        BY FileStepTyped DEF Typed, TypeOK
      <3> QED
        BY <1>1, <1>5, <3>1, <3>2
    <2>2. BatchIntent' = BatchIntent
      BY <2>1 DEF BatchIntent
    <2> QED
      BY <1>3, <2>2 DEF Batch!vars
  <1>6. CASE ~modified[f]
    <2>1. BatchIntent[f] = {}
      BY <1>6 DEF BatchIntent
    <2> QED
      BY <1>3, <1>4, <2>1 DEF Batch!Next, Batch!Intend
  <1> QED
    BY <1>5, <1>6

\* How a call under a transaction returns.
LEMMA ReturnOutcome ==
  ASSUME BatchInv, MainStep, main' = "returned"
  PROVE  outcome' \in {"committed", "rolled_back", "error"}
  BY DEF BatchInv, MainStep, Start, Walk, WalkFails, SettleRollback, SettleCommit,
     SettlePlain, RollbackLoop, Begun, Settled, Return, IInv, ControlInv

\* The calling goroutine publishes, discards or abandons when it returns.
LEMMA MainStepBatch ==
  ASSUME BatchInv, BatchInv', MainStep
  PROVE  [Batch!Next]_(Batch!vars)
  <1> USE IInvParts DEF BatchInv
  <1>1. UNCHANGED <<orig, plan, modified>>
    BY MainStepEffect
  <1>2. BatchIntent' = BatchIntent
    BY <1>1 DEF BatchIntent
  <1>3. Running /\ main' # "crashed" /\ outcome = "none"
    BY DEF MainStep, Start, Walk, WalkFails, SettleRollback, SettleCommit, SettlePlain,
       RollbackLoop, Begun, Settled, Return, Running, ControlInv
  <1>4. BatchStore = orig /\ BatchPhase = "open"
    BY <1>3 DEF BatchStore, BatchPhase, Running
  <1>5. CASE main' # "returned"
    <2>1. BatchStore' = BatchStore /\ BatchPhase' = BatchPhase
      <3>1. outcome' = "none"
        BY <1>5 DEF IInv, ControlInv
      <3> QED
        BY <1>1, <1>3, <1>4, <1>5, <3>1 DEF BatchStore, BatchPhase, Running
    <2> QED
      BY <1>2, <2>1 DEF Batch!vars
  <1>6. CASE main' = "returned"
    <2>1. BatchStore' = disk' /\ BatchPhase' = outcome'
      <3>1. outcome' # "none"
        BY <1>6, ReturnOutcome
      <3> QED
        BY <1>6, <3>1 DEF BatchStore, BatchPhase, Running
    <2>2. /\ outcome' = "committed" =>
               \A f \in Files : disk'[f] = IF modified[f] THEN plan[f] ELSE orig[f]
          /\ outcome' = "rolled_back" => \A f \in Files : disk'[f] = orig[f]
      BY <1>1, <1>6 DEF IInv, DiskInv, Contains
    <2>3. \A f \in Files : disk'[f] = orig[f] \/ (modified[f] /\ disk'[f] = plan[f])
      BY <1>1 DEF CrashInv, OldOrNew
    <2>4. \A f \in Files : BatchIntent[f] = IF modified[f] THEN {plan[f]} ELSE {}
      BY DEF BatchIntent
    <2>5. CASE outcome' = "committed"
      BY <1>2, <1>4, <2>1, <2>2, <2>4, <2>5 DEF Batch!Next, Batch!Publish
    <2>6. CASE outcome' = "rolled_back"
      <3>1. disk' \in [Files -> FileData] /\ orig \in [Files -> FileData]
        BY DEF IInv, TypeOK, TMTypeOK
      <3>2. disk' = orig
        BY <2>2, <2>6, <3>1
      <3> QED
        BY <1>2, <1>4, <2>1, <2>6, <3>2 DEF Batch!Next, Batch!Discard
    <2>7. CASE outcome' = "error"
      BY <1>2, <1>4, <2>1, <2>3, <2>4, <2>7 DEF Batch!Next, Batch!Abandon
    <2> QED
      BY <1>6, <2>5, <2>6, <2>7, ReturnOutcome
  <1> QED
    BY <1>5, <1>6

\* A crash abandons the batch.
LEMMA CrashBatch ==
  ASSUME BatchInv, Crash
  PROVE  [Batch!Next]_(Batch!vars)
  <1> USE DEF BatchInv
  <1>1. /\ Running /\ main' = "crashed" /\ outcome = "none"
        /\ UNCHANGED <<modified, plan, disk>>
    BY CrashDisk DEF Crash, Running, IInv, ControlInv
  <1>2. BatchStore = orig /\ BatchPhase = "open" /\ BatchStore' = disk /\ BatchPhase' = "crashed"
    BY <1>1 DEF BatchStore, BatchPhase, Running
  <1>3. BatchIntent' = BatchIntent
    BY <1>1 DEF BatchIntent
  <1>4. \A f \in Files : disk[f] \in {orig[f]} \union BatchIntent[f]
    BY DEF CrashInv, OldOrNew, BatchIntent
  <1> QED
    BY <1>2, <1>3, <1>4 DEF Batch!Next, Batch!Abandon

LEMMA StepBatch ==
  ASSUME Undisturbed, BatchInv, BatchInv', [Next]_vars
  PROVE  [Batch!Next]_(Batch!vars)
  <1>1. ASSUME UNCHANGED vars
        PROVE  UNCHANGED Batch!vars
    BY <1>1 DEF vars, tmVars, runVars, Batch!vars, BatchStore, BatchIntent, BatchPhase, Running
  <1>2. \A f \in Files : ~Edit(f)
    BY DEF Edit, Undisturbed
  <1> QED
    BY <1>1, <1>2, FileStepBatch, MainStepBatch, CrashBatch DEF Next, Program, Terminated

\* Under a transaction, with nobody else writing and no lock release failing,
\* TransformFiles implements the abstract batch: its steps map to the choice
\* of an intent, to the one step in which all intents or none are published,
\* to an end with an error, or to nothing.
THEOREM ImplementsBatchHolds == Undisturbed => (Spec => ImplementsBatch)
  <1> SUFFICES ASSUME Undisturbed
               PROVE  Spec => ImplementsBatch
    OBVIOUS
  <1>1. Init => Batch!Init
    BY DEF Init, Batch!Init, BatchPhase, BatchIntent
  <1>2. Init => BatchInv
    <2> SUFFICES ASSUME Init
                 PROVE  BatchInv
      OBVIOUS
    <2>1. CrashInv
      BY DEF Init, TMInit, CrashInv, OldOrNew, LogInv, Loadable
    <2>2. Transactional /\ edited = {}
      BY DEF Init, Undisturbed, Transactional
    <2> QED
      BY <2>1, <2>2, InitInv DEF BatchInv
  <1>3. BatchInv /\ [Next]_vars => BatchInv'
    BY BatchStepInv
  <1>4. BatchInv /\ BatchInv' /\ [Next]_vars => [Batch!Next]_(Batch!vars)
    BY StepBatch
  <1> QED
    BY <1>1, <1>2, <1>3, <1>4, PTL DEF Spec, ImplementsBatch, Batch!Spec
=============================================================================
