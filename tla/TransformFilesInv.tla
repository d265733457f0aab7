-------------------------- MODULE TransformFilesInv --------------------------
(***************************************************************************)
(* An inductive invariant of TransformFiles that implies AllOrNothing and  *)
(* CommitNeverRefused as long as the release of a lock does not fail.  The *)
(* runs check it; TransformFilesProofs.tla proves it.                      *)
(***************************************************************************)
EXTENDS TransformFiles

\* Which method of the manager the calling goroutine can be in, and when
\* there is a transaction.
ControlInv ==
  /\ (outcome = "none") = (main # "returned")
  /\ main \in {"start", "walk", "returned", "crashed"} => call = "idle"
  /\ main = "begin" => call = "begin"
  /\ main = "files" => call \in {"idle", "add", "complete"}
  /\ main = "commit" => call = "commit"
  /\ main \in {"rollback", "unwind"} => call \in {"undo", "rollback"}
  /\ main \in {"begin", "commit", "rollback", "unwind"} => Transactional
  /\ tx # NoTx => Transactional /\ tx.id = Tx
  /\ main \in {"walk", "files"} /\ Transactional => tx # NoTx
  /\ main = "start" => tx = NoTx
  /\ main \in {"begin", "walk"} /\ tx # NoTx => tx.ops = <<>>

\* What a goroutine's place says of its file, and who is inside the manager.
FileInv ==
  /\ main \in {"start", "begin", "walk"} => \A f \in Files : pc[f] = "none"
  /\ main = "files" => \A f \in Files : f \in found <=> pc[f] # "none"
  /\ main \in {"commit", "rollback"} => \A f \in Files : pc[f] \in {"none", "done"}
  /\ \A f \in Files :
       /\ pc[f] \in {"none", "queued", "read"} => ~modified[f] /\ ~failed[f]
       /\ pc[f] \in {"register", "adding", "write", "complete", "completing"} => modified[f]
       /\ pc[f] \in {"register", "adding", "write"} => ~failed[f]
       /\ main = "files" /\ pc[f] = "adding" => call = "add"
       /\ main = "files" /\ pc[f] = "completing" => call = "complete"
  /\ \A f, g \in Files :
       pc[f] \in {"adding", "completing"} /\ pc[g] \in {"adding", "completing"} => f = g

\* The goroutine of the file of an operation is where the operation says.
OpAgrees(op) ==
  \/ pc[op.file] \in {"adding", "write", "complete"} /\ ~op.completed
  \/ pc[op.file] = "completing" /\ op.completed /\ op.err = failed[op.file]
  \/ /\ pc[op.file] = "done" /\ modified[op.file]
     /\ ~op.completed \/ op.err => failed[op.file]

\* One operation per file, each a modification with a backup of the original.
OpsInv ==
  tx # NoTx =>
    /\ \A i \in DOMAIN tx.ops :
         /\ tx.ops[i].type = "modify"
         /\ OpAgrees(tx.ops[i])
         /\ tx.ops[i].file \notin edited =>
              tx.ops[i].backup /\ backups[Tx][i] = orig[tx.ops[i].file]
    /\ \A i, j \in DOMAIN tx.ops : tx.ops[i].file = tx.ops[j].file => i = j

\* A file under way has its operation, and one that went well a clean one.
Registration ==
  tx # NoTx => \A f \in Files :
    /\ pc[f] \in {"adding", "write", "complete", "completing"} =>
         \E i \in DOMAIN tx.ops : tx.ops[i].file = f
    /\ pc[f] = "done" /\ modified[f] /\ ~failed[f] =>
         \E i \in DOMAIN tx.ops :
           tx.ops[i].file = f /\ tx.ops[i].completed /\ ~tx.ops[i].err

\* One of the first n operations has changed f.
Applied(f, n) ==
  \E i \in DOMAIN tx.ops :
    i <= n /\ tx.ops[i].file = f /\ tx.ops[i].completed /\ ~tx.ops[i].err

\* The goroutine of f has written f: it is past its write, or it is done and
\* its operation says so.
Written(f) ==
  \/ pc[f] \in {"complete", "completing"} /\ ~failed[f]
  \/ pc[f] = "done" /\ Applied(f, Len(tx.ops))

\* What file f holds.
Contains(f) ==
  /\ main \in {"start", "begin", "walk"} => disk[f] = orig[f]
  /\ main = "files" => disk[f] = IF Written(f) THEN plan[f] ELSE orig[f]
  /\ main = "commit" \/ outcome = "committed" =>
       disk[f] = IF modified[f] THEN plan[f] ELSE orig[f]
  /\ main = "rollback" /\ call = "undo" /\ ~undoErr =>
       disk[f] = IF Applied(f, undo) THEN plan[f] ELSE orig[f]
  /\ main = "rollback" /\ call = "rollback" /\ ~undoErr => disk[f] = orig[f]
  /\ outcome = "rolled_back" => disk[f] = orig[f]

DiskInv ==
  /\ Transactional => \A f \in Files \ edited : Contains(f)
  /\ orig \in [Files -> Contents]
  /\ outcome \in {"committed", "rolled_back"} => Transactional

IInv ==
  /\ TypeOK
  /\ TMInv
  /\ ControlInv
  /\ FileInv
  /\ OpsInv
  /\ Registration
  /\ DiskInv

-----------------------------------------------------------------------------
(* For CrashRecoverable and ImplementsBatch, at every moment of a call *)

\* A file holds its old content, or the one its goroutine planned.
OldOrNew ==
  Transactional => \A f \in Files \ edited :
    disk[f] = orig[f] \/ (modified[f] /\ disk[f] = plan[f])

\* The log on disk names f and a backup of its old content.
Logged(f) ==
  \E i \in DOMAIN logs[Tx].ops :
    /\ logs[Tx].ops[i].file = f /\ logs[Tx].ops[i].backup
    /\ backups[Tx][i] = orig[f]

\* A file is in the log, if that loads, from before its write to the end;
\* and no backup the log names is one that is still to be taken.
LogInv ==
  Transactional /\ main # "returned" /\ Loadable(Tx) =>
    /\ tx # NoTx => Len(logs[Tx].ops) <= Len(tx.ops)
    /\ \A f \in Files \ edited : pc[f] = "write" \/ disk[f] # orig[f] => Logged(f)

CrashInv == OldOrNew /\ LogInv
=============================================================================
