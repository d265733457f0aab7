---------------------------- MODULE AtomicWriter ----------------------------
(***************************************************************************)
(* AtomicWriter of core/atomicwriter.go, on one path: goroutines of one or *)
(* more morfx processes call WriteFile, which takes two locks, a FileLock  *)
(* object that the process keeps in a map while somebody uses it, and a    *)
(* lock file created with O_EXCL; then writes <path>.morfx.tmp and renames *)
(* it over the path.                                                       *)
(*                                                                         *)
(* pc[t] is the place of thread t.  A section under lock.mu is one step,   *)
(* unless it ends with "uncount"; acquireLock's section under aw.mu is     *)
(* split before the store of refCnt++, because releaseLock decrements      *)
(* refCnt under lock.mu instead: the two accesses race.                    *)
(***************************************************************************)
EXTENDS Integers, FiniteSets

CONSTANTS
  Procs,       \* processes
  Threads,     \* goroutines; each calls WriteFile once, with its own content
  ProcOf,      \* the process of a thread
  Objects,     \* FileLock objects, numbered
  MaxInside,   \* bound: how many threads are inside WriteFile at a time
  Overlap,     \* bound: whether threads meet when several processes take part
  RaceFree,    \* the racing accesses to refCnt happen not to overlap
  WriterFaults,\* the faults of this instance
  NoFile,      \* "no such file"
  Stuck,       \* a lock file that can be neither read nor removed
  Old,         \* the content, and the inode, of the path at the start
  None         \* no object, no thread

WriterFaultKinds ==
  {"create",   \* the lock file cannot be created
   "pid",      \* writing the process id into it fails
   "body",     \* the backup, or the open of the temporary file, fails
   "temp",     \* writing the temporary file fails
   "rename",   \* the rename fails
   "remove",   \* releaseLock cannot remove the lock file
   "stuck",    \* a stuck lock file is there at the start
   "crash"}    \* a process dies

\* A lock file: who created it, and whether it holds a process id yet.
LockFiles == [by: Threads, pid: BOOLEAN]

ASSUME WriterAssumptions ==
  /\ IsFiniteSet(Threads)
  /\ ProcOf \in [Threads -> Procs]
  /\ Objects \subseteq Nat /\ Cardinality(Objects) > Cardinality(Threads)
  /\ MaxInside \in Nat /\ {RaceFree, Overlap} \subseteq BOOLEAN
  /\ WriterFaults \subseteq WriterFaultKinds
  /\ {NoFile, Stuck, Old, None} \cap (Threads \union Objects) = {}
  /\ NoFile # Old /\ {NoFile, Stuck} \cap LockFiles = {}

Inodes    == Threads \union {Old}
Data      == Threads \union {Old, "empty", "mixed"}
FileLock  == [locked: BOOLEAN, refCnt: Int, file: Threads \union {None}]

VARIABLES
  lockFile,  \* <path>.lock
  tmp,       \* the inode <path>.morfx.tmp names
  target,    \* the inode <path> names
  data,      \* what each inode holds
  entry,     \* entry[p]: aw.locks[path] of process p
  locks,     \* the FileLock objects
  alive,     \* the processes that have not died
  pc,
  lk,        \* the local variable lock
  reg,       \* the value of refCnt a thread has loaded and not yet stored
  fd,        \* the inode a thread has open as its temporary file
  open,      \* the thread's handle on its lock file is open
  expired,   \* the thread's deadline has passed
  result,    \* what WriteFile will return
  met        \* history: two threads have been inside WriteFile at once

files == <<lockFile, tmp, target, data>>
mem   == <<entry, locks>>
local == <<lk, reg, fd, open, expired, result>>
awVars == <<files, mem, alive, pc, local, met>>

Acquiring == {"count", "wait", "asleep", "try", "mark", "pid", "check", "steal", "giveup"}
Holding   == {"open", "write", "rename"}
Releasing == {"lookup", "unlock", "uncount", "drop"}
Inside    == Acquiring \union Holding \union Releasing
PCs       == Inside \union {"idle", "done", "dead"}

TypeOK ==
  /\ lockFile \in LockFiles \union {NoFile, Stuck}
  /\ tmp \in Inodes \union {NoFile}
  /\ target \in Inodes
  /\ data \in [Inodes -> Data]
  /\ entry \in [Procs -> Objects \union {None}]
  /\ locks \in [Objects -> FileLock]
  /\ alive \subseteq Procs
  /\ pc \in [Threads -> PCs]
  /\ lk \in [Threads -> Objects \union {None}]
  /\ reg \in [Threads -> Int]
  /\ fd \in [Threads -> Inodes \union {NoFile}]
  /\ open \in [Threads -> BOOLEAN]
  /\ expired \in [Threads -> BOOLEAN]
  /\ result \in [Threads -> {"none", "ok", "error"}]
  /\ met \in BOOLEAN

NewLock == [locked |-> FALSE, refCnt |-> 0, file |-> None]

Init ==
  /\ lockFile \in {NoFile} \union {Stuck : x \in WriterFaults \cap {"stuck"}}
  /\ tmp = NoFile
  /\ target = Old
  /\ data = [i \in Inodes |-> IF i = Old THEN Old ELSE "empty"]
  /\ entry = [p \in Procs |-> None]
  /\ locks = [o \in Objects |-> NewLock]
  /\ alive = Procs
  /\ pc = [t \in Threads |-> "idle"]
  /\ lk = [t \in Threads |-> None]
  /\ reg = [t \in Threads |-> 0]
  /\ fd = [t \in Threads |-> NoFile]
  /\ open = [t \in Threads |-> FALSE]
  /\ expired = [t \in Threads |-> FALSE]
  /\ result = [t \in Threads |-> "none"]
  /\ met = FALSE

-----------------------------------------------------------------------------
(* Mutexes *)

\* Nobody in p is between the load and the store of refCnt++, under aw.mu.
AwMuFree(p) == \A u \in Threads : pc[u] = "count" => ProcOf[u] # p

\* Nobody is between the load and the store of refCnt--, under lock.mu.
MuFree(o) == \A u \in Threads : pc[u] = "uncount" => lk[u] # o

\* The decrement does not overlap an increment, nor the other way round.
NoRace(o, place) ==
  RaceFree => \A u \in Threads : ~(pc[u] = place /\ lk[u] = o)

Goto(t, label) == pc' = [pc EXCEPT ![t] = label]
Fail(t) == result' = [result EXCEPT ![t] = "error"]

\* os.Remove of the lock file.
Removed == IF lockFile = Stuck THEN Stuck ELSE NoFile

-----------------------------------------------------------------------------
(* acquireLock *)

\* An object no map entry and no thread refers to: a fresh one.
Fresh == LET used == {entry[p] : p \in Procs} \union {lk[u] : u \in Threads}
         IN  CHOOSE o \in Objects \ used : \A q \in Objects \ used : o <= q

\* Find or create the entry, load refCnt.
Enter(t) ==
  LET p == ProcOf[t]
      o == IF entry[p] = None THEN Fresh ELSE entry[p]
  IN  /\ pc[t] = "idle"
      /\ Cardinality({u \in Threads : pc[u] \in Inside}) < MaxInside
      /\ ~Overlap /\ (met \/ \E u \in Threads : pc[u] \in Inside) =>
           \A u \in Threads : pc[u] = "idle" \/ ProcOf[u] = p
      /\ AwMuFree(p) /\ NoRace(o, "uncount")
      /\ entry' = [entry EXCEPT ![p] = o]
      /\ locks' = IF entry[p] = None THEN [locks EXCEPT ![o] = NewLock] ELSE locks
      /\ lk' = [lk EXCEPT ![t] = o]
      /\ reg' = [reg EXCEPT ![t] = locks'[o].refCnt]
      /\ Goto(t, "count")
      /\ UNCHANGED <<files, alive, fd, open, expired, result>>

\* Store refCnt + 1, unlock aw.mu.
Count(t) ==
  /\ pc[t] = "count"
  /\ locks' = [locks EXCEPT ![lk[t]].refCnt = reg[t] + 1]
  /\ Goto(t, "wait")
  /\ UNCHANGED <<files, entry, alive, local>>

\* for lock.locked { lock.cond.Wait() }
Wait(t) ==
  /\ pc[t] = "wait"
  /\ MuFree(lk[t])
  /\ Goto(t, IF locks[lk[t]].locked THEN "asleep" ELSE "try")
  /\ UNCHANGED <<files, mem, alive, local>>

\* The open with O_CREATE and O_EXCL.
CreateLock(t) ==
  /\ pc[t] = "try"
  /\ lockFile = NoFile
  /\ lockFile' = [by |-> t, pid |-> FALSE]
  /\ open' = [open EXCEPT ![t] = TRUE]
  /\ Goto(t, "mark")
  /\ UNCHANGED <<tmp, target, data, mem, alive, lk, reg, fd, expired, result>>

LockExists(t) ==
  /\ pc[t] = "try"
  /\ lockFile # NoFile
  /\ Goto(t, "check")
  /\ UNCHANGED <<files, mem, alive, local>>

CreateFails(t) ==
  /\ "create" \in WriterFaults
  /\ pc[t] = "try"
  /\ Fail(t) /\ Goto(t, "giveup")
  /\ UNCHANGED <<files, mem, alive, lk, reg, fd, open, expired>>

\* lock.locked = true
Mark(t) ==
  /\ pc[t] = "mark"
  /\ MuFree(lk[t])
  /\ locks' = [locks EXCEPT ![lk[t]].locked = TRUE, ![lk[t]].file = t]
  /\ Goto(t, "pid")
  /\ UNCHANGED <<files, entry, alive, local>>

\* The process id goes into the file this thread created, if it still has
\* its name; and not at all if its handle was closed.
WritePid(t) ==
  /\ pc[t] = "pid"
  /\ open[t]
  /\ lockFile' = IF lockFile = [by |-> t, pid |-> FALSE]
                 THEN [by |-> t, pid |-> TRUE] ELSE lockFile
  /\ Goto(t, "open")
  /\ UNCHANGED <<tmp, target, data, mem, alive, local>>

\* Mutant: the early return forgets releaseLock.
PidFailsKeeps(t) ==
  /\ pc[t] = "pid"
  /\ ~open[t] \/ "pid" \in WriterFaults
  /\ Fail(t) /\ Goto(t, "done")
  /\ UNCHANGED <<files, mem, alive, lk, reg, fd, open, expired>>

PidFails(t) ==
  /\ pc[t] = "pid"
  /\ ~open[t] \/ "pid" \in WriterFaults
  /\ Fail(t) /\ Goto(t, "lookup")
  /\ UNCHANGED <<files, mem, alive, lk, reg, fd, open, expired>>

\* isLockStale: the file cannot be read, holds no process id, or the id of a
\* dead process.
Stale ==
  \/ lockFile \in {NoFile, Stuck}
  \/ lockFile \in LockFiles /\ (~lockFile.pid \/ ProcOf[lockFile.by] \notin alive)

\* A lock that is not stale is tried again after a pause, until the deadline.
Check(t) ==
  /\ pc[t] = "check"
  /\ IF Stale THEN Goto(t, "steal") /\ UNCHANGED result
     ELSE IF expired[t] THEN Goto(t, "giveup") /\ Fail(t)
     ELSE Goto(t, "try") /\ UNCHANGED result
  /\ UNCHANGED <<files, mem, alive, lk, reg, fd, open, expired>>

\* Remove the lock file judged stale, whichever file now has its name.
Steal(t) ==
  /\ pc[t] = "steal"
  /\ lockFile' = Removed
  /\ Goto(t, "try")
  /\ UNCHANGED <<tmp, target, data, mem, alive, local>>

\* decrementRefCount, which does not go below zero.
GiveUp(t) ==
  LET n == locks[lk[t]].refCnt
  IN  /\ pc[t] = "giveup"
      /\ MuFree(lk[t]) /\ NoRace(lk[t], "count")
      /\ reg' = [reg EXCEPT ![t] = IF n > 0 THEN n ELSE n + 1]
      /\ Goto(t, "uncount")
      /\ UNCHANGED <<files, mem, alive, lk, fd, open, expired, result>>

\* The deadline passes.
Expire(t) ==
  /\ pc[t] \in {"try", "check", "steal"}
  /\ ~expired[t]
  /\ expired' = [expired EXCEPT ![t] = TRUE]
  /\ UNCHANGED <<files, mem, alive, pc, lk, reg, fd, open, result, met>>

-----------------------------------------------------------------------------
(* WriteFile, with the lock *)

\* Mutant: no O_TRUNC.
OpenTempKeeps(t) ==
  LET inode == IF tmp = NoFile THEN t ELSE tmp
  IN  /\ pc[t] = "open"
      /\ tmp' = inode
      /\ fd' = [fd EXCEPT ![t] = inode]
      /\ Goto(t, "write")
      /\ UNCHANGED <<lockFile, target, data, mem, alive, lk, reg, open, expired, result>>

\* Stat, back up, open the temporary file with O_CREATE and O_TRUNC.
OpenTemp(t) ==
  LET inode == IF tmp = NoFile THEN t ELSE tmp
  IN  /\ pc[t] = "open"
      /\ tmp' = inode
      /\ data' = [data EXCEPT ![inode] = "empty"]
      /\ fd' = [fd EXCEPT ![t] = inode]
      /\ Goto(t, "write")
      /\ UNCHANGED <<lockFile, target, mem, alive, lk, reg, open, expired, result>>

BodyFails(t) ==
  /\ "body" \in WriterFaults
  /\ pc[t] = "open"
  /\ Fail(t) /\ Goto(t, "lookup")
  /\ UNCHANGED <<files, mem, alive, lk, reg, fd, open, expired>>

\* The content overwrites what the inode holds from its first byte: all of
\* it or, if that is longer, part of it.
WriteTemp(t) ==
  /\ pc[t] = "write"
  /\ \E c \in {t} \union {"mixed" : x \in {data[fd[t]]} \ {"empty"}} :
       data' = [data EXCEPT ![fd[t]] = c]
  /\ Goto(t, "rename")
  /\ UNCHANGED <<lockFile, tmp, target, mem, alive, local>>

WriteTempFails(t) ==
  /\ "temp" \in WriterFaults
  /\ pc[t] = "write"
  /\ data' = [data EXCEPT ![fd[t]] = "mixed"]
  /\ tmp' = NoFile
  /\ Fail(t) /\ Goto(t, "lookup")
  /\ UNCHANGED <<lockFile, target, mem, alive, lk, reg, fd, open, expired>>

Rename(t) ==
  /\ pc[t] = "rename"
  /\ tmp # NoFile
  /\ target' = tmp
  /\ tmp' = NoFile
  /\ result' = [result EXCEPT ![t] = "ok"]
  /\ Goto(t, "lookup")
  /\ UNCHANGED <<lockFile, data, mem, alive, lk, reg, fd, open, expired>>

RenameFails(t) ==
  /\ pc[t] = "rename"
  /\ tmp = NoFile \/ "rename" \in WriterFaults
  /\ tmp' = NoFile
  /\ Fail(t) /\ Goto(t, "lookup")
  /\ UNCHANGED <<lockFile, target, data, mem, alive, lk, reg, fd, open, expired>>

-----------------------------------------------------------------------------
(* releaseLock *)

\* No entry: "already released".
Lookup(t) ==
  LET o == entry[ProcOf[t]]
  IN  /\ pc[t] = "lookup"
      /\ AwMuFree(ProcOf[t])
      /\ lk' = [lk EXCEPT ![t] = o]
      /\ Goto(t, IF o = None THEN "done" ELSE "unlock")
      /\ UNCHANGED <<files, mem, alive, reg, fd, open, expired, result>>

\* Mutant: no Broadcast.
UnlockSilent(t) ==
  LET o == lk[t]
  IN  /\ pc[t] = "unlock"
      /\ MuFree(o) /\ NoRace(o, "count")
      /\ IF locks[o].locked
         THEN /\ open' = [open EXCEPT ![locks[o].file] = FALSE]
              /\ locks' = [locks EXCEPT ![o].locked = FALSE, ![o].file = None]
              /\ \/ lockFile' = Removed /\ UNCHANGED result
                 \/ "remove" \in WriterFaults /\ UNCHANGED lockFile /\ Fail(t)
         ELSE UNCHANGED <<open, locks, lockFile, result>>
      /\ Goto(t, "uncount")
      /\ reg' = [reg EXCEPT ![t] = locks[o].refCnt]
      /\ UNCHANGED <<tmp, target, data, entry, alive, lk, fd, expired>>

\* Under lock.mu: close and remove the lock file if the object is locked,
\* whoever locked it, wake the waiters, load refCnt.
Unlock(t) ==
  LET o == lk[t]
  IN  /\ pc[t] = "unlock"
      /\ MuFree(o) /\ NoRace(o, "count")
      /\ IF locks[o].locked
         THEN /\ open' = [open EXCEPT ![locks[o].file] = FALSE]
              /\ locks' = [locks EXCEPT ![o].locked = FALSE, ![o].file = None]
              /\ \/ lockFile' = Removed /\ UNCHANGED result
                 \/ "remove" \in WriterFaults /\ UNCHANGED lockFile /\ Fail(t)
              /\ pc' = [u \in Threads |->
                          IF u = t THEN "uncount"
                          ELSE IF pc[u] = "asleep" /\ lk[u] = o THEN "wait" ELSE pc[u]]
         ELSE UNCHANGED <<open, locks, lockFile, result>> /\ Goto(t, "uncount")
      /\ reg' = [reg EXCEPT ![t] = locks[o].refCnt]
      /\ UNCHANGED <<tmp, target, data, entry, alive, lk, fd, expired>>

\* Store refCnt - 1, unlock lock.mu.  (Also the end of decrementRefCount.)
Uncount(t) ==
  LET n == reg[t] - 1
  IN  /\ pc[t] = "uncount"
      /\ locks' = [locks EXCEPT ![lk[t]].refCnt = n]
      /\ Goto(t, IF n = 0 /\ ~locks[lk[t]].locked THEN "drop" ELSE "done")
      /\ UNCHANGED <<files, entry, alive, local>>

\* Under aw.mu: delete the entry the map has now, if nobody uses it.
Drop(t) ==
  LET p == ProcOf[t]
      o == entry[p]
  IN  /\ pc[t] = "drop"
      /\ AwMuFree(p) /\ (o # None => MuFree(o))
      /\ entry' = IF o # None /\ locks[o].refCnt = 0 /\ ~locks[o].locked
                  THEN [entry EXCEPT ![p] = None] ELSE entry
      /\ Goto(t, "done")
      /\ UNCHANGED <<files, locks, alive, local>>

-----------------------------------------------------------------------------

Acquire(t) ==
  \/ Enter(t) \/ Count(t) \/ Wait(t)
  \/ CreateLock(t) \/ LockExists(t) \/ CreateFails(t)
  \/ Mark(t) \/ WritePid(t) \/ PidFails(t)
  \/ Check(t) \/ Steal(t) \/ GiveUp(t)

Hold(t) ==
  \/ OpenTemp(t) \/ BodyFails(t)
  \/ WriteTemp(t) \/ WriteTempFails(t)
  \/ Rename(t) \/ RenameFails(t)

Release(t) == Lookup(t) \/ Unlock(t) \/ Uncount(t) \/ Drop(t)

Step(t) ==
  /\ Acquire(t) \/ Hold(t) \/ Release(t)
  /\ met' = (met \/ Cardinality({u \in Threads : pc'[u] \in Inside}) > 1)

\* A process dies, between any two system calls of its threads.
Crash(p) ==
  LET gone == {t \in Threads : ProcOf[t] = p}
  IN  /\ "crash" \in WriterFaults
      /\ p \in alive
      /\ alive' = alive \ {p}
      /\ pc' = [t \in Threads |-> IF t \in gone THEN "dead" ELSE pc[t]]
      /\ lk' = [t \in Threads |-> IF t \in gone THEN None ELSE lk[t]]
      /\ entry' = [entry EXCEPT ![p] = None]
      /\ UNCHANGED <<files, locks, reg, fd, open, expired, result, met>>

Terminated == (\A t \in Threads : pc[t] \in {"done", "dead"}) /\ UNCHANGED awVars

Next ==
  \/ \E t \in Threads : Step(t) \/ Expire(t)
  \/ \E p \in Procs : Crash(p)
  \/ Terminated

Spec == Init /\ [][Next]_awVars

\* The scheduler runs every goroutine that can run, and time passes.
FairSpec ==
  Spec /\ \A t \in Threads : WF_awVars(Step(t)) /\ WF_awVars(Expire(t))

-----------------------------------------------------------------------------
(* Properties *)

Quiet == \A t \in Threads : pc[t] \notin Inside

\* However the holders of the lock stole it from each other, when nobody is
\* inside WriteFile any more no live process has left a lock file, and no
\* map an entry.  (A file left would make every later writer time out.)
LeftNothing ==
  Quiet => /\ lockFile \in LockFiles => ProcOf[lockFile.by] \notin alive
           /\ \A p \in Procs : entry[p] = None

\* The locks are sound, however they were stolen.
WriterInv == TypeOK /\ LeftNothing

\* As long as one writer has been inside at a time, with every fault and
\* crash: the path always names a whole content, the old one or one that a
\* thread has written and is returning with; what a dead or failed writer left
\* never gets in.
WholeTarget ==
  ~met => /\ data[target] \in {Old} \union Threads
          /\ \A t \in Threads : pc[t] = "lookup" /\ result[t] = "ok" => data[target] = t

\* WriteFile returns, with every fault and crash: no goroutine sleeps on the
\* condition variable of a lock nobody will release, or waits for a lock file
\* past its deadline.  The exception is a stale lock file that cannot be
\* removed: acquireLock tries again at once and never looks at the deadline.
Returns ==
  \A t \in Threads : \/ pc[t] = "count" ~> pc[t] \in {"done", "dead"}
                     \/ <>[](lockFile = Stuck) /\ []<>(pc[t] = "steal")

\* "WriteFile atomically writes content to file" (core/atomicwriter.go:55).
AtomicWrite == data[target] \in {Old} \union Threads

\* "releaseLock releases the file lock" (core/atomicwriter.go:189).
LockReleased ==
  \A t \in Threads : pc[t] = "done" /\ lockFile \in LockFiles => lockFile.by # t
=============================================================================
