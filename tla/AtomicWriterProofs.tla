------------------------- MODULE AtomicWriterProofs -------------------------
(***************************************************************************)
(* What AtomicWriter promises, for any number of processes, goroutines and *)
(* lock objects.  Two invariants that do not need each other:              *)
(*                                                                         *)
(*  WholeTarget, under every fault.  TargetInv follows the one writer that *)
(*  is inside: until it opens its temporary file, the inode it will create *)
(*  has no name, so that what it writes cannot be under the path; from     *)
(*  then on its temporary file is the one <path>.morfx.tmp names.          *)
(*                                                                         *)
(*  WriterInv, under every fault but the failure of os.Remove, and without *)
(*  the race on refCnt.  LocksInv says why a map entry stays as long as a  *)
(*  thread uses it and no longer (EntryInv), that refCnt counts those      *)
(*  threads (CountInv), and that a locked object, and the lock file of a   *)
(*  live process, belong to a thread that has yet to unlock (LockInv).     *)
(*  A stolen lock file is no exception: then it is another's, or no, file. *)
(***************************************************************************)
EXTENDS AtomicWriter, FiniteSetTheorems, WellFoundedInduction, TLAPS

-----------------------------------------------------------------------------
(* One writer at a time *)

\* Where a thread has not opened its temporary file yet.
Early == {"idle"} \union Acquiring \union {"open"}

Alone == \A t, u \in Threads : pc[t] \in Inside /\ pc[u] \in Inside => t = u

\* The inode of a thread that has not opened it is not there; the temporary
\* file of the thread that writes is its own, and nobody else's target.
TargetOK(t) ==
  /\ t \in {tmp, target} => pc[t] \notin Early
  /\ pc[t] \in {"write", "rename"} => fd[t] = tmp /\ tmp # NoFile
  /\ pc[t] = "write" => data[tmp] = "empty"
  /\ pc[t] = "rename" => data[tmp] = t
  /\ pc[t] = "lookup" /\ result[t] = "ok" => data[target] = t
  /\ pc[t] \in Early \ {"giveup"} => result[t] = "none"

TargetInv ==
  ~met =>
    /\ Alone
    /\ data[target] \in {Old} \union Threads /\ tmp # target
    /\ \A t \in Threads : TargetOK(t)

FileTypes ==
  /\ tmp \in Inodes \union {NoFile} /\ target \in Inodes
  /\ data \in [Inodes -> Data]
  /\ pc \in [Threads -> PCs]
  /\ fd \in [Threads -> Inodes \union {NoFile}]
  /\ result \in [Threads -> {"none", "ok", "error"}]
  /\ met \in BOOLEAN

\* The inode t writes, if it writes, is there.
FdInv == \A t \in Threads : pc[t] \in {"write", "rename"} => fd[t] \in Inodes

\* A set that does not have two elements.
LEMMA AtMostOne ==
  ASSUME NEW S, IsFiniteSet(S), ~(Cardinality(S) > 1), NEW x \in S, NEW y \in S
  PROVE  x = y
<1>1. SUFFICES ASSUME x # y PROVE FALSE
  OBVIOUS
<1>2. IsFiniteSet({x}) /\ Cardinality({x}) = 1
  BY FS_Singleton
<1>a. y \notin {x}
  BY <1>1
<1>b. Cardinality({x} \cup {y}) = Cardinality({x}) + 1
  BY <1>2, <1>a, FS_AddElement
<1>3. Cardinality({x} \cup {y}) = 2
  BY <1>2, <1>b
<1>c. {x} \cup {y} \subseteq S
  OBVIOUS
<1>4. Cardinality({x} \cup {y}) <= Cardinality(S) /\ Cardinality(S) \in Nat
  BY <1>c, FS_Subset, FS_CardinalityType
<1>5. QED  BY <1>3, <1>4

\* What a step of a thread does to the files, to the places and the results.
LEMMA FileTypesStep ==
  ASSUME WriterAssumptions, FileTypes, FdInv, [Next]_awVars
  PROVE  FileTypes' /\ FdInv'
<1> USE DEF FileTypes, FdInv
<1>1. \A t \in Threads : t \in Inodes /\ t \in Data /\ Old \in Inodes /\ NoFile \notin Inodes
  BY DEF WriterAssumptions, Inodes, Data
<1>2. {"empty", "mixed"} \subseteq Data
  BY DEF Data
<1>3. /\ Inside \subseteq PCs /\ {"done", "dead"} \subseteq PCs
      /\ {"count", "wait", "asleep", "try", "mark", "pid", "check", "steal", "giveup",
          "open", "write", "rename", "lookup", "unlock", "uncount", "drop"} \subseteq Inside
  BY DEF Inside, Acquiring, Holding, Releasing, PCs
<1>4. ASSUME NEW t \in Threads, Acquire(t) \/ Hold(t) \/ Release(t), met' \in BOOLEAN
      PROVE  FileTypes' /\ FdInv'
  <2>1. CASE Enter(t) \/ Count(t) \/ Wait(t) \/ CreateLock(t) \/ LockExists(t) \/ CreateFails(t)
    BY <1>1, <1>3, <1>4, <2>1 DEF Enter, Count, Wait, CreateLock, LockExists, CreateFails, Goto, Fail,
       files, mem, local
  <2>2. CASE Mark(t) \/ WritePid(t) \/ PidFails(t) \/ Check(t) \/ Steal(t) \/ GiveUp(t)
    BY <1>1, <1>3, <1>4, <2>2 DEF Mark, WritePid, PidFails, Check, Steal, GiveUp, Goto, Fail,
       files, mem, local
  <2>3. CASE OpenTemp(t)
    BY <1>1, <1>2, <1>3, <1>4, <2>3 DEF OpenTemp, Goto
  <2>4. CASE BodyFails(t)
    BY <1>1, <1>2, <1>3, <1>4, <2>4 DEF BodyFails, Goto, Fail, files
  <2>5. CASE WriteTemp(t)
    <3>1. PICK c \in {t, "mixed"} : data' = [data EXCEPT ![fd[t]] = c]
      BY <2>5 DEF WriteTemp
    <3>2. c \in Data
      BY <1>1, <1>2, <3>1
    <3>3. QED  BY <1>1, <1>3, <1>4, <2>5, <3>1, <3>2 DEF WriteTemp, Goto, local
  <2>6. CASE WriteTempFails(t)
    BY <1>1, <1>2, <1>3, <1>4, <2>6 DEF WriteTempFails, Goto, Fail
  <2>7. CASE Rename(t) \/ RenameFails(t)
    BY <1>1, <1>2, <1>3, <1>4, <2>7 DEF Rename, RenameFails, Goto, Fail
  <2>8. CASE Lookup(t) \/ Uncount(t) \/ Drop(t)
    BY <1>1, <1>3, <1>4, <2>8 DEF Lookup, Uncount, Drop, Goto, files, local
  <2>9. CASE Unlock(t)
    <3>1. pc' \in [Threads -> PCs] /\ \A u \in Threads : pc'[u] \in {"write", "rename"} => pc[u] = pc'[u]
      BY <1>3, <2>9 DEF Unlock, Goto
    <3>2. result' \in [Threads -> {"none", "ok", "error"}]
      BY <2>9 DEF Unlock, Fail
    <3>3. UNCHANGED <<tmp, target, data, fd>>
      BY <2>9 DEF Unlock
    <3>4. QED  BY <1>4, <3>1, <3>2, <3>3
  <2>10. QED  BY <1>4, <2>1, <2>2, <2>3, <2>4, <2>5, <2>6, <2>7, <2>8, <2>9 DEF Acquire, Hold, Release
<1>5. ASSUME NEW t \in Threads, Expire(t) PROVE FileTypes' /\ FdInv'
  BY <1>5 DEF Expire, files
<1>6. ASSUME NEW p \in Procs, Crash(p) PROVE FileTypes' /\ FdInv'
  BY <1>3, <1>6 DEF Crash, files
<1>7. CASE UNCHANGED awVars
  BY <1>7 DEF awVars, files, local
<1>8. QED  BY <1>4, <1>5, <1>6, <1>7 DEF Next, Step, Terminated

\* The others stay outside.
LEMMA OthersOutside ==
  ASSUME WriterAssumptions, FileTypes, TargetInv, ~met', NEW t \in Threads, Step(t)
  PROVE  /\ ~met
         /\ \A u \in Threads \ {t} : /\ pc[u] \notin Inside /\ pc'[u] = pc[u]
                                     /\ result'[u] = result[u] /\ fd'[u] = fd[u]
         /\ Alone'
<1>1. ~met /\ Alone
  BY DEF Step, TargetInv
<1>2. Alone'
  <2>1. PICK S : S = {u \in Threads : pc'[u] \in Inside} /\ ~(Cardinality(S) > 1)
    BY DEF Step
  <2>2. IsFiniteSet(S)
    BY <2>1, FS_Subset DEF WriterAssumptions
  <2>3. QED  BY <2>1, <2>2, AtMostOne DEF Alone
<1>3. /\ pc[t] \in Inside \/ Enter(t)
      /\ \A u \in Threads \ {t} : pc'[u] = pc[u] \/ (pc[u] = "asleep" /\ Unlock(t))
      /\ \A u \in Threads \ {t} : result'[u] = result[u] /\ fd'[u] = fd[u]
  <2> USE DEF FileTypes
  <2>1. CASE Acquire(t)
    BY <2>1 DEF Acquire, Enter, Count, Wait, CreateLock, LockExists, CreateFails, Mark, WritePid,
       PidFails, Check, Steal, GiveUp, Goto, Fail, local, Inside, Acquiring
  <2>2. CASE Hold(t)
    BY <2>2 DEF Hold, OpenTemp, BodyFails, WriteTemp, WriteTempFails, Rename, RenameFails, Goto, Fail,
       local, Inside, Holding
  <2>3. CASE Lookup(t) \/ Uncount(t) \/ Drop(t)
    BY <2>3 DEF Lookup, Uncount, Drop, Goto, local, Inside, Releasing
  <2>4. CASE Unlock(t)
    BY <2>4 DEF Unlock, Goto, Fail, Inside, Releasing
  <2>5. QED  BY <2>1, <2>2, <2>3, <2>4 DEF Step, Release
<1>4. CASE pc[t] \in Inside
  <2>1. \A u \in Threads \ {t} : pc[u] \notin Inside
    BY <1>1, <1>4 DEF Alone
  <2>2. "asleep" \in Inside
    BY DEF Inside, Acquiring
  <2>3. QED  BY <1>1, <1>2, <1>3, <2>1, <2>2
<1>5. CASE Enter(t)
  <2>1. pc'[t] = "count" /\ "count" \in Inside /\ pc[t] = "idle" /\ "unlock" # "idle"
    BY <1>5 DEF Enter, Goto, FileTypes, Inside, Acquiring
  <2>2. \A u \in Threads \ {t} : pc'[u] \notin Inside /\ pc'[u] = pc[u]
    BY <1>2, <1>3, <2>1 DEF Alone, Unlock
  <2>3. QED  BY <1>1, <1>2, <1>3, <2>2
<1>6. QED  BY <1>3, <1>4, <1>5

\* The step of the only writer.
LEMMA OwnTarget ==
  ASSUME WriterAssumptions, FileTypes, FdInv, TargetInv, ~met', NEW t \in Threads, Step(t)
  PROVE  /\ data'[target'] \in {Old} \union Threads /\ tmp' # target'
         /\ TargetOK(t)'
         /\ tmp' \in {tmp, NoFile, t} /\ target' \in {target, tmp}
<1>1. /\ TargetOK(t) /\ data[target] \in {Old} \union Threads /\ tmp # target
      /\ target \in Inodes /\ NoFile \notin Inodes /\ Old \notin Threads
      /\ t \in Inodes /\ ("mixed" \in {"mixed"}) /\ fd[t] \in Inodes \union {NoFile}
      /\ data \in [Inodes -> Data] /\ pc \in [Threads -> PCs]
      /\ fd \in [Threads -> Inodes \union {NoFile}]
      /\ result \in [Threads -> {"none", "ok", "error"}]
  BY OthersOutside DEF TargetInv, FileTypes, WriterAssumptions, Inodes
<1> USE DEF TargetOK, Early, Acquiring
<1>2. CASE Acquire(t)
  <2>1. UNCHANGED <<tmp, target, data, fd>>
    BY <1>2 DEF Acquire, Enter, Count, Wait, CreateLock, LockExists, CreateFails, Mark, WritePid,
       PidFails, Check, Steal, GiveUp, files, local
  <2>2. pc[t] \in Early
    BY <1>2 DEF Acquire, Enter, Count, Wait, CreateLock, LockExists, CreateFails, Mark, WritePid,
       PidFails, Check, Steal, GiveUp
  <2>3. CASE result' = result /\ pc[t] # "giveup" /\ pc'[t] \in Early
    BY <1>1, <2>1, <2>2, <2>3
  <2>4. CASE result'[t] = "error" /\ pc'[t] \in {"giveup", "lookup"}
    BY <1>1, <2>1, <2>2, <2>4
  <2>5. CASE pc'[t] = "uncount"
    BY <1>1, <2>1, <2>2, <2>5
  <2>6. CASE Enter(t) \/ Count(t) \/ Wait(t) \/ CreateLock(t) \/ LockExists(t)
    <3>1. result' = result
      BY <2>6 DEF Enter, Count, Wait, CreateLock, LockExists, local
    <3>2. pc[t] # "giveup" /\ pc'[t] \in Early
      BY <1>1, <2>6 DEF Enter, Count, Wait, CreateLock, LockExists, Goto
    <3>3. QED  BY <2>3, <3>1, <3>2
  <2>9. CASE CreateFails(t)
    BY <1>1, <2>4, <2>9 DEF CreateFails, Goto, Fail
  <2>7. CASE Mark(t) \/ WritePid(t) \/ Steal(t)
    <3>1. result' = result
      BY <2>7 DEF Mark, WritePid, Steal, local
    <3>2. pc[t] # "giveup" /\ pc'[t] \in Early
      BY <1>1, <2>7 DEF Mark, WritePid, Steal, Goto
    <3>3. QED  BY <2>3, <3>1, <3>2
  <2>10. CASE PidFails(t)
    BY <1>1, <2>4, <2>10 DEF PidFails, Goto, Fail
  <2>11. CASE Check(t)
    <3>1. /\ pc[t] = "check"
          /\ \/ result' = result /\ pc'[t] \in {"steal", "try"}
             \/ result'[t] = "error" /\ pc'[t] = "giveup"
      BY <1>1, <2>11 DEF Check, Goto, Fail
    <3>2. QED  BY <2>3, <2>4, <3>1
  <2>12. CASE GiveUp(t)
    <3>1. pc' = [pc EXCEPT ![t] = "uncount"]
      BY <2>12 DEF GiveUp, Goto
    <3>2. QED  BY <1>1, <2>5, <3>1
  <2>8. QED  BY <1>2, <2>6, <2>7, <2>9, <2>10, <2>11, <2>12 DEF Acquire
<1>3. CASE OpenTemp(t)
  <2>1. PICK inode \in Inodes :
          /\ inode \in {t, tmp} /\ inode # NoFile /\ tmp' = inode
          /\ data' = [data EXCEPT ![inode] = "empty"] /\ fd' = [fd EXCEPT ![t] = inode]
    BY <1>1, <1>3 DEF OpenTemp, FileTypes
  <2>2. pc[t] = "open" /\ pc' = [pc EXCEPT ![t] = "write"] /\ UNCHANGED target
    BY <1>3 DEF OpenTemp, Goto
  <2>3. inode # target
    BY <1>1, <2>1, <2>2
  <2>4. data'[target] = data[target] /\ data'[inode] = "empty" /\ fd'[t] = inode /\ pc'[t] = "write"
    BY <1>1, <2>1, <2>2, <2>3
  <2>5. QED  BY <1>1, <2>1, <2>2, <2>3, <2>4
<1>4. CASE BodyFails(t)
  BY <1>1, <1>4 DEF BodyFails, Goto, Fail, files
<1>5. CASE WriteTemp(t)
  <2>1. data[fd[t]] = "empty" /\ fd[t] = tmp /\ tmp # NoFile /\ tmp \in Inodes
    BY <1>1, <1>5 DEF WriteTemp, FileTypes
  <2>2. data' = [data EXCEPT ![tmp] = t]
    <3>1. PICK c \in {t} \union {"mixed" : x \in {data[fd[t]]} \ {"empty"}} :
            data' = [data EXCEPT ![fd[t]] = c]
      BY <1>5 DEF WriteTemp
    <3>2. {data[fd[t]]} \ {"empty"} = {}
      BY <2>1
    <3>3. c = t
      BY <3>1, <3>2
    <3>4. QED  BY <2>1, <3>1, <3>3
  <2>3. QED  BY <1>1, <1>5, <2>1, <2>2 DEF WriteTemp, Goto, local
<1>6. CASE WriteTempFails(t)
  BY <1>1, <1>6 DEF WriteTempFails, Goto, Fail
<1>7. CASE Rename(t)
  BY <1>1, <1>7 DEF Rename, Goto
<1>8. CASE RenameFails(t)
  BY <1>1, <1>8 DEF RenameFails, Goto, Fail
<1>9. CASE Lookup(t) \/ Uncount(t) \/ Drop(t)
  BY <1>1, <1>9 DEF Lookup, Uncount, Drop, Goto, files, local
<1>10. CASE Unlock(t)
  <2>1. UNCHANGED <<tmp, target, data>> /\ pc'[t] = "uncount"
    BY <1>1, <1>10 DEF Unlock, Goto
  <2>2. QED  BY <1>1, <1>10, <2>1 DEF Unlock
<1>11. QED
  BY <1>2, <1>3, <1>4, <1>5, <1>6, <1>7, <1>8, <1>9, <1>10 DEF Step, Hold, Release

\* Every step keeps TargetInv.
LEMMA TargetStep ==
  ASSUME WriterAssumptions, FileTypes, FdInv, TargetInv, [Next]_awVars
  PROVE  TargetInv'
<1>1. SUFFICES ASSUME ~met'
               PROVE  /\ Alone'
                      /\ data'[target'] \in {Old} \union Threads /\ tmp' # target'
                      /\ \A t \in Threads : TargetOK(t)'
  BY DEF TargetInv
<1>2. ASSUME NEW t \in Threads, Step(t)
      PROVE  /\ Alone'
             /\ data'[target'] \in {Old} \union Threads /\ tmp' # target'
             /\ \A u \in Threads : TargetOK(u)'
  <2>1. /\ \A u \in Threads \ {t} : /\ pc[u] \notin Inside /\ pc'[u] = pc[u]
                                    /\ result'[u] = result[u]
        /\ Alone' /\ ~met
    BY <1>1, <1>2, OthersOutside
  <2>2. /\ data'[target'] \in {Old} \union Threads /\ tmp' # target'
        /\ TargetOK(t)'
        /\ tmp' \in {tmp, NoFile, t} /\ target' \in {target, tmp}
    BY <1>1, <1>2, OwnTarget
  <2>3. ASSUME NEW u \in Threads \ {t} PROVE TargetOK(u)'
    <3>1. TargetOK(u) /\ pc[u] \in {"idle", "done", "dead"} /\ u # NoFile
      BY <2>1 DEF TargetInv, FileTypes, PCs, WriterAssumptions
    <3>2. u \in {tmp', target'} => u \in {tmp, target}
      BY <2>2, <3>1
    <3>3. QED  BY <2>1, <3>1, <3>2 DEF TargetOK
  <2>4. QED  BY <2>1, <2>2, <2>3
<1>3. ASSUME NEW p \in Procs, Crash(p)
      PROVE  /\ Alone'
             /\ data'[target'] \in {Old} \union Threads /\ tmp' # target'
             /\ \A u \in Threads : TargetOK(u)'
  <2>1. /\ UNCHANGED <<tmp, target, data, fd, result, met>>
        /\ \A u \in Threads : pc'[u] \in {pc[u], "dead"}
    BY <1>3 DEF Crash, files, FileTypes
  <2>2. "dead" \notin Inside /\ "dead" \notin Early
    BY DEF Inside, Early, Acquiring, Holding, Releasing
  <2>3. TargetInv /\ ~met
    BY <1>1, <2>1
  <2>4. QED  BY <2>1, <2>2, <2>3 DEF TargetInv, TargetOK, Alone
<1>4. CASE (\E t \in Threads : Expire(t)) \/ UNCHANGED awVars
  <2>1. UNCHANGED <<tmp, target, data, pc, fd, result, met>>
    BY <1>4 DEF Expire, awVars, files, local
  <2>2. QED  BY <1>1, <2>1 DEF TargetInv, TargetOK, Alone
<1>5. QED  BY <1>2, <1>3, <1>4 DEF Next, Terminated

\* It holds at the start.
LEMMA TargetInit ==
  ASSUME WriterAssumptions, Init
  PROVE  FileTypes /\ FdInv /\ TargetInv
<1>1. /\ tmp = NoFile /\ target = Old /\ data = [i \in Inodes |-> IF i = Old THEN Old ELSE "empty"]
      /\ pc = [t \in Threads |-> "idle"] /\ fd = [t \in Threads |-> NoFile]
      /\ result = [t \in Threads |-> "none"] /\ met = FALSE
  BY DEF Init
<1>2. Old \in Inodes /\ "idle" \notin Inside /\ NoFile # Old /\ {NoFile, Old} \cap Threads = {}
  BY DEF WriterAssumptions, Inodes, Inside, Acquiring, Holding, Releasing
<1>3. FileTypes /\ FdInv
  BY <1>1, <1>2 DEF FileTypes, FdInv, Data, PCs, Inodes
<1>4. TargetInv
  BY <1>1, <1>2 DEF TargetInv, TargetOK, Alone
<1>5. QED  BY <1>3, <1>4

\* As long as one writer has been inside at a time, with every fault and
\* crash, and whatever the race on refCnt does: the path names a whole
\* content, the old one or that of a thread that has written it, and a
\* WriteFile that is returning nil has written its own.
THEOREM WholeTargetHolds == Spec => []WholeTarget
<1> DEFINE I == FileTypes /\ FdInv /\ TargetInv
<1>1. Init => I
  BY TargetInit, WriterAssumptions
<1>2. I /\ [Next]_awVars => I'
  BY FileTypesStep, TargetStep, WriterAssumptions
<1>3. I => WholeTarget
  BY DEF TargetInv, TargetOK, WholeTarget
<1>4. QED  BY <1>1, <1>2, <1>3, PTL DEF Spec

-----------------------------------------------------------------------------
(* The locks *)

\* Where a thread uses its lock object, where refCnt counts it, and where it
\* has marked the object and not unlocked it.
Using   == Inside \ {"drop"}
Counted == Using \ {"count"}
Past    == {"pid"} \union Holding \union {"lookup", "unlock"}

Counting(o) == {u \in Threads : pc[u] \in Counted /\ lk[u] = o}

\* The entry of a process is the object its threads use, and is there only
\* while one of them is inside.
EntryInv ==
  /\ \A t \in Threads : pc[t] \in Using => lk[t] # None /\ lk[t] = entry[ProcOf[t]]
  /\ \A p, q \in Procs : entry[p] # None /\ entry[p] = entry[q] => p = q
  /\ \A p \in Procs : entry[p] # None =>
       \E t \in Threads : ProcOf[t] = p /\ lk[t] = entry[p] /\ pc[t] \in Inside
  /\ \A t \in Threads : pc[t] = "idle" => lk[t] = None
  /\ \A t \in Threads : pc[t] # "dead" => ProcOf[t] \in alive

\* refCnt is the number of the threads it counts, as loaded by the one thread
\* that is about to store it.
CountInv ==
  /\ \A p \in Procs : entry[p] # None => locks[entry[p]].refCnt = Cardinality(Counting(entry[p]))
  /\ \A t \in Threads : pc[t] \in {"count", "uncount"} => reg[t] = locks[lk[t]].refCnt
  /\ \A t, u \in Threads :
       pc[t] \in {"count", "uncount"} /\ pc[u] \in {"count", "uncount"} /\ lk[t] = lk[u] => t = u

\* A locked object has somebody who will unlock it, and so has the file of a
\* live process.
LockInv ==
  /\ \A p \in Procs : entry[p] # None /\ locks[entry[p]].locked =>
       \E t \in Threads : locks[entry[p]].file = t /\ pc[t] \in Past /\ lk[t] = entry[p]
  /\ lockFile \in LockFiles /\ ProcOf[lockFile.by] \in alive =>
       \/ pc[lockFile.by] = "mark"
       \/ pc[lockFile.by] \in Past /\ locks[lk[lockFile.by]].locked

LocksInv == EntryInv /\ CountInv /\ LockInv

WriterInductive == TypeOK /\ FdInv /\ LocksInv

\* The places of a thread, listed.
LEMMA Places ==
  /\ Inside = {"count", "wait", "asleep", "try", "mark", "pid", "check", "steal", "giveup",
               "open", "write", "rename", "lookup", "unlock", "uncount", "drop"}
  /\ Using = {"count", "wait", "asleep", "try", "mark", "pid", "check", "steal", "giveup",
              "open", "write", "rename", "lookup", "unlock", "uncount"}
  /\ Counted = {"wait", "asleep", "try", "mark", "pid", "check", "steal", "giveup",
                "open", "write", "rename", "lookup", "unlock", "uncount"}
  /\ Past = {"pid", "open", "write", "rename", "lookup", "unlock"}
  /\ PCs = {"count", "wait", "asleep", "try", "mark", "pid", "check", "steal", "giveup",
            "open", "write", "rename", "lookup", "unlock", "uncount", "drop",
            "idle", "done", "dead"}
BY DEF Inside, Using, Counted, Past, PCs, Acquiring, Holding, Releasing

\* A set of natural numbers has a smallest element.
LEMMA Smallest ==
  ASSUME NEW S \in SUBSET Nat, S # {}
  PROVE  \E n \in S : \A m \in S : n <= m
<1> DEFINE R == StrictSubsetOrdering(Nat)
           T == {0 .. n : n \in S}
<1>1. T \subseteq FiniteSubsetsOf(Nat)
  <2>1. ASSUME NEW n \in S PROVE (0 .. n) \in FiniteSubsetsOf(Nat)
    <3>1. IsFiniteSet(0 .. n)
      BY FS_Interval
    <3>2. 0 .. n \subseteq Nat
      OBVIOUS
    <3>3. QED  BY <3>1, <3>2 DEF FiniteSubsetsOf
  <2>2. QED  BY <2>1
<1>2. T # {}
  OBVIOUS
<1>3. PICK X \in T : \A Y \in T : ~ (<<Y, X>> \in R)
  <2>1. IsWellFoundedOn(R, FiniteSubsetsOf(Nat))
    BY FS_StrictSubsetOrderingWellFounded
  <2>2. QED  BY <1>1, <1>2, <2>1, WFMin
<1>4. PICK n \in S : X = 0 .. n
  BY <1>3
<1>5. ASSUME NEW m \in S, m < n PROVE FALSE
  <2>1. 0 .. m \subseteq 0 .. n /\ n \notin 0 .. m /\ n \in 0 .. n
    BY <1>5
  <2>2. 0 .. m \in SUBSET Nat /\ 0 .. n \in SUBSET Nat
    OBVIOUS
  <2>3. <<0 .. m, 0 .. n>> \in R
    BY <2>1, <2>2 DEF StrictSubsetOrdering
  <2>4. QED  BY <1>3, <1>4, <2>3
<1>6. QED  BY <1>5

\* There are more objects than threads, so that one is fresh.
LEMMA FreshObject ==
  ASSUME WriterAssumptions, TypeOK, EntryInv
  PROVE  /\ Fresh \in Objects
         /\ \A p \in Procs : entry[p] # Fresh
         /\ \A u \in Threads : lk[u] # Fresh
<1> DEFINE L == {lk[u] : u \in Threads}
           used == {entry[p] : p \in Procs} \union L
<1>1. IsFiniteSet(L) /\ Cardinality(L) <= Cardinality(Threads)
  <2>1. lk \in Surjection(Threads, L)
    BY DEF TypeOK, Surjection
  <2>2. IsFiniteSet(Threads)
    BY DEF WriterAssumptions
  <2>3. QED  BY <2>1, <2>2, FS_Surjection
<1>2. used \subseteq L \union {None}
  BY DEF EntryInv
<1>3. Objects \ used # {}
  <2>1. SUFFICES ASSUME Objects \subseteq used PROVE FALSE
    OBVIOUS
  <2>2. Objects \in SUBSET L
    BY <1>2, <2>1 DEF WriterAssumptions
  <2>3. Cardinality(Objects) <= Cardinality(L) /\ IsFiniteSet(Objects)
    BY <1>1, <2>2, FS_Subset
  <2>4. /\ Cardinality(Objects) \in Nat /\ Cardinality(L) \in Nat
        /\ Cardinality(Threads) \in Nat /\ Cardinality(Objects) > Cardinality(Threads)
    BY <1>1, <2>3, FS_CardinalityType DEF WriterAssumptions
  <2>5. QED  BY <1>1, <2>3, <2>4
<1>4. \E o \in Objects \ used : \A q \in Objects \ used : o <= q
  BY <1>3, Smallest DEF WriterAssumptions
<1>5. Fresh \in Objects \ used
  BY <1>4, Zenon DEF Fresh
<1>6. QED  BY <1>5

\* A thread that uses its object has one: the entry of its process.
LEMMA LkObject ==
  ASSUME WriterAssumptions, TypeOK, EntryInv, NEW t \in Threads, pc[t] \in Using
  PROVE  /\ lk[t] \in Objects /\ lk[t] # None /\ lk[t] = entry[ProcOf[t]]
         /\ ProcOf[t] \in Procs /\ ProcOf[t] \in alive
<1>1. pc[t] # "dead"
  BY Places
<1>2. QED  BY <1>1 DEF WriterAssumptions, TypeOK, EntryInv

\* Two threads that use the same object are of the same process.
LEMMA SameProcess ==
  ASSUME WriterAssumptions, TypeOK, EntryInv,
         NEW p \in Procs, NEW t \in Threads, pc[t] \in Using, lk[t] = entry[p]
  PROVE  ProcOf[t] = p
BY LkObject DEF EntryInv

-----------------------------------------------------------------------------
(* Steps that leave a part of the invariant alone *)

\* EntryInv is about the places, the entries and the processes only.
LEMMA EntryKept ==
  ASSUME WriterAssumptions, EntryInv, UNCHANGED <<entry, lk, alive>>,
         \A u \in Threads : /\ pc'[u] \in Using => pc[u] \in Using
                            /\ pc[u] \in Inside => pc'[u] \in Inside
                            /\ pc'[u] = "idle" => pc[u] = "idle"
                            /\ pc'[u] # "dead" => pc[u] # "dead"
  PROVE  EntryInv'
BY DEF EntryInv

\* CountInv survives a step in which nobody becomes, or stops being, counted; a
\* thread may load refCnt if no other is about to store it.
LEMMA CountKept ==
  ASSUME WriterAssumptions, TypeOK, EntryInv, CountInv, UNCHANGED <<entry, lk>>,
         \A o \in Objects : locks'[o].refCnt = locks[o].refCnt,
         \A u \in Threads : pc'[u] \in Counted <=> pc[u] \in Counted,
         NEW t \in Threads,
         \A u \in Threads \ {t} :
            pc'[u] \in {"count", "uncount"} => pc'[u] = pc[u] /\ reg'[u] = reg[u],
         pc'[t] \in {"count", "uncount"} =>
            /\ pc[t] \in Using /\ reg'[t] = locks[lk[t]].refCnt
            /\ \A u \in Threads \ {t} : pc[u] \in {"count", "uncount"} => lk[u] # lk[t]
  PROVE  CountInv'
<1>1. \A o \in Objects : Counting(o)' = Counting(o)
  BY DEF Counting
<1>2. \A p \in Procs : entry[p] # None => entry[p] \in Objects
  BY DEF TypeOK
<1>3. ASSUME NEW p \in Procs, entry'[p] # None
      PROVE  locks'[entry'[p]].refCnt = Cardinality(Counting(entry[p])')
  BY <1>1, <1>2, <1>3 DEF CountInv
<1>4. ASSUME NEW u \in Threads, pc'[u] \in {"count", "uncount"}
      PROVE  reg'[u] = locks'[lk'[u]].refCnt
  <2>1. pc[u] \in Using
    BY <1>4, Places
  <2>2. lk[u] \in Objects
    BY <2>1, LkObject
  <2>3. QED  BY <1>4, <2>2 DEF CountInv
<1>5. ASSUME NEW u \in Threads, NEW v \in Threads,
             pc'[u] \in {"count", "uncount"}, pc'[v] \in {"count", "uncount"}, lk'[u] = lk'[v]
      PROVE  u = v
  BY <1>5 DEF CountInv
<1>6. \A p \in Procs : entry'[p] # None =>
         locks'[entry'[p]].refCnt = Cardinality(Counting(entry[p])')
  BY <1>3
<1>7. \A p \in Procs : entry'[p] # None =>
         locks'[entry'[p]].refCnt = Cardinality(Counting(entry[p]))'
  BY <1>6
<1>8. QED  BY <1>4, <1>5, <1>7 DEF CountInv

\* LockInv survives if whoever holds stays, and no new lock file appears.
LEMMA LockKept ==
  ASSUME WriterAssumptions, TypeOK, EntryInv, LockInv, UNCHANGED <<entry, lk, alive>>,
         \A o \in Objects : locks'[o].locked = locks[o].locked /\ locks'[o].file = locks[o].file,
         \A u \in Threads : /\ pc[u] \in Past => pc'[u] \in Past
                            /\ pc[u] = "mark" => pc'[u] = "mark",
         \/ lockFile' \notin LockFiles
         \/ lockFile \in LockFiles /\ lockFile'.by = lockFile.by
  PROVE  LockInv'
<1>1. \A p \in Procs : entry[p] # None => entry[p] \in Objects
  BY DEF TypeOK
<1>2. ASSUME NEW p \in Procs, entry'[p] # None, locks'[entry'[p]].locked
      PROVE  \E t \in Threads : locks'[entry'[p]].file = t /\ pc'[t] \in Past /\ lk'[t] = entry'[p]
  BY <1>1, <1>2 DEF LockInv
<1>3. ASSUME lockFile' \in LockFiles, ProcOf[lockFile'.by] \in alive'
      PROVE  \/ pc'[lockFile'.by] = "mark"
             \/ pc'[lockFile'.by] \in Past /\ locks'[lk'[lockFile'.by]].locked
  <2>1. lockFile \in LockFiles /\ lockFile'.by = lockFile.by /\ lockFile.by \in Threads
    BY <1>3 DEF LockFiles
  <2>2. CASE pc[lockFile.by] = "mark"
    BY <2>1, <2>2
  <2>3. CASE pc[lockFile.by] \in Past /\ locks[lk[lockFile.by]].locked
    <3>1. pc[lockFile.by] \in Using
      BY <2>3, Places
    <3>2. lk[lockFile.by] \in Objects
      BY <2>1, <3>1, LkObject
    <3>3. QED  BY <2>1, <2>3, <3>2
  <2>4. QED  BY <1>3, <2>1, <2>2, <2>3 DEF LockInv
<1>4. QED  BY <1>2, <1>3 DEF LockInv

\* Where a step changes nothing of the invariant but lockFile.
Calm == Counted \ {"uncount", "mark"}

\* Such a step keeps the invariant.
LEMMA CalmStep ==
  ASSUME WriterAssumptions, TypeOK, LocksInv, NEW t \in Threads, NEW l \in Calm,
         pc[t] \in Calm, pc' = [pc EXCEPT ![t] = l], pc[t] \in Past => l \in Past,
         UNCHANGED <<entry, locks, alive, lk, reg>>,
         \/ lockFile' \notin LockFiles
         \/ lockFile \in LockFiles /\ lockFile'.by = lockFile.by
  PROVE  LocksInv'
<1>1. /\ pc'[t] = l /\ pc[t] \in Counted /\ l \in Counted
      /\ pc[t] \notin {"uncount", "mark", "count", "idle", "dead"}
      /\ l \notin {"uncount", "mark", "count", "idle", "dead"}
      /\ \A u \in Threads \ {t} : pc'[u] = pc[u]
  BY Places DEF TypeOK, Calm
<1>2. Counted \subseteq Using /\ Using \subseteq Inside
  BY Places
<1>3. EntryInv /\ CountInv /\ LockInv
  BY DEF LocksInv
<1>4. EntryInv'
  BY <1>1, <1>2, <1>3, EntryKept
<1>5. CountInv'
  BY <1>1, <1>2, <1>3, CountKept
<1>6. LockInv'
  BY <1>1, <1>2, <1>3, LockKept
<1>7. QED  BY <1>4, <1>5, <1>6 DEF LocksInv

\* So does one that changes none of its variables.
LEMMA StutterStep ==
  ASSUME LocksInv, UNCHANGED <<lockFile, entry, locks, alive, pc, lk, reg>>
  PROVE  LocksInv'
BY DEF LocksInv, EntryInv, CountInv, LockInv, Counting

\* Waiting for the lock file, judging it and stealing it.
LEMMA WaitStep ==
  ASSUME WriterAssumptions, TypeOK, LocksInv, NEW t \in Threads,
         \/ Wait(t) \/ LockExists(t) \/ CreateFails(t)
         \/ Check(t) \/ Steal(t)
  PROVE  LocksInv'
<1> DEFINE l == pc'[t]
<1>1. UNCHANGED <<entry, locks, alive, lk, reg>>
  BY DEF Wait, LockExists, CreateFails, Check, Steal, files, mem, local
<1>2. lockFile' = lockFile \/ lockFile' \notin LockFiles
  BY DEF Wait, LockExists, CreateFails, Check, Steal, Removed, files, WriterAssumptions
<1>3. lockFile' \in LockFiles => lockFile \in LockFiles /\ lockFile'.by = lockFile.by
  BY <1>2
<1>4. /\ pc[t] \in {"wait", "try", "check", "steal"}
      /\ \E m \in {"asleep", "try", "check", "giveup", "steal"} : pc' = [pc EXCEPT ![t] = m]
  BY DEF Wait, LockExists, CreateFails, Check, Steal, Goto
<1>5. {"wait", "asleep", "try", "check", "giveup", "steal"} \subseteq Calm \ Past
  BY Places DEF Calm
<1>6. QED  BY <1>1, <1>3, <1>4, <1>5, CalmStep

\* With the lock, up to the rename.
LEMMA BodyStep ==
  ASSUME WriterAssumptions, TypeOK, LocksInv, NEW t \in Threads,
         WritePid(t) \/ PidFails(t) \/ Hold(t)
  PROVE  LocksInv'
<1>1. UNCHANGED <<entry, locks, alive, lk, reg>>
  BY DEF WritePid, PidFails, Hold, OpenTemp, BodyFails, WriteTemp, WriteTempFails, Rename,
     RenameFails, files, mem, local
<1>2. lockFile' \in LockFiles => lockFile \in LockFiles /\ lockFile'.by = lockFile.by
  <2>1. CASE WritePid(t)
    <3>1. CASE lockFile = [by |-> t, pid |-> FALSE]
      BY <2>1, <3>1 DEF WritePid, LockFiles
    <3>2. CASE lockFile # [by |-> t, pid |-> FALSE]
      BY <2>1, <3>2 DEF WritePid
    <3>3. QED  BY <3>1, <3>2
  <2>2. CASE PidFails(t) \/ Hold(t)
    BY <2>2 DEF PidFails, Hold, OpenTemp, BodyFails, WriteTemp, WriteTempFails, Rename,
       RenameFails, files
  <2>3. QED  BY <2>1, <2>2
<1>3. /\ pc[t] \in {"pid", "open", "write", "rename"}
      /\ \E m \in {"open", "write", "rename", "lookup"} : pc' = [pc EXCEPT ![t] = m]
  BY DEF WritePid, PidFails, Hold, OpenTemp, BodyFails, WriteTemp, WriteTempFails, Rename,
     RenameFails, Goto
<1>4. {"pid", "open", "write", "rename", "lookup"} \subseteq Calm \cap Past
  BY Places DEF Calm
<1>5. QED  BY <1>1, <1>2, <1>3, <1>4, CalmStep

\* releaseLock finds the object the thread has used.
LEMMA LookupStep ==
  ASSUME WriterAssumptions, TypeOK, LocksInv, NEW t \in Threads, Lookup(t)
  PROVE  LocksInv'
<1>1. pc[t] = "lookup" /\ "lookup" \in Using
  BY Places DEF Lookup
<1>2. lk[t] = entry[ProcOf[t]] /\ lk[t] # None
  BY <1>1, LkObject DEF LocksInv
<1>3. lk' = lk /\ pc' = [pc EXCEPT ![t] = "unlock"]
  BY <1>2 DEF Lookup, Goto, TypeOK
<1>4. UNCHANGED <<lockFile, entry, locks, alive, reg>>
  BY DEF Lookup, files, mem
<1>5. {"lookup", "unlock"} \subseteq Calm \cap Past
  BY Places DEF Calm
<1>6. QED  BY <1>1, <1>3, <1>4, <1>5, CalmStep

\* The load of decrementRefCount: the thread is counted, so refCnt is positive.
LEMMA GiveUpStep ==
  ASSUME WriterAssumptions, TypeOK, LocksInv, RaceFree, NEW t \in Threads, GiveUp(t)
  PROVE  LocksInv'
<1>1. EntryInv /\ CountInv /\ LockInv
  BY DEF LocksInv
<1>2. pc[t] = "giveup" /\ pc' = [pc EXCEPT ![t] = "uncount"]
  BY DEF GiveUp, Goto
<1>3. UNCHANGED <<lockFile, entry, locks, alive, lk>>
  BY DEF GiveUp, files, mem
<1>4. {"giveup", "uncount"} \subseteq Counted \ (Past \union {"mark"}) /\ Counted \subseteq Using
      /\ Using \subseteq Inside
  BY Places
<1>5. lk[t] \in Objects /\ lk[t] = entry[ProcOf[t]] /\ lk[t] # None /\ ProcOf[t] \in Procs
  BY <1>1, <1>2, <1>4, LkObject
<1>6. locks[lk[t]].refCnt \in Nat /\ locks[lk[t]].refCnt > 0
  <2>1. locks[lk[t]].refCnt = Cardinality(Counting(lk[t]))
    BY <1>1, <1>5 DEF CountInv
  <2>2. IsFiniteSet(Counting(lk[t]))
    BY FS_Subset DEF WriterAssumptions, Counting
  <2>3. t \in Counting(lk[t])
    BY <1>2, <1>4 DEF Counting
  <2>4. Counting(lk[t]) # {}
    BY <2>3
  <2>5. QED  BY <2>1, <2>2, <2>4, FS_EmptySet, FS_CardinalityType
<1>7. reg' = [reg EXCEPT ![t] = locks[lk[t]].refCnt]
  BY <1>6 DEF GiveUp
<1>8. \A u \in Threads \ {t} : pc[u] \in {"count", "uncount"} => lk[u] # lk[t]
  BY DEF GiveUp, MuFree, NoRace
<1>9. \A u \in Threads \ {t} : pc'[u] = pc[u] /\ reg'[u] = reg[u]
  BY <1>2, <1>7 DEF TypeOK
<1>10. pc'[t] = "uncount" /\ reg'[t] = locks[lk[t]].refCnt
  BY <1>2, <1>7 DEF TypeOK
<1>11. EntryInv'
  BY <1>1, <1>2, <1>3, <1>4, <1>9, <1>10, EntryKept
<1>12. CountInv'
  BY <1>1, <1>2, <1>3, <1>4, <1>8, <1>9, <1>10, CountKept
<1>13. LockInv'
  BY <1>1, <1>2, <1>3, <1>4, <1>9, <1>10, LockKept
<1>14. QED  BY <1>11, <1>12, <1>13 DEF LocksInv

\* The new file is of a thread that is about to mark its object.
LEMMA CreateLockStep ==
  ASSUME WriterAssumptions, TypeOK, LocksInv, NEW t \in Threads, CreateLock(t)
  PROVE  LocksInv'
<1>1. EntryInv /\ CountInv /\ LockInv
  BY DEF LocksInv
<1>2. pc[t] = "try" /\ pc' = [pc EXCEPT ![t] = "mark"] /\ lockFile' = [by |-> t, pid |-> FALSE]
  BY DEF CreateLock, Goto
<1>3. UNCHANGED <<entry, locks, alive, lk, reg>>
  BY DEF CreateLock, mem
<1>4. /\ {"try", "mark"} \subseteq Counted \ {"uncount", "count", "idle", "dead"}
      /\ Counted \subseteq Using /\ Using \subseteq Inside
      /\ "try" \notin Past
  BY Places
<1>5. pc'[t] = "mark" /\ \A u \in Threads \ {t} : pc'[u] = pc[u]
  BY <1>2 DEF TypeOK
<1>6. EntryInv'
  BY <1>1, <1>2, <1>3, <1>4, <1>5, EntryKept
<1>7. CountInv'
  BY <1>1, <1>2, <1>3, <1>4, <1>5, CountKept
<1>8. LockInv'
  <2>1. ASSUME NEW p \in Procs, entry'[p] # None, locks'[entry'[p]].locked
        PROVE  \E u \in Threads : locks'[entry'[p]].file = u /\ pc'[u] \in Past /\ lk'[u] = entry'[p]
    BY <1>1, <1>2, <1>3, <1>4, <1>5, <2>1 DEF LockInv
  <2>2. pc'[lockFile'.by] = "mark"
    BY <1>2, <1>5
  <2>3. QED  BY <2>1, <2>2 DEF LockInv
<1>9. QED  BY <1>6, <1>7, <1>8 DEF LocksInv

\* The object is locked, by a thread that will unlock it.
LEMMA MarkStep ==
  ASSUME WriterAssumptions, TypeOK, LocksInv, NEW t \in Threads, Mark(t)
  PROVE  LocksInv'
<1>1. EntryInv /\ CountInv /\ LockInv
  BY DEF LocksInv
<1>2. pc[t] = "mark" /\ pc' = [pc EXCEPT ![t] = "pid"]
      /\ locks' = [locks EXCEPT ![lk[t]].locked = TRUE, ![lk[t]].file = t]
  BY DEF Mark, Goto
<1>3. UNCHANGED <<lockFile, entry, alive, lk, reg>>
  BY DEF Mark, files, local
<1>4. /\ {"mark", "pid"} \subseteq Counted \ {"uncount", "count", "idle", "dead"}
      /\ Counted \subseteq Using /\ Using \subseteq Inside
      /\ "pid" \in Past /\ "mark" \notin Past /\ Past \subseteq Using
  BY Places
<1>5. pc'[t] = "pid" /\ \A u \in Threads \ {t} : pc'[u] = pc[u]
  BY <1>2 DEF TypeOK
<1>6. lk[t] \in Objects
  BY <1>1, <1>2, <1>4, LkObject
<1>7. /\ locks'[lk[t]].locked /\ locks'[lk[t]].file = t
      /\ \A o \in Objects \ {lk[t]} : locks'[o] = locks[o]
      /\ \A o \in Objects : locks'[o].refCnt = locks[o].refCnt
      /\ \A o \in Objects : locks[o].locked => locks'[o].locked
  BY <1>2, <1>6 DEF TypeOK, FileLock
<1>8. EntryInv'
  BY <1>1, <1>2, <1>3, <1>4, <1>5, EntryKept
<1>9. CountInv'
  BY <1>1, <1>2, <1>3, <1>4, <1>5, <1>7, CountKept
<1>10. LockInv'
  <2>1. ASSUME NEW p \in Procs, entry'[p] # None, locks'[entry'[p]].locked
        PROVE  \E u \in Threads : locks'[entry'[p]].file = u /\ pc'[u] \in Past /\ lk'[u] = entry'[p]
    <3>1. entry[p] \in Objects
      BY <1>3, <2>1 DEF TypeOK
    <3>2. CASE entry[p] = lk[t]
      BY <1>3, <1>4, <1>5, <1>7, <3>2
    <3>3. CASE entry[p] # lk[t]
      <4>1. locks[entry[p]].locked /\ locks'[entry'[p]].file = locks[entry[p]].file
        BY <1>3, <1>7, <2>1, <3>1, <3>3
      <4>2. PICK u \in Threads : locks[entry[p]].file = u /\ pc[u] \in Past /\ lk[u] = entry[p]
        BY <1>1, <1>3, <2>1, <4>1 DEF LockInv
      <4>3. u # t
        BY <3>3, <4>2
      <4>4. QED  BY <1>3, <1>5, <4>1, <4>2, <4>3
    <3>4. QED  BY <3>2, <3>3
  <2>2. ASSUME lockFile' \in LockFiles, ProcOf[lockFile'.by] \in alive'
        PROVE  \/ pc'[lockFile'.by] = "mark"
               \/ pc'[lockFile'.by] \in Past /\ locks'[lk'[lockFile'.by]].locked
    <3>1. lockFile.by \in Threads /\ lockFile \in LockFiles /\ ProcOf[lockFile.by] \in alive
      BY <1>3, <2>2 DEF LockFiles
    <3>2. CASE lockFile.by = t
      BY <1>3, <1>4, <1>5, <1>7, <3>2
    <3>3. CASE lockFile.by # t /\ pc[lockFile.by] = "mark"
      BY <1>3, <1>5, <3>1, <3>3
    <3>4. CASE lockFile.by # t /\ pc[lockFile.by] \in Past /\ locks[lk[lockFile.by]].locked
      <4>1. lk[lockFile.by] \in Objects
        BY <1>1, <1>4, <3>1, <3>4, LkObject
      <4>2. QED  BY <1>3, <1>5, <1>7, <3>1, <3>4, <4>1
    <3>5. QED  BY <1>1, <3>1, <3>2, <3>3, <3>4 DEF LockInv
  <2>3. QED  BY <2>1, <2>2 DEF LockInv
<1>11. QED  BY <1>8, <1>9, <1>10 DEF LocksInv

\* The file goes with the mark, whosever they were.
LEMMA UnlockStep ==
  ASSUME WriterAssumptions, TypeOK, LocksInv, RaceFree, "remove" \notin WriterFaults,
         NEW t \in Threads, Unlock(t)
  PROVE  LocksInv'
<1> DEFINE o == lk[t]
<1>1. EntryInv /\ CountInv /\ LockInv
  BY DEF LocksInv
<1>2. pc[t] = "unlock" /\ UNCHANGED <<entry, alive, lk>>
  BY DEF Unlock
<1>3. /\ {"unlock", "uncount", "asleep", "wait"} \subseteq Counted \ {"count", "idle", "dead", "mark"}
      /\ Counted \subseteq Using /\ Using \subseteq Inside
      /\ {"uncount", "asleep", "wait", "mark"} \cap Past = {} /\ Past \subseteq Using
  BY Places
<1>4. o \in Objects
  BY <1>1, <1>2, <1>3, LkObject
<1>5. /\ pc'[t] = "uncount"
      /\ \A u \in Threads \ {t} : pc'[u] = pc[u] \/ (pc[u] = "asleep" /\ pc'[u] = "wait")
  BY DEF Unlock, Goto, TypeOK
<1>6. reg' = [reg EXCEPT ![t] = locks[o].refCnt]
  BY DEF Unlock
<1>7. reg'[t] = locks[o].refCnt /\ \A u \in Threads \ {t} : reg'[u] = reg[u]
  BY <1>6 DEF TypeOK
<1>8. \A u \in Threads \ {t} : pc[u] \in {"count", "uncount"} => lk[u] # lk[t]
  BY DEF Unlock, MuFree, NoRace
<1>9. /\ ~locks'[o].locked
      /\ \A q \in Objects \ {o} : locks'[q] = locks[q]
      /\ \A q \in Objects : locks'[q].refCnt = locks[q].refCnt
  BY <1>4 DEF Unlock, TypeOK, FileLock
<1>10. EntryInv'
  BY <1>1, <1>2, <1>3, <1>5, EntryKept
<1>11. CountInv'
  <2>1. \A u \in Threads : pc'[u] \in Counted <=> pc[u] \in Counted
    BY <1>2, <1>3, <1>5
  <2>2. \A u \in Threads \ {t} :
          pc'[u] \in {"count", "uncount"} => pc'[u] = pc[u] /\ reg'[u] = reg[u]
    BY <1>5, <1>7
  <2>3. pc[t] \in Using
    BY <1>2, <1>3
  <2>4. QED  BY <1>1, <1>2, <1>7, <1>8, <1>9, <2>1, <2>2, <2>3, CountKept
<1>12. LockInv'
  <2>1. ASSUME NEW p \in Procs, entry'[p] # None, locks'[entry'[p]].locked
        PROVE  \E u \in Threads : locks'[entry'[p]].file = u /\ pc'[u] \in Past /\ lk'[u] = entry'[p]
    <3>1. entry[p] \in Objects /\ entry[p] # o
      BY <1>2, <1>9, <2>1 DEF TypeOK
    <3>2. locks[entry[p]].locked /\ locks'[entry'[p]].file = locks[entry[p]].file
      BY <1>2, <1>9, <2>1, <3>1
    <3>3. PICK u \in Threads : locks[entry[p]].file = u /\ pc[u] \in Past /\ lk[u] = entry[p]
      BY <1>1, <1>2, <2>1, <3>2 DEF LockInv
    <3>4. u # t /\ pc[u] # "asleep"
      BY <1>3, <3>1, <3>3
    <3>5. QED  BY <1>2, <1>5, <3>2, <3>3, <3>4
  <2>2. ASSUME lockFile' \in LockFiles, ProcOf[lockFile'.by] \in alive'
        PROVE  \/ pc'[lockFile'.by] = "mark"
               \/ pc'[lockFile'.by] \in Past /\ locks'[lk'[lockFile'.by]].locked
    <3>1. ~locks[o].locked
      BY <2>2 DEF Unlock, Removed, WriterAssumptions
    <3>2. lockFile' = lockFile /\ locks' = locks
      BY <3>1 DEF Unlock
    <3>3. lockFile.by \in Threads /\ lockFile \in LockFiles /\ ProcOf[lockFile.by] \in alive
      BY <1>2, <2>2, <3>2 DEF LockFiles
    <3>4. /\ lockFile.by # t /\ pc[lockFile.by] # "asleep"
          /\ \/ pc[lockFile.by] = "mark"
             \/ pc[lockFile.by] \in Past /\ locks[lk[lockFile.by]].locked
      BY <1>1, <1>2, <1>3, <3>1, <3>3 DEF LockInv
    <3>5. QED  BY <1>2, <1>5, <3>2, <3>3, <3>4
  <2>3. QED  BY <2>1, <2>2 DEF LockInv
<1>13. QED  BY <1>10, <1>11, <1>12 DEF LocksInv

\* The thread that stores refCnt + 1 is counted from then on.
LEMMA CountStep ==
  ASSUME WriterAssumptions, TypeOK, LocksInv, NEW t \in Threads, Count(t)
  PROVE  LocksInv'
<1> DEFINE o == lk[t]
<1>1. EntryInv /\ CountInv /\ LockInv
  BY DEF LocksInv
<1>2. /\ pc[t] = "count" /\ pc' = [pc EXCEPT ![t] = "wait"]
      /\ locks' = [locks EXCEPT ![o].refCnt = reg[t] + 1]
      /\ UNCHANGED <<lockFile, entry, alive, lk, reg>>
  BY DEF Count, Goto, files, local
<1>3. /\ "wait" \in Counted \ {"uncount", "count", "idle", "dead", "mark"}
      /\ "count" \in Using \ (Counted \union Past)
      /\ Counted \subseteq Using /\ Using \subseteq Inside
  BY Places
<1>4. o \in Objects
  BY <1>1, <1>2, <1>3, LkObject
<1>5. pc'[t] = "wait" /\ \A u \in Threads \ {t} : pc'[u] = pc[u]
  BY <1>2 DEF TypeOK
<1>6. /\ locks'[o].refCnt = locks[o].refCnt + 1
      /\ \A q \in Objects \ {o} : locks'[q] = locks[q]
      /\ \A q \in Objects : locks'[q].locked = locks[q].locked /\ locks'[q].file = locks[q].file
  <2>1. reg[t] = locks[o].refCnt
    BY <1>1, <1>2 DEF CountInv
  <2>2. QED  BY <1>2, <1>4, <2>1 DEF TypeOK, FileLock
<1>7. EntryInv'
  BY <1>1, <1>2, <1>3, <1>5, EntryKept
<1>8. LockInv'
  BY <1>1, <1>2, <1>3, <1>5, <1>6, LockKept
<1>9. CountInv'
  <2>1. /\ \A q \in Objects : q = o => Counting(q)' = Counting(q) \cup {t}
        /\ t \notin Counting(o)
    BY <1>2, <1>3, <1>5 DEF Counting
  <2>2. \A q \in Objects \ {o} : Counting(q)' = Counting(q)
    BY <1>2, <1>5 DEF Counting
  <2>3. IsFiniteSet(Counting(o))
    BY FS_Subset DEF WriterAssumptions, Counting
  <2>4. Cardinality(Counting(o) \cup {t}) = Cardinality(Counting(o)) + 1
    BY <2>1, <2>3, FS_AddElement
  <2>5. \A p \in Procs : entry'[p] # None =>
           locks'[entry'[p]].refCnt = Cardinality(Counting(entry[p]))'
    <3>1. ASSUME NEW p \in Procs, entry'[p] # None
          PROVE  locks'[entry'[p]].refCnt = Cardinality(Counting(entry[p])')
      <4>1. /\ entry[p] \in Objects /\ entry'[p] = entry[p]
            /\ locks[entry[p]].refCnt = Cardinality(Counting(entry[p]))
        BY <1>1, <1>2, <3>1 DEF TypeOK, CountInv
      <4>2. ASSUME NEW q \in Objects, locks[q].refCnt = Cardinality(Counting(q))
            PROVE  locks'[q].refCnt = Cardinality(Counting(q)')
        <5>1. CASE q = o
          BY <1>6, <2>1, <2>4, <4>2, <5>1
        <5>2. CASE q # o
          BY <1>6, <2>2, <4>2, <5>2
        <5>3. QED  BY <5>1, <5>2
      <4>3. QED  BY <4>1, <4>2
    <3>2. QED  BY <3>1
  <2>6. ASSUME NEW u \in Threads, pc'[u] \in {"count", "uncount"}
        PROVE  reg'[u] = locks'[lk'[u]].refCnt
    <3>1. u # t /\ pc[u] \in {"count", "uncount"} /\ pc[u] \in Using
      BY <1>5, <2>6, Places
    <3>2. lk[u] \in Objects /\ lk[u] # o
      BY <1>1, <1>2, <3>1, LkObject DEF CountInv
    <3>3. QED  BY <1>1, <1>2, <1>6, <3>1, <3>2 DEF CountInv
  <2>7. ASSUME NEW u \in Threads, NEW v \in Threads,
               pc'[u] \in {"count", "uncount"}, pc'[v] \in {"count", "uncount"}, lk'[u] = lk'[v]
        PROVE  u = v
    BY <1>1, <1>2, <1>5, <2>7 DEF CountInv
  <2>8. QED  BY <1>2, <2>5, <2>6, <2>7 DEF CountInv
<1>10. QED  BY <1>7, <1>8, <1>9 DEF LocksInv

\* The thread that stores refCnt - 1 is not; the entry still has a user, or this
\* thread will drop it.
LEMMA UncountStep ==
  ASSUME WriterAssumptions, TypeOK, LocksInv, NEW t \in Threads, Uncount(t)
  PROVE  LocksInv'
<1> DEFINE o == lk[t]
           n == reg[t] - 1
<1>1. EntryInv /\ CountInv /\ LockInv
  BY DEF LocksInv
<1>2. /\ pc[t] = "uncount"
      /\ pc' = [pc EXCEPT ![t] = IF n = 0 /\ ~locks[o].locked THEN "drop" ELSE "done"]
      /\ locks' = [locks EXCEPT ![o].refCnt = n]
      /\ UNCHANGED <<lockFile, entry, alive, lk, reg>>
  BY DEF Uncount, Goto, files, local
<1>3. /\ "uncount" \in Counted \ (Past \union {"mark"})
      /\ {"drop", "done"} \cap (Using \union Counted) = {} /\ "drop" \in Inside
      /\ Counted \subseteq Using /\ Using \subseteq Inside /\ Past \subseteq Counted
  BY Places
<1>4. o \in Objects /\ o = entry[ProcOf[t]] /\ o # None /\ ProcOf[t] \in Procs /\ ProcOf[t] \in alive
  BY <1>1, <1>2, <1>3, LkObject
<1>5. /\ pc'[t] = (IF n = 0 /\ ~locks[o].locked THEN "drop" ELSE "done")
      /\ \A u \in Threads \ {t} : pc'[u] = pc[u]
  BY <1>2 DEF TypeOK
<1>6. /\ locks'[o].refCnt = n /\ n = locks[o].refCnt - 1
      /\ locks[o].refCnt = Cardinality(Counting(o))
      /\ \A q \in Objects \ {o} : locks'[q] = locks[q]
      /\ \A q \in Objects : locks'[q].locked = locks[q].locked /\ locks'[q].file = locks[q].file
  <2>1. reg[t] = locks[o].refCnt /\ locks[o].refCnt = Cardinality(Counting(o))
    BY <1>1, <1>2, <1>4 DEF CountInv
  <2>2. QED  BY <1>2, <1>4, <2>1 DEF TypeOK, FileLock
<1>7. /\ \A q \in Objects : q = o => Counting(q)' = Counting(q) \ {t}
      /\ t \in Counting(o)
      /\ \A q \in Objects \ {o} : Counting(q)' = Counting(q)
  BY <1>2, <1>3, <1>5 DEF Counting
<1>8. Cardinality(Counting(o) \ {t}) = n /\ IsFiniteSet(Counting(o) \ {t})
  <2>1. IsFiniteSet(Counting(o))
    BY FS_Subset DEF WriterAssumptions, Counting
  <2>2. QED  BY <1>6, <1>7, <2>1, FS_RemoveElement
<1>9. LockInv'
  BY <1>1, <1>2, <1>3, <1>5, <1>6, LockKept
<1>10. EntryInv'
  <2>1. ASSUME NEW u \in Threads
        PROVE  /\ pc'[u] \in Using => lk'[u] # None /\ lk'[u] = entry'[ProcOf[u]]
               /\ pc'[u] = "idle" => lk'[u] = None
               /\ pc'[u] # "dead" => ProcOf[u] \in alive'
    BY <1>1, <1>2, <1>3, <1>4, <1>5 DEF EntryInv
  <2>2. ASSUME NEW p \in Procs, entry'[p] # None
        PROVE  \E u \in Threads : ProcOf[u] = p /\ lk'[u] = entry'[p] /\ pc'[u] \in Inside
    <3>1. PICK u \in Threads : ProcOf[u] = p /\ lk[u] = entry[p] /\ pc[u] \in Inside
      BY <1>1, <1>2, <2>2 DEF EntryInv
    <3>2. CASE u # t
      BY <1>2, <1>5, <3>1, <3>2
    <3>3. CASE u = t /\ pc'[t] = "drop"
      BY <1>2, <1>3, <3>1, <3>3
    <3>4. CASE u = t /\ locks[o].locked
      <4>1. PICK v \in Threads : pc[v] \in Past /\ lk[v] = o
        BY <1>1, <1>4, <3>4 DEF LockInv
      <4>2. v # t /\ pc[v] \in Using /\ entry[p] = o
        BY <1>2, <1>3, <3>1, <3>4, <4>1
      <4>3. ProcOf[v] = p
        BY <1>1, <4>1, <4>2, SameProcess
      <4>4. QED  BY <1>2, <1>3, <1>5, <4>1, <4>2, <4>3
    <3>5. CASE u = t /\ n # 0
      <4>1. Counting(o) \ {t} # {}
        BY <1>8, <3>5, FS_EmptySet
      <4>2. PICK v \in Threads \ {t} : pc[v] \in Counted /\ lk[v] = o
        BY <4>1 DEF Counting
      <4>3. pc[v] \in Using /\ entry[p] = o
        BY <1>3, <3>1, <3>5, <4>2
      <4>4. ProcOf[v] = p
        BY <1>1, <4>2, <4>3, SameProcess
      <4>5. QED  BY <1>2, <1>3, <1>5, <4>2, <4>3, <4>4
    <3>6. QED  BY <1>5, <3>2, <3>3, <3>4, <3>5
  <2>3. QED  BY <1>1, <1>2, <2>1, <2>2 DEF EntryInv
<1>11. CountInv'
  <2>1. \A p \in Procs : entry'[p] # None =>
           locks'[entry'[p]].refCnt = Cardinality(Counting(entry[p]))'
    <3>1. ASSUME NEW p \in Procs, entry'[p] # None
          PROVE  locks'[entry'[p]].refCnt = Cardinality(Counting(entry[p])')
      <4>1. /\ entry[p] \in Objects /\ entry'[p] = entry[p]
            /\ locks[entry[p]].refCnt = Cardinality(Counting(entry[p]))
        BY <1>1, <1>2, <3>1 DEF TypeOK, CountInv
      <4>2. ASSUME NEW q \in Objects, locks[q].refCnt = Cardinality(Counting(q))
            PROVE  locks'[q].refCnt = Cardinality(Counting(q)')
        <5>1. CASE q = o
          BY <1>6, <1>7, <1>8, <4>2, <5>1
        <5>2. CASE q # o
          BY <1>6, <1>7, <4>2, <5>2
        <5>3. QED  BY <5>1, <5>2
      <4>3. QED  BY <4>1, <4>2
    <3>2. QED  BY <3>1
  <2>2. ASSUME NEW u \in Threads, pc'[u] \in {"count", "uncount"}
        PROVE  reg'[u] = locks'[lk'[u]].refCnt
    <3>1. u # t /\ pc[u] \in {"count", "uncount"} /\ pc[u] \in Using
      BY <1>5, <2>2, Places
    <3>2. lk[u] \in Objects /\ lk[u] # o
      BY <1>1, <1>2, <3>1, LkObject DEF CountInv
    <3>3. QED  BY <1>1, <1>2, <1>6, <3>1, <3>2 DEF CountInv
  <2>3. ASSUME NEW u \in Threads, NEW v \in Threads,
               pc'[u] \in {"count", "uncount"}, pc'[v] \in {"count", "uncount"}, lk'[u] = lk'[v]
        PROVE  u = v
    BY <1>1, <1>2, <1>5, <2>3 DEF CountInv
  <2>4. QED  BY <1>2, <2>1, <2>2, <2>3 DEF CountInv
<1>12. QED  BY <1>9, <1>10, <1>11 DEF LocksInv

\* The entry is found, or a fresh object becomes it; nobody else is about to
\* store its refCnt.
LEMMA EnterStep ==
  ASSUME WriterAssumptions, TypeOK, LocksInv, RaceFree, NEW t \in Threads, Enter(t)
  PROVE  LocksInv'
<1> DEFINE p == ProcOf[t]
           o == IF entry[p] = None THEN Fresh ELSE entry[p]
<1>1. EntryInv /\ CountInv /\ LockInv /\ p \in Procs
  BY DEF LocksInv, WriterAssumptions
<1>2. /\ pc[t] = "idle" /\ pc' = [pc EXCEPT ![t] = "count"]
      /\ entry' = [entry EXCEPT ![p] = o]
      /\ locks' = IF entry[p] = None THEN [locks EXCEPT ![o] = NewLock] ELSE locks
      /\ lk' = [lk EXCEPT ![t] = o]
      /\ reg' = [reg EXCEPT ![t] = locks'[o].refCnt]
      /\ UNCHANGED <<lockFile, alive>>
      /\ AwMuFree(p) /\ NoRace(o, "uncount")
  BY DEF Enter, Goto, files
<1>3. /\ "count" \in Using \ (Counted \union Past \union {"mark"})
      /\ "idle" \notin Inside \union Past \union {"mark"}
      /\ Counted \subseteq Using /\ Using \subseteq Inside /\ Past \subseteq Using
      /\ "mark" \in Using
  BY Places
<1>4. /\ o \in Objects /\ o # None
      /\ entry[p] = None => /\ \A q \in Procs : entry[q] # o
                            /\ \A u \in Threads : lk[u] # o
  <2>1. CASE entry[p] = None
    BY <1>1, <2>1, FreshObject DEF WriterAssumptions
  <2>2. CASE entry[p] # None
    BY <1>1, <2>2 DEF TypeOK
  <2>3. QED  BY <2>1, <2>2
<1> HIDE DEF o
<1>5. /\ pc'[t] = "count" /\ lk'[t] = o /\ entry'[p] = o /\ reg'[t] = locks'[o].refCnt
      /\ \A u \in Threads \ {t} : pc'[u] = pc[u] /\ lk'[u] = lk[u] /\ reg'[u] = reg[u]
      /\ \A q \in Procs \ {p} : entry'[q] = entry[q]
      /\ entry[p] # None => entry'[p] = entry[p]
  <2>1. entry[p] # None => o = entry[p]
    BY DEF o
  <2>2. QED  BY <1>1, <1>2, <2>1 DEF TypeOK
<1>6. /\ \A q \in Objects \ {o} : locks'[q] = locks[q]
      /\ entry[p] # None => locks' = locks
      /\ entry[p] = None => locks'[o] = [locked |-> FALSE, refCnt |-> 0, file |-> None]
  BY <1>2, <1>4 DEF TypeOK, NewLock
<1>7. \A u \in Threads \ {t} : pc[u] \in Using =>
         /\ lk[u] \in Objects /\ locks'[lk[u]] = locks[lk[u]]
         /\ lk[u] # None /\ lk[u] = entry[ProcOf[u]] /\ ProcOf[u] \in Procs
  BY <1>1, <1>4, <1>6, LkObject
<1>8. \A q \in Procs : entry[q] # None =>
         entry'[q] = entry[q] /\ entry[q] \in Objects /\ locks'[entry[q]] = locks[entry[q]]
  <2>1. ASSUME NEW q \in Procs, entry[q] # None
        PROVE  entry'[q] = entry[q] /\ entry[q] \in Objects /\ locks'[entry[q]] = locks[entry[q]]
    <3>1. entry[q] \in Objects
      BY <2>1 DEF TypeOK
    <3>2. entry'[q] = entry[q]
      BY <1>5, <2>1
    <3>3. locks'[entry[q]] = locks[entry[q]]
      BY <1>4, <1>6, <3>1
    <3>4. QED  BY <3>1, <3>2, <3>3
  <2>2. QED  BY <2>1
<1>9. EntryInv'
  <2>1. ASSUME NEW u \in Threads
        PROVE  /\ pc'[u] \in Using => lk'[u] # None /\ lk'[u] = entry'[ProcOf[u]]
               /\ pc'[u] = "idle" => lk'[u] = None
               /\ pc'[u] # "dead" => ProcOf[u] \in alive'
    <3>1. CASE u = t
      BY <1>1, <1>2, <1>4, <1>5, <3>1 DEF EntryInv
    <3>2. CASE u # t
      BY <1>1, <1>2, <1>5, <1>7, <1>8, <3>2 DEF EntryInv
    <3>3. QED  BY <3>1, <3>2
  <2>2. ASSUME NEW q \in Procs, NEW r \in Procs, entry'[q] # None, entry'[q] = entry'[r]
        PROVE  q = r
    BY <1>1, <1>4, <1>5, <2>2 DEF EntryInv
  <2>3. ASSUME NEW q \in Procs, entry'[q] # None
        PROVE  \E u \in Threads : ProcOf[u] = q /\ lk'[u] = entry'[q] /\ pc'[u] \in Inside
    <3>1. CASE q = p
      BY <1>3, <1>5, <3>1
    <3>2. CASE q # p
      BY <1>1, <1>2, <1>3, <1>5, <2>3, <3>2 DEF EntryInv
    <3>3. QED  BY <3>1, <3>2
  <2>4. QED  BY <2>1, <2>2, <2>3 DEF EntryInv
<1>10. CountInv'
  <2>1. \A q \in Objects : Counting(q)' = Counting(q)
    BY <1>2, <1>3, <1>5 DEF Counting
  <2>2. entry[p] = None => Cardinality(Counting(o)) = 0
    <3>1. entry[p] = None => Counting(o) = {}
      BY <1>4 DEF Counting
    <3>2. QED  BY <3>1, FS_EmptySet
  <2>3. \A q \in Procs : entry'[q] # None =>
           locks'[entry'[q]].refCnt = Cardinality(Counting(entry[q]))'
    <3>1. ASSUME NEW q \in Procs, entry'[q] # None
          PROVE  locks'[entry'[q]].refCnt = Cardinality(Counting(entry[q])')
      <4>1. entry'[q] \in Objects /\ locks'[entry'[q]].refCnt = Cardinality(Counting(entry'[q]))
        <5>1. CASE entry[q] # None
          BY <1>1, <1>8, <5>1 DEF CountInv
        <5>2. CASE entry[q] = None
          BY <1>4, <1>5, <1>6, <2>2, <3>1, <5>2
        <5>3. QED  BY <5>1, <5>2
      <4>2. ASSUME NEW x \in Objects, locks'[x].refCnt = Cardinality(Counting(x))
            PROVE  locks'[x].refCnt = Cardinality(Counting(x)')
        BY <2>1, <4>2
      <4>3. QED  BY <4>1, <4>2
    <3>2. QED  BY <3>1
  <2>4. ASSUME NEW u \in Threads, pc'[u] \in {"count", "uncount"}
        PROVE  reg'[u] = locks'[lk'[u]].refCnt
    <3>1. CASE u = t
      BY <1>5, <3>1
    <3>2. CASE u # t
      BY <1>1, <1>5, <1>7, <2>4, <3>2, Places DEF CountInv
    <3>3. QED  BY <3>1, <3>2
  <2>5. ASSUME NEW u \in Threads \ {t}, pc[u] \in {"count", "uncount"} PROVE lk[u] # o
    <3>1. SUFFICES ASSUME lk[u] = o PROVE FALSE
      OBVIOUS
    <3>2. entry[p] # None /\ lk[u] = entry[p] /\ pc[u] \in Using
      BY <1>4, <1>5, <2>5, <3>1, Places
    <3>3. ProcOf[u] = p
      BY <1>1, <3>2, SameProcess
    <3>4. QED  BY <1>2, <2>5, <3>1, <3>3 DEF AwMuFree, NoRace
  <2>6. ASSUME NEW u \in Threads, NEW v \in Threads,
               pc'[u] \in {"count", "uncount"}, pc'[v] \in {"count", "uncount"}, lk'[u] = lk'[v]
        PROVE  u = v
    BY <1>1, <1>5, <2>5, <2>6 DEF CountInv
  <2>7. QED  BY <2>3, <2>4, <2>6 DEF CountInv
<1>11. LockInv'
  <2>1. ASSUME NEW q \in Procs, entry'[q] # None, locks'[entry'[q]].locked
        PROVE  \E u \in Threads : locks'[entry'[q]].file = u /\ pc'[u] \in Past /\ lk'[u] = entry'[q]
    <3>1. entry[q] # None
      BY <1>5, <1>6, <2>1
    <3>2. PICK u \in Threads : locks[entry[q]].file = u /\ pc[u] \in Past /\ lk[u] = entry[q]
      BY <1>1, <1>8, <2>1, <3>1 DEF LockInv
    <3>3. u # t
      BY <1>2, <1>3, <3>2
    <3>4. QED  BY <1>5, <1>8, <3>1, <3>2, <3>3
  <2>2. ASSUME lockFile' \in LockFiles, ProcOf[lockFile'.by] \in alive'
        PROVE  \/ pc'[lockFile'.by] = "mark"
               \/ pc'[lockFile'.by] \in Past /\ locks'[lk'[lockFile'.by]].locked
    <3>1. /\ lockFile' = lockFile /\ lockFile.by \in Threads
          /\ \/ pc[lockFile.by] = "mark"
             \/ pc[lockFile.by] \in Past /\ locks[lk[lockFile.by]].locked
      BY <1>1, <1>2, <2>2 DEF LockInv, LockFiles
    <3>2. lockFile.by # t /\ pc[lockFile.by] \in Using
      BY <1>2, <1>3, <3>1
    <3>3. QED  BY <1>5, <1>7, <3>1, <3>2
  <2>3. QED  BY <2>1, <2>2 DEF LockInv
<1>12. QED  BY <1>9, <1>10, <1>11 DEF LocksInv

\* An entry is deleted only if refCnt is 0, hence nobody uses it; if it stays,
\* somebody does.
LEMMA DropStep ==
  ASSUME WriterAssumptions, TypeOK, LocksInv, NEW t \in Threads, Drop(t)
  PROVE  LocksInv'
<1> DEFINE p == ProcOf[t]
           o == entry[p]
<1>1. EntryInv /\ CountInv /\ LockInv /\ p \in Procs
  BY DEF LocksInv, WriterAssumptions
<1>2. /\ pc[t] = "drop" /\ pc' = [pc EXCEPT ![t] = "done"]
      /\ UNCHANGED <<lockFile, locks, alive, lk, reg>>
      /\ AwMuFree(p)
  BY DEF Drop, Goto, files, local
<1>3. /\ {"drop", "done"} \cap (Using \union Past) = {} /\ "done" \notin Inside
      /\ Counted = Using \ {"count"}
      /\ Counted \subseteq Using /\ Using \subseteq Inside /\ Past \subseteq Using
  BY Places
<1>4. pc'[t] = "done" /\ \A u \in Threads \ {t} : pc'[u] = pc[u]
  BY <1>2 DEF TypeOK
<1>5. o # None => /\ o \in Objects /\ locks[o].refCnt = Cardinality(Counting(o))
                  /\ IsFiniteSet(Counting(o))
  BY <1>1, FS_Subset DEF TypeOK, CountInv, WriterAssumptions, Counting
<1>6. CASE o # None /\ locks[o].refCnt = 0 /\ ~locks[o].locked
  <2>1. entry' = [entry EXCEPT ![p] = None]
    BY <1>6 DEF Drop
  <2>2. entry'[p] = None /\ \A q \in Procs \ {p} : entry'[q] = entry[q]
    BY <1>1, <2>1 DEF TypeOK
  <2>3. Counting(o) = {}
    BY <1>5, <1>6, FS_EmptySet
  <2>4. \A u \in Threads : pc[u] \in Using => ProcOf[u] \in Procs \ {p}
    <3>1. SUFFICES ASSUME NEW u \in Threads, pc[u] \in Using, ProcOf[u] = p PROVE FALSE
      BY DEF WriterAssumptions
    <3>2. lk[u] = o /\ pc[u] # "count"
      BY <1>1, <1>2, <3>1 DEF EntryInv, AwMuFree
    <3>3. u \in Counting(o)
      BY <1>3, <3>1, <3>2 DEF Counting
    <3>4. QED  BY <2>3, <3>3
  <2>5. EntryInv'
    <3>1. \A u \in Threads :
             /\ pc'[u] \in Using => lk'[u] # None /\ lk'[u] = entry'[ProcOf[u]]
             /\ pc'[u] = "idle" => lk'[u] = None
             /\ pc'[u] # "dead" => ProcOf[u] \in alive'
      BY <1>1, <1>2, <1>3, <1>4, <2>2, <2>4 DEF EntryInv
    <3>2. \A q, r \in Procs : entry'[q] # None /\ entry'[q] = entry'[r] => q = r
      BY <1>1, <2>2 DEF EntryInv
    <3>3. \A q \in Procs : entry'[q] # None =>
             \E u \in Threads : ProcOf[u] = q /\ lk'[u] = entry'[q] /\ pc'[u] \in Inside
      BY <1>1, <1>2, <1>4, <2>2 DEF EntryInv
    <3>4. QED  BY <3>1, <3>2, <3>3 DEF EntryInv
  <2>6. CountInv'
    <3>1. \A q \in Objects : Counting(q)' = Counting(q)
      BY <1>2, <1>3, <1>4 DEF Counting
    <3>2. \A q \in Procs : entry'[q] # None =>
             locks'[entry'[q]].refCnt = Cardinality(Counting(entry[q]))'
      <4>1. ASSUME NEW q \in Procs, entry'[q] # None
            PROVE  locks'[entry'[q]].refCnt = Cardinality(Counting(entry[q])')
        <5>1. entry'[q] \in Objects /\ locks'[entry'[q]].refCnt = Cardinality(Counting(entry'[q]))
          BY <1>1, <1>2, <2>2, <4>1 DEF TypeOK, CountInv
        <5>2. ASSUME NEW x \in Objects, locks'[x].refCnt = Cardinality(Counting(x))
              PROVE  locks'[x].refCnt = Cardinality(Counting(x)')
          BY <3>1, <5>2
        <5>3. QED  BY <5>1, <5>2
      <4>2. QED  BY <4>1
    <3>3. \A u \in Threads : pc'[u] \in {"count", "uncount"} => reg'[u] = locks'[lk'[u]].refCnt
      BY <1>1, <1>2, <1>4 DEF CountInv
    <3>4. \A u, v \in Threads :
            pc'[u] \in {"count", "uncount"} /\ pc'[v] \in {"count", "uncount"} /\ lk'[u] = lk'[v] => u = v
      BY <1>1, <1>2, <1>4 DEF CountInv
    <3>5. QED  BY <3>2, <3>3, <3>4 DEF CountInv
  <2>7. LockInv'
    <3>1. \A q \in Procs : entry'[q] # None /\ locks'[entry'[q]].locked =>
            \E u \in Threads : locks'[entry'[q]].file = u /\ pc'[u] \in Past /\ lk'[u] = entry'[q]
      BY <1>1, <1>2, <1>3, <1>4, <2>2 DEF LockInv
    <3>2. lockFile' \in LockFiles /\ ProcOf[lockFile'.by] \in alive' =>
            \/ pc'[lockFile'.by] = "mark"
            \/ pc'[lockFile'.by] \in Past /\ locks'[lk'[lockFile'.by]].locked
      BY <1>1, <1>2, <1>3, <1>4 DEF LockInv, LockFiles
    <3>3. QED  BY <3>1, <3>2 DEF LockInv
  <2>8. QED  BY <2>5, <2>6, <2>7 DEF LocksInv
<1>7. CASE ~(o # None /\ locks[o].refCnt = 0 /\ ~locks[o].locked)
  <2>1. UNCHANGED entry
    BY <1>7 DEF Drop
  <2>2. EntryInv'
    <3>1. \A u \in Threads :
             /\ pc'[u] \in Using => lk'[u] # None /\ lk'[u] = entry'[ProcOf[u]]
             /\ pc'[u] = "idle" => lk'[u] = None
             /\ pc'[u] # "dead" => ProcOf[u] \in alive'
      BY <1>1, <1>2, <1>3, <1>4, <2>1 DEF EntryInv
    <3>2. ASSUME NEW q \in Procs, entry'[q] # None
          PROVE  \E u \in Threads : ProcOf[u] = q /\ lk'[u] = entry'[q] /\ pc'[u] \in Inside
      <4>1. PICK u \in Threads : ProcOf[u] = q /\ lk[u] = entry[q] /\ pc[u] \in Inside
        BY <1>1, <2>1, <3>2 DEF EntryInv
      <4>2. CASE u # t
        BY <1>2, <1>4, <2>1, <4>1, <4>2
      <4>3. CASE u = t /\ locks[o].locked
        <5>1. PICK v \in Threads : pc[v] \in Past /\ lk[v] = o
          BY <1>1, <2>1, <3>2, <4>1, <4>3 DEF LockInv
        <5>2. v # t /\ pc[v] \in Using /\ q = p
          BY <1>2, <1>3, <4>1, <4>3, <5>1
        <5>3. ProcOf[v] = p
          BY <1>1, <5>1, <5>2, SameProcess
        <5>4. QED  BY <1>2, <1>3, <1>4, <2>1, <5>1, <5>2, <5>3
      <4>4. CASE u = t /\ locks[o].refCnt # 0
        <5>1. q = p /\ o # None
          BY <2>1, <3>2, <4>1, <4>4
        <5>2. Counting(o) # {}
          BY <1>5, <4>4, <5>1, FS_EmptySet
        <5>3. PICK v \in Threads : pc[v] \in Counted /\ lk[v] = o
          BY <5>2 DEF Counting
        <5>4. v # t /\ pc[v] \in Using
          BY <1>2, <1>3, <5>3
        <5>5. ProcOf[v] = p
          BY <1>1, <5>3, <5>4, SameProcess
        <5>6. QED  BY <1>2, <1>3, <1>4, <2>1, <5>1, <5>3, <5>4, <5>5
      <4>5. QED  BY <1>7, <2>1, <3>2, <4>1, <4>2, <4>3, <4>4
    <3>3. QED  BY <1>1, <2>1, <3>1, <3>2 DEF EntryInv
  <2>3. CountInv'
    BY <1>1, <1>2, <1>3, <1>4, <2>1, CountKept
  <2>4. LockInv'
    BY <1>1, <1>2, <1>3, <1>4, <2>1, LockKept
  <2>5. QED  BY <2>2, <2>3, <2>4 DEF LocksInv
<1>8. QED  BY <1>6, <1>7

\* The threads, the entry and the objects of a process go together.
LEMMA CrashStep ==
  ASSUME WriterAssumptions, TypeOK, LocksInv, NEW p \in Procs, Crash(p)
  PROVE  LocksInv'
<1>1. EntryInv /\ CountInv /\ LockInv
  BY DEF LocksInv
<1>2. /\ \A u \in Threads : ProcOf[u] = p => pc'[u] = "dead" /\ lk'[u] = None
      /\ \A u \in Threads : ProcOf[u] # p => pc'[u] = pc[u] /\ lk'[u] = lk[u]
      /\ entry'[p] = None /\ \A q \in Procs \ {p} : entry'[q] = entry[q]
      /\ alive' = alive \ {p}
      /\ UNCHANGED <<lockFile, locks, reg>>
  BY DEF Crash, files, TypeOK
<1>3. /\ "dead" \notin Inside
      /\ Counted \subseteq Using /\ Using \subseteq Inside /\ Past \subseteq Using
      /\ \A u \in Threads : ProcOf[u] \in Procs
  BY Places DEF WriterAssumptions
<1>4. EntryInv'
  <2>1. \A u \in Threads :
           /\ pc'[u] \in Using => lk'[u] # None /\ lk'[u] = entry'[ProcOf[u]]
           /\ pc'[u] = "idle" => lk'[u] = None
           /\ pc'[u] # "dead" => ProcOf[u] \in alive'
    BY <1>1, <1>2, <1>3 DEF EntryInv
  <2>2. \A q, r \in Procs : entry'[q] # None /\ entry'[q] = entry'[r] => q = r
    BY <1>1, <1>2 DEF EntryInv
  <2>3. \A q \in Procs : entry'[q] # None =>
           \E u \in Threads : ProcOf[u] = q /\ lk'[u] = entry'[q] /\ pc'[u] \in Inside
    BY <1>1, <1>2 DEF EntryInv
  <2>4. QED  BY <2>1, <2>2, <2>3 DEF EntryInv
<1>5. ASSUME NEW q \in Procs, entry'[q] # None,
             NEW u \in Threads, pc[u] \in Using, lk[u] = entry[q]
      PROVE  ProcOf[u] # p
  BY <1>1, <1>2, <1>5, SameProcess
<1>6. CountInv'
  <2>1. \A q \in Procs : entry'[q] # None =>
           locks'[entry'[q]].refCnt = Cardinality(Counting(entry[q]))'
    <3>1. ASSUME NEW q \in Procs, entry'[q] # None
          PROVE  locks'[entry'[q]].refCnt = Cardinality(Counting(entry[q])')
      <4>1. /\ entry'[q] \in Objects /\ entry'[q] = entry[q]
            /\ locks'[entry'[q]].refCnt = Cardinality(Counting(entry'[q]))
        BY <1>1, <1>2, <3>1 DEF TypeOK, CountInv
      <4>2. ASSUME NEW x \in Objects, x = entry[q], locks'[x].refCnt = Cardinality(Counting(x))
            PROVE  locks'[x].refCnt = Cardinality(Counting(x)')
        <5>1. Counting(x)' = Counting(x)
          BY <1>2, <1>3, <1>5, <3>1, <4>1, <4>2 DEF Counting
        <5>2. QED  BY <4>2, <5>1
      <4>3. QED  BY <4>1, <4>2
    <3>2. QED  BY <3>1
  <2>2. \A u \in Threads : pc'[u] \in {"count", "uncount"} => reg'[u] = locks'[lk'[u]].refCnt
    BY <1>1, <1>2 DEF CountInv
  <2>3. \A u, v \in Threads :
          pc'[u] \in {"count", "uncount"} /\ pc'[v] \in {"count", "uncount"} /\ lk'[u] = lk'[v] => u = v
    BY <1>1, <1>2 DEF CountInv
  <2>4. QED  BY <2>1, <2>2, <2>3 DEF CountInv
<1>7. LockInv'
  <2>1. ASSUME NEW q \in Procs, entry'[q] # None, locks'[entry'[q]].locked
        PROVE  \E u \in Threads : locks'[entry'[q]].file = u /\ pc'[u] \in Past /\ lk'[u] = entry'[q]
    <3>1. entry'[q] = entry[q]
      BY <1>2, <2>1
    <3>2. PICK u \in Threads : locks[entry[q]].file = u /\ pc[u] \in Past /\ lk[u] = entry[q]
      BY <1>1, <1>2, <2>1, <3>1 DEF LockInv
    <3>3. QED  BY <1>2, <1>3, <1>5, <2>1, <3>1, <3>2
  <2>2. lockFile' \in LockFiles /\ ProcOf[lockFile'.by] \in alive' =>
          \/ pc'[lockFile'.by] = "mark"
          \/ pc'[lockFile'.by] \in Past /\ locks'[lk'[lockFile'.by]].locked
    BY <1>1, <1>2 DEF LockInv, LockFiles
  <2>3. QED  BY <2>1, <2>2 DEF LockInv
<1>8. QED  BY <1>4, <1>6, <1>7 DEF LocksInv

-----------------------------------------------------------------------------
(* Every step *)

\* Every step keeps LocksInv.
LEMMA LocksStep ==
  ASSUME WriterAssumptions, TypeOK, LocksInv, RaceFree, "remove" \notin WriterFaults,
         [Next]_awVars
  PROVE  LocksInv'
<1>1. ASSUME NEW t \in Threads, Step(t) PROVE LocksInv'
  BY <1>1, EnterStep, CountStep, WaitStep, CreateLockStep, MarkStep, BodyStep, GiveUpStep,
     LookupStep, UnlockStep, UncountStep, DropStep DEF Step, Acquire, Release
<1>2. ASSUME NEW t \in Threads, Expire(t) PROVE LocksInv'
  BY <1>2, StutterStep DEF Expire, files, mem
<1>3. ASSUME NEW p \in Procs, Crash(p) PROVE LocksInv'
  BY <1>3, CrashStep
<1>4. CASE UNCHANGED awVars
  BY <1>4, StutterStep DEF awVars, files, mem, local
<1>5. QED  BY <1>1, <1>2, <1>3, <1>4 DEF Next, Terminated

LockTypes ==
  /\ lockFile \in LockFiles \union {NoFile, Stuck}
  /\ entry \in [Procs -> Objects \union {None}]
  /\ locks \in [Objects -> FileLock]
  /\ alive \subseteq Procs
  /\ lk \in [Threads -> Objects \union {None}]
  /\ reg \in [Threads -> Int]
  /\ open \in [Threads -> BOOLEAN]
  /\ expired \in [Threads -> BOOLEAN]

\* The rest of TypeOK.
LEMMA TypesSplit == TypeOK <=> FileTypes /\ LockTypes
BY DEF TypeOK, FileTypes, LockTypes

\* Storing into one object.
LEMMA CountStored ==
  ASSUME NEW f \in [Objects -> FileLock], NEW o \in Objects, NEW n \in Int
  PROVE  [f EXCEPT ![o].refCnt = n] \in [Objects -> FileLock]
<1>1. [f[o] EXCEPT !.refCnt = n] \in FileLock
  BY DEF FileLock
<1>2. [f EXCEPT ![o].refCnt = n] = [f EXCEPT ![o] = [f[o] EXCEPT !.refCnt = n]]
  OBVIOUS
<1>3. QED  BY <1>1, <1>2

\* Marking or unmarking one object.
LEMMA MarkStored ==
  ASSUME NEW f \in [Objects -> FileLock], NEW o \in Objects,
         NEW b \in BOOLEAN, NEW x \in Threads \union {None}
  PROVE  [f EXCEPT ![o].locked = b, ![o].file = x] \in [Objects -> FileLock]
<1>1. [f[o] EXCEPT !.locked = b, !.file = x] \in FileLock
  BY DEF FileLock
<1>2. [f EXCEPT ![o].locked = b, ![o].file = x] = [f EXCEPT ![o] = [f[o] EXCEPT !.locked = b, !.file = x]]
  OBVIOUS
<1>3. QED  BY <1>1, <1>2

\* Every step keeps the types.
LEMMA LockTypesStep ==
  ASSUME WriterAssumptions, TypeOK, LocksInv, [Next]_awVars
  PROVE  LockTypes'
<1>1. LockTypes /\ EntryInv
  BY TypesSplit DEF LocksInv
<1>2. ASSUME NEW o \in Objects
      PROVE  /\ locks[o].refCnt \in Int /\ locks[o].locked \in BOOLEAN
             /\ locks[o].file \in Threads \union {None}
             /\ [locks EXCEPT ![o] = NewLock] \in [Objects -> FileLock]
  BY <1>1 DEF LockTypes, FileLock, NewLock
<1>3. \A t \in Threads : pc[t] \in {"count", "mark", "giveup", "unlock", "uncount"} => lk[t] \in Objects
  BY <1>1, LkObject, Places
<1>4. NoFile \in LockFiles \union {NoFile, Stuck} /\ Stuck \in LockFiles \union {NoFile, Stuck}
  OBVIOUS
<1>5. ASSUME NEW t \in Threads, Enter(t) PROVE LockTypes'
  <2> DEFINE p == ProcOf[t]
             o == IF entry[p] = None THEN Fresh ELSE entry[p]
  <2>1. /\ entry' = [entry EXCEPT ![p] = o]
        /\ locks' = (IF entry[p] = None THEN [locks EXCEPT ![o] = NewLock] ELSE locks)
        /\ lk' = [lk EXCEPT ![t] = o]
        /\ reg' = [reg EXCEPT ![t] = locks'[o].refCnt]
        /\ UNCHANGED <<lockFile, alive, open, expired>>
    BY <1>5 DEF Enter, files
  <2>2. p \in Procs /\ o \in Objects
    BY <1>1, FreshObject DEF WriterAssumptions, LockTypes
  <2> HIDE DEF o
  <2>3. locks' \in [Objects -> FileLock] /\ locks'[o].refCnt \in Int
    <3>1. locks' \in [Objects -> FileLock]
      BY <1>1, <1>2, <2>1, <2>2 DEF LockTypes
    <3>2. QED  BY <2>2, <3>1 DEF FileLock
  <2>4. QED  BY <1>1, <2>1, <2>2, <2>3 DEF LockTypes
<1>6. ASSUME NEW t \in Threads, Count(t) \/ Uncount(t) PROVE LockTypes'
  <2>1. PICK n \in Int : locks' = [locks EXCEPT ![lk[t]].refCnt = n]
    BY <1>1, <1>6 DEF Count, Uncount, LockTypes
  <2>2. lk[t] \in Objects
    BY <1>3, <1>6 DEF Count, Uncount
  <2>3. locks' \in [Objects -> FileLock]
    BY <1>1, <2>1, <2>2, CountStored DEF LockTypes
  <2>4. QED  BY <1>1, <1>6, <2>3 DEF Count, Uncount, LockTypes, files, local
<1>7. ASSUME NEW t \in Threads, Mark(t) PROVE LockTypes'
  <2>1. locks' \in [Objects -> FileLock]
    <3>1. lk[t] \in Objects /\ locks' = [locks EXCEPT ![lk[t]].locked = TRUE, ![lk[t]].file = t]
      BY <1>3, <1>7 DEF Mark
    <3>2. locks \in [Objects -> FileLock] /\ TRUE \in BOOLEAN /\ t \in Threads \union {None}
      BY <1>1 DEF LockTypes
    <3>3. QED  BY <3>1, <3>2, MarkStored
  <2>2. QED  BY <1>1, <1>7, <2>1 DEF Mark, LockTypes, files, local
<1>8. ASSUME NEW t \in Threads, Unlock(t) PROVE LockTypes'
  <2>1. lk[t] \in Objects
    BY <1>3, <1>8 DEF Unlock
  <2>2. locks' \in [Objects -> FileLock]
    <3>1. locks' = locks \/ locks' = [locks EXCEPT ![lk[t]].locked = FALSE, ![lk[t]].file = None]
      BY <1>8 DEF Unlock
    <3>2. locks \in [Objects -> FileLock] /\ FALSE \in BOOLEAN /\ None \in Threads \union {None}
      BY <1>1 DEF LockTypes
    <3>3. [locks EXCEPT ![lk[t]].locked = FALSE, ![lk[t]].file = None] \in [Objects -> FileLock]
      BY <2>1, <3>2, MarkStored, Zenon
    <3>4. QED  BY <3>1, <3>2, <3>3
  <2>3. lockFile' \in LockFiles \union {NoFile, Stuck}
    BY <1>1, <1>8 DEF Unlock, Removed, LockTypes
  <2>4. open' \in [Threads -> BOOLEAN] /\ reg' \in [Threads -> Int]
    <3>1. open' = open \/ \E x : open' = [open EXCEPT ![x] = FALSE]
      BY <1>8 DEF Unlock
    <3>2. \E n \in Int : reg' = [reg EXCEPT ![t] = n]
      BY <1>2, <1>8, <2>1 DEF Unlock
    <3>3. QED  BY <1>1, <3>1, <3>2 DEF LockTypes
  <2>5. QED  BY <1>1, <1>8, <2>2, <2>3, <2>4 DEF Unlock, LockTypes
<1>9. ASSUME NEW t \in Threads, Wait(t) \/ LockExists(t) \/ CreateFails(t) \/ PidFails(t) \/ Check(t)
      PROVE  LockTypes'
  BY <1>1, <1>9 DEF Wait, LockExists, CreateFails, PidFails, Check, LockTypes, files, mem, local
<1>10. ASSUME NEW t \in Threads, CreateLock(t) \/ WritePid(t) \/ Steal(t) PROVE LockTypes'
  <2>1. lockFile' \in LockFiles \union {NoFile, Stuck}
    <3>1. \A b \in BOOLEAN : [by |-> t, pid |-> b] \in LockFiles
      BY DEF LockFiles
    <3>2. \/ lockFile' \in {lockFile, NoFile, Stuck}
          \/ \E b \in BOOLEAN : lockFile' = [by |-> t, pid |-> b]
      BY <1>10 DEF CreateLock, WritePid, Steal, Removed
    <3>3. QED  BY <1>1, <3>1, <3>2 DEF LockTypes
  <2>2. QED  BY <1>1, <1>10, <2>1 DEF CreateLock, WritePid, Steal, LockTypes, mem, local
<1>11. ASSUME NEW t \in Threads, GiveUp(t) PROVE LockTypes'
  <2>1. lk[t] \in Objects
    BY <1>3, <1>11 DEF GiveUp
  <2>2. reg' \in [Threads -> Int]
    <3> DEFINE m == locks[lk[t]].refCnt
               n == IF m > 0 THEN m ELSE m + 1
    <3>a. m \in Int
      BY <1>2, <2>1
    <3>b. n \in Int
      BY <3>a
    <3>c. reg' = [reg EXCEPT ![t] = n]
      BY <1>11 DEF GiveUp
    <3>1. \E k \in Int : reg' = [reg EXCEPT ![t] = k]
      BY <3>b, <3>c
    <3>2. QED  BY <1>1, <3>1 DEF LockTypes
  <2>3. QED  BY <1>1, <1>11, <2>2 DEF GiveUp, LockTypes, files, mem
<1>12. ASSUME NEW t \in Threads, Hold(t) PROVE LockTypes'
  BY <1>1, <1>12 DEF Hold, OpenTemp, BodyFails, WriteTemp, WriteTempFails, Rename, RenameFails,
     LockTypes, files, mem, local
<1>13. ASSUME NEW t \in Threads, Lookup(t) \/ Drop(t) PROVE LockTypes'
  BY <1>1, <1>13 DEF Lookup, Drop, LockTypes, files, mem, local, WriterAssumptions
<1>14. ASSUME NEW t \in Threads, Expire(t) PROVE LockTypes'
  BY <1>1, <1>14 DEF Expire, LockTypes, files, mem
<1>15. ASSUME NEW p \in Procs, Crash(p) PROVE LockTypes'
  BY <1>1, <1>15 DEF Crash, LockTypes, files
<1>16. CASE UNCHANGED awVars
  BY <1>1, <1>16 DEF LockTypes, awVars, files, mem, local
<1>17. QED
  BY <1>5, <1>6, <1>7, <1>8, <1>9, <1>10, <1>11, <1>12, <1>13, <1>14, <1>15, <1>16
     DEF Next, Terminated, Step, Acquire, Release

\* The start.
LEMMA LocksInit ==
  ASSUME WriterAssumptions, Init
  PROVE  LockTypes /\ LocksInv
<1>1. /\ lockFile \in {NoFile, Stuck}
      /\ entry = [p \in Procs |-> None] /\ locks = [o \in Objects |-> NewLock] /\ alive = Procs
      /\ pc = [t \in Threads |-> "idle"] /\ lk = [t \in Threads |-> None]
      /\ reg = [t \in Threads |-> 0] /\ open = [t \in Threads |-> FALSE]
      /\ expired = [t \in Threads |-> FALSE]
  BY DEF Init
<1>2. "idle" \notin Inside /\ "idle" \notin Using
  BY Places
<1>3. LockTypes
  BY <1>1 DEF LockTypes, NewLock, FileLock
<1>4. EntryInv
  BY <1>1, <1>2 DEF EntryInv, WriterAssumptions
<1>5. CountInv
  BY <1>1 DEF CountInv
<1>6. LockInv
  BY <1>1 DEF LockInv, WriterAssumptions
<1>7. QED  BY <1>3, <1>4, <1>5, <1>6 DEF LocksInv

\* However the lock is stolen, and whoever fails or dies: when nobody is
\* inside WriteFile any more, no live process has left its lock file behind,
\* and no map an entry.  Provided that os.Remove of the lock file does not
\* fail, and that the accesses to refCnt under two different locks do not
\* overlap: either leaves something behind.
THEOREM WriterInvHolds ==
  ASSUME RaceFree, "remove" \notin WriterFaults
  PROVE  Spec => []WriterInv
<1>1. Init => WriterInductive
  BY TargetInit, LocksInit, TypesSplit, WriterAssumptions DEF WriterInductive
<1>2. WriterInductive /\ [Next]_awVars => WriterInductive'
  <2>1. SUFFICES ASSUME WriterInductive, [Next]_awVars PROVE WriterInductive'
    OBVIOUS
  <2>2. FileTypes /\ TypeOK /\ FdInv /\ LocksInv
    BY <2>1, TypesSplit DEF WriterInductive
  <2>3. FileTypes' /\ FdInv'
    BY <2>1, <2>2, FileTypesStep, WriterAssumptions
  <2>4. LockTypes'
    BY <2>1, <2>2, LockTypesStep, WriterAssumptions
  <2>5. LocksInv'
    BY <2>1, <2>2, LocksStep, WriterAssumptions
  <2>6. TypeOK'
    BY <2>3, <2>4 DEF TypeOK, FileTypes, LockTypes
  <2>7. QED  BY <2>3, <2>5, <2>6 DEF WriterInductive
<1>3. WriterInductive => WriterInv
  <2>1. SUFFICES ASSUME WriterInductive, Quiet
                 PROVE  /\ lockFile \in LockFiles => ProcOf[lockFile.by] \notin alive
                        /\ \A p \in Procs : entry[p] = None
    BY DEF WriterInductive, WriterInv, LeftNothing
  <2>2. EntryInv /\ LockInv /\ Past \subseteq Inside /\ "mark" \in Inside
    BY <2>1, Places DEF WriterInductive, LocksInv
  <2>3. \A p \in Procs : entry[p] = None
    BY <2>1, <2>2 DEF EntryInv, Quiet
  <2>4. lockFile \in LockFiles => ProcOf[lockFile.by] \notin alive
    BY <2>1, <2>2 DEF LockInv, Quiet, LockFiles
  <2>5. QED  BY <2>3, <2>4
<1>4. QED  BY <1>1, <1>2, <1>3, PTL DEF Spec
=============================================================================
