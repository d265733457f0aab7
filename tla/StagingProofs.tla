---------------------------- MODULE StagingProofs ----------------------------
(***************************************************************************)
(* Proofs about Staging: the invariants its runs check, for every number   *)
(* of actors, stages and files, every limit and every bound.               *)
(*                                                                         *)
(* StagingInductive holds whatever disturbs the calls: types, where a call *)
(* is and what it holds there, who a pending transaction is of, the        *)
(* limits.  It gives StagingInv.  StagingHistory adds what holds as long   *)
(* as the disturbances a property names have not been met: that a call is  *)
(* alone, what its write has found and left, and from that what others     *)
(* have edited, what is recorded as applied, and what a tool answers.  The *)
(* actions are first reduced to their effect on the call they are of       *)
(* (Moved); one lemma per invariant then goes through these effects.       *)
(***************************************************************************)
EXTENDS Staging, FiniteSetTheorems, TLAPS

\* The changes a content has.
Changes(c) == IF c \in {Empty, Absent} THEN {} ELSE c

Requests  == [path: Files \union {NoPath}, base: Contents, body: Contents, conf: Confidences]
Jobs      == [kind: {"none", "tool", "apply", "applyAll"}, todo: Seq(Stages), staged: BOOLEAN,
              done: SUBSET Stages]
Databases == [status: [Stages -> Statuses], rows: Seq(Stages)]

TypeInv ==
  /\ TypeOK
  /\ job \in [Actors -> Jobs]
  /\ db \in Databases /\ seen \in [Actors -> Databases]

\* Where a call can be, and what it holds there: its temporary file, the
\* handle of its write.
CallOK(a) ==
  /\ pc[a] = "idle" => job[a] = NoJob /\ before[a] = Unset
  /\ pc[a] # "idle" => job[a].todo # <<>> /\ job[a].kind # "none"
  /\ job[a].kind = "tool" =>
       pc[a] \in {"create", "check", "backup", "temp", "rename", "record", "reply"}
  /\ pc[a] \in {"create", "record"} => job[a].kind = "tool"
  /\ pc[a] = "next" => job[a].kind = "applyAll" /\ Len(job[a].todo) > 1
  /\ pc[a] \in {"check", "backup", "temp", "rename", "save", "settle", "undo"} /\ File(a) # NoPath =>
       req[Stage(a)].body # Empty
  /\ pc[a] \in {"check", "backup", "temp", "rename"} => File(a) # NoPath
  /\ temp[a] = IF pc[a] = "rename" THEN req[Stage(a)].body ELSE Absent
  /\ a \in handle => pc[a] \in {"save", "settle", "undo"} /\ File(a) # NoPath
  /\ a \in cancelled => "cancel" \in met

CallInv == \A a \in Actors : CallOK(a)

\* A transaction that is pending is that of a call under way.
LogInv ==
  Without({"restore"}) =>
    \A tx \in txs : tx.status = "pending" => tx.by \in handle /\ tx.file = File(tx.by)

\* What is in the database, or worked on, was asked for.
AskedInv ==
  /\ \A s \in Stages : db.status[s] # "none" => req[s] # NoRequest
  /\ \A a \in Actors : \A i \in DOMAIN job[a].todo : req[job[a].todo[i]] # NoRequest

\* A request adds its own change to a source, or leaves nothing; nobody else
\* knows the change before.
ReqInv ==
  \A s \in Stages :
    /\ req[s].path # NoPath => req[s].body \in {With(req[s].base, s), Empty}
    /\ req[s].path # NoPath /\ Without({"empty"}) => req[s].base # Empty
    /\ req[s] = NoRequest =>
         /\ \A f \in Files : s \notin Changes(disk[f]) /\ s \notin Changes(bak[f])
         /\ \A t \in Stages : s \notin Changes(req[t].body)

AloneInv ==
  Without({"overlap"}) => \A a, b \in Actors : pc[a] # "idle" /\ pc[b] # "idle" => a = b

\* The limit holds for what is applied, and for what an apply saw when its
\* transaction began.
LimitInv ==
  /\ IsFiniteSet(HasStatus(db, "pending")) /\ IsFiniteSet(HasStatus(db, "applied"))
  /\ ApplyLimit
  /\ \A a \in Actors :
       job[a].kind # "tool" /\ pc[a] \in {"check", "backup", "temp", "rename", "save"} =>
         /\ IsFiniteSet(HasStatus(seen[a], "applied"))
         /\ Cardinality(HasStatus(seen[a], "applied")) < MaxApplies

\* What an apply saw when its transaction began is there when it commits.
SeenInv ==
  Without({"overlap"}) => \A a \in Actors :
    job[a].kind # "tool" /\ pc[a] \in {"check", "backup", "temp", "rename", "save"} => db = seen[a]

\* The write of a, step by step, when nobody gets in its way.
Undisturbed == Without({"overlap", "race"}) /\ CanRestore

WriteOK(a) ==
  /\ pc[a] \in {"backup", "temp", "rename"} => disk[File(a)] = before[a]
  /\ pc[a] \in {"temp", "rename"} /\ safety.backups => bak[File(a)] = before[a]
  /\ pc[a] \in {"save", "settle", "undo"} /\ File(a) # NoPath =>
       /\ disk[File(a)] = req[Stage(a)].body /\ before[a] # Absent
       /\ safety.backups => bak[File(a)] = before[a]
       /\ safety.log => a \in handle
  /\ pc[a] = "undo" => safety.backups /\ safety.log
  /\ job[a].kind = "apply" /\ (pc[a] \in {"load", "check"} \/ File(a) = NoPath) =>
       before[a] = Unset
  /\ pc[a] = "reply" /\ reply[a] = "error" /\ job[a].kind = "apply" /\ before[a] # Unset =>
       disk[File(a)] = before[a]

WriteInv == Undisturbed => (\A f \in Files : disk[f] # Absent) /\ \A a \in Actors : WriteOK(a)

\* What others made is in the file, and in what a rollback puts back.
EditOK(a) ==
  /\ pc[a] \in {"backup", "temp", "rename", "save", "settle", "undo"} /\ File(a) # NoPath =>
       before[a] = req[Stage(a)].base
  /\ pc[a] \in {"save", "settle", "undo"} /\ File(a) # NoPath =>
       made[File(a)] \subseteq Changes(before[a])

EditInv ==
  Undisturbed /\ Without({"empty"}) =>
    (\A f \in Files : made[f] \subseteq Changes(disk[f])) /\ \A a \in Actors : EditOK(a)

\* The applied stages are in their files, and in what a rollback puts back.
IsWritten(s) == req[s].path # NoPath /\ req[s].body # Empty

AppliedOK(a) ==
  pc[a] \in {"save", "undo"} /\ File(a) # NoPath =>
    \A s \in HasStatus(db, "applied") :
      IsWritten(s) /\ req[s].path = File(a) => s \in Changes(before[a])

AppliedInv ==
  Undisturbed /\ Without({"empty", "cancel"}) =>
    /\ \A s \in HasStatus(db, "applied") : IsWritten(s) => s \in Changes(disk[req[s].path])
    /\ \A a \in Actors : AppliedOK(a)

\* The change of a code tool is in the file once it is written, not before.
ToolOK(a) ==
  job[a].kind = "tool" /\ IsWritten(Stage(a)) =>
    /\ pc[a] \in {"create", "check", "backup", "temp", "rename"} =>
         Stage(a) \notin Changes(disk[File(a)])
    /\ pc[a] = "record" => Stage(a) \in Changes(disk[File(a)])
    /\ pc[a] = "reply" => (reply[a] = "applied" <=> Stage(a) \in Changes(disk[File(a)]))

ToolInv == Without({"overlap", "race"}) => \A a \in Actors : ToolOK(a)

Replies == {"none", "completed", "staged", "applied", "error"}

-----------------------------------------------------------------------------
(* Contents *)

LEMMA ContentFacts ==
  ASSUME StagingAssumptions
  PROVE  /\ Empty \in Contents /\ {} \in Contents /\ {} # Empty
         /\ Absent \notin Contents /\ Unset \notin Contents /\ Absent # Empty
         /\ \A c \in Contents : c = Empty \/ c \in SUBSET (Stages \union Outside)
         /\ \A c \in SUBSET (Stages \union Outside) : c \in Contents /\ c # Empty /\ c # Absent
         /\ NoPath \notin Files /\ \A s \in Stages : s \notin Outside
<1>1. Contents = {Empty} \union SUBSET (Stages \union Outside)
  BY DEF StagingAssumptions
<1>2. {Absent, Unset} \cap Contents = {} /\ NoPath \notin Files /\ Stages \cap Outside = {}
      /\ \A c \in SUBSET (Stages \union Outside) : c # Empty
  BY DEF StagingAssumptions
<1>3. Empty \in Contents /\ \A c \in SUBSET (Stages \union Outside) : c \in Contents
  BY <1>1, Zenon
<1>4. Absent \notin Contents /\ Unset \notin Contents
  BY <1>2
<1>5. \A c \in Contents : c = Empty \/ c \in SUBSET (Stages \union Outside)
  BY <1>1, Zenon
<1>6. {} \in SUBSET (Stages \union Outside)
  OBVIOUS
<1>7. \A s \in Stages : s \notin Outside
  BY <1>2
<1>8. QED  BY <1>2, <1>3, <1>4, <1>5, <1>6, <1>7, Zenon

LEMMA WithFacts ==
  ASSUME StagingAssumptions, NEW c \in Contents \union {Absent}, NEW x \in Stages \union Outside
  PROVE  /\ With(c, x) \in Contents /\ With(c, x) # Empty /\ With(c, x) # Absent
         /\ Changes(With(c, x)) = Changes(c) \union {x}
<1>1. With(c, x) \in SUBSET (Stages \union Outside) /\ With(c, x) = Changes(c) \union {x}
  BY ContentFacts DEF With, Changes
<1>2. QED  BY <1>1, ContentFacts DEF Changes

-----------------------------------------------------------------------------
(* What the pieces of an action do to the call it is of *)

\* The call of a goes on at label with the job j and the result.
Moves(a, j, label, result) ==
  /\ job' = [job EXCEPT ![a] = j]
  /\ pc' = [pc EXCEPT ![a] = label]
  /\ reply' = [reply EXCEPT ![a] = result]

SameJob(a, j) == j \in Jobs /\ j.kind = job[a].kind /\ j.todo = job[a].todo

\* The apply of one stage ends well or not: there is a next one, or the call
\* answers.
Ended(a, label, result, ok) ==
  \/ /\ label = "next" /\ result = reply[a]
     /\ job[a].kind = "applyAll" /\ Len(job[a].todo) > 1
  \/ label = "reply" /\ (result = "applied" \/ (result = "error" /\ ~ok))

\* FinalizeTransform goes on after the stage is created, or not.
Created(a, label, result) ==
  \/ label = "check" /\ File(a) # NoPath /\ req[Stage(a)].body # Empty
  \/ label = "record" /\ (File(a) # NoPath => req[Stage(a)].body = Empty)
  \/ /\ label = "reply" /\ result \in {"staged", "completed", "applied"}
     /\ result = "applied" => req[Stage(a)].body = Empty

CallTypes ==
  /\ job \in [Actors -> Jobs] /\ pc \in [Actors -> PCs] /\ reply \in [Actors -> Replies]

LEMMA JobFields ==
  ASSUME NEW j \in Jobs
  PROVE  /\ \A b \in BOOLEAN : /\ [j EXCEPT !.staged = b] \in Jobs
                               /\ [j EXCEPT !.staged = b].kind = j.kind
                               /\ [j EXCEPT !.staged = b].todo = j.todo
                               /\ [j EXCEPT !.staged = b].staged = b
         /\ \A d \in SUBSET Stages : /\ [j EXCEPT !.done = d] \in Jobs
                                     /\ [j EXCEPT !.done = d].kind = j.kind
                                     /\ [j EXCEPT !.done = d].todo = j.todo
         /\ \A t \in Seq(Stages) : /\ [j EXCEPT !.todo = t] \in Jobs
                                   /\ [j EXCEPT !.todo = t].kind = j.kind
                                   /\ [j EXCEPT !.todo = t].todo = t
<1>1. ASSUME NEW b \in BOOLEAN
      PROVE  /\ [j EXCEPT !.staged = b] \in Jobs
             /\ [j EXCEPT !.staged = b].kind = j.kind
             /\ [j EXCEPT !.staged = b].todo = j.todo
             /\ [j EXCEPT !.staged = b].staged = b
  BY DEF Jobs
<1>2. ASSUME NEW d \in SUBSET Stages
      PROVE  /\ [j EXCEPT !.done = d] \in Jobs
             /\ [j EXCEPT !.done = d].kind = j.kind
             /\ [j EXCEPT !.done = d].todo = j.todo
  BY DEF Jobs
<1>3. ASSUME NEW t \in Seq(Stages)
      PROVE  /\ [j EXCEPT !.todo = t] \in Jobs
             /\ [j EXCEPT !.todo = t].kind = j.kind
             /\ [j EXCEPT !.todo = t].todo = t
  BY DEF Jobs
<1>4. QED  BY <1>1, <1>2, <1>3

LEMMA MovesTyped ==
  ASSUME CallTypes, NEW a \in Actors, NEW j \in Jobs, NEW label \in PCs, NEW result \in Replies,
         Moves(a, j, label, result)
  PROVE  /\ CallTypes'
         /\ job'[a] = j /\ pc'[a] = label /\ reply'[a] = result
         /\ \A b \in Actors \ {a} : job'[b] = job[b] /\ pc'[b] = pc[b] /\ reply'[b] = reply[b]
BY DEF CallTypes, Moves

LEMMA CallMoves ==
  ASSUME CallTypes, NEW a \in Actors, NEW kind \in {"tool", "apply", "applyAll"},
         NEW todo \in Seq(Stages), NEW label \in {"create", "load"}, Call(a, kind, todo, label)
  PROVE  /\ pc[a] = "idle"
         /\ \E j \in Jobs : j.kind = kind /\ j.todo = todo /\ Moves(a, j, label, "none")
<1>1. NoJob \in Jobs
  BY DEF NoJob, Jobs
<1>2. \A n \in Jobs : /\ [n EXCEPT !.kind = kind, !.todo = todo] \in Jobs
                      /\ [n EXCEPT !.kind = kind, !.todo = todo].kind = kind
                      /\ [n EXCEPT !.kind = kind, !.todo = todo].todo = todo
  BY DEF Jobs
<1>3. PICK j \in Jobs : /\ j = [NoJob EXCEPT !.kind = kind, !.todo = todo]
                        /\ j.kind = kind /\ j.todo = todo
  BY <1>1, <1>2
<1>4. Moves(a, j, label, "none") /\ pc[a] = "idle"
  BY <1>3 DEF Call, Moves, Goto
<1>5. QED  BY <1>3, <1>4

LEMMA StageEndsMoves ==
  ASSUME CallTypes, NEW a \in Actors, Stage(a) \in Stages, NEW ok \in BOOLEAN, StageEnds(a, ok)
  PROVE  \E j \in Jobs, label \in PCs, result \in Replies :
           SameJob(a, j) /\ Moves(a, j, label, result) /\ Ended(a, label, result, ok)
<1>1. PICK d \in SUBSET Stages : job' = [job EXCEPT ![a].done = d]
  BY DEF StageEnds, CallTypes, Jobs
<1>2. PICK j \in Jobs : j = [job[a] EXCEPT !.done = d]
  BY JobFields DEF CallTypes
<1>3. SameJob(a, j) /\ job' = [job EXCEPT ![a] = j]
  BY <1>1, <1>2, JobFields DEF SameJob, CallTypes
<1>4. CASE job[a].kind = "applyAll" /\ Len(job[a].todo) > 1 /\ (ok \/ a = Server)
  <2>1. Moves(a, j, "next", reply[a])
    BY <1>3, <1>4 DEF StageEnds, Moves, Goto, CallTypes
  <2>2. reply[a] \in Replies /\ Ended(a, "next", reply[a], ok)
    BY <1>4 DEF Ended, CallTypes
  <2>3. QED  BY <1>3, <2>1, <2>2 DEF PCs
<1>5. CASE ~(job[a].kind = "applyAll" /\ Len(job[a].todo) > 1 /\ (ok \/ a = Server))
  <2>1. PICK result \in {"applied", "error"} :
          /\ result = IF ok \/ (a = Server /\ job[a].kind = "applyAll") THEN "applied" ELSE "error"
    OBVIOUS
  <2>2. Moves(a, j, "reply", result)
    BY <1>3, <1>5, <2>1 DEF StageEnds, Moves, Goto, Reply
  <2>3. Ended(a, "reply", result, ok)
    BY <2>1 DEF Ended
  <2>4. QED  BY <1>3, <2>2, <2>3 DEF PCs, Replies
<1>6. QED  BY <1>4, <1>5

LEMMA WriteFailedMoves ==
  ASSUME CallTypes, NEW a \in Actors, Stage(a) \in Stages, WriteFailed(a)
  PROVE  \E j \in Jobs, label \in PCs, result \in Replies :
           /\ SameJob(a, j) /\ Moves(a, j, label, result)
           /\ IF job[a].kind = "tool" THEN label = "reply" /\ result \in {"staged", "completed"}
              ELSE Ended(a, label, result, FALSE)
<1>1. CASE job[a].kind = "tool"
  <2>1. PICK result \in {"staged", "completed"} :
          result = IF job[a].staged THEN "staged" ELSE "completed"
    OBVIOUS
  <2>2. Moves(a, job[a], "reply", result)
    BY <1>1, <2>1 DEF WriteFailed, Reply, Goto, Moves, CallTypes
  <2>3. SameJob(a, job[a])
    BY DEF SameJob, CallTypes
  <2>4. QED  BY <1>1, <2>2, <2>3 DEF PCs, Replies, SameJob
<1>2. CASE job[a].kind # "tool"
  BY <1>2, StageEndsMoves DEF WriteFailed
<1>3. QED  BY <1>1, <1>2

LEMMA AfterCreateMoves ==
  ASSUME CallTypes, NEW a \in Actors, Stage(a) \in Stages, NEW staged \in BOOLEAN,
         AfterCreate(a, staged)
  PROVE  \E j \in Jobs, label \in PCs, result \in Replies :
           SameJob(a, j) /\ Moves(a, j, label, result) /\ Created(a, label, result)
<1>1. PICK j \in Jobs : /\ j = [job[a] EXCEPT !.staged = staged]
                        /\ SameJob(a, j) /\ job' = [job EXCEPT ![a] = j]
  BY JobFields DEF AfterCreate, SameJob, CallTypes
<1> DEFINE writes == req[Stage(a)].path # NoPath /\ ShouldAutoApply(Stage(a))
<1>2. CASE writes /\ req[Stage(a)].body # Empty
  <2>1. Moves(a, j, "check", reply[a])
    BY <1>1, <1>2 DEF AfterCreate, Moves, Goto, CallTypes
  <2>2. reply[a] \in Replies /\ Created(a, "check", reply[a])
    BY <1>2 DEF Created, File, CallTypes
  <2>3. QED  BY <1>1, <2>1, <2>2 DEF PCs
<1>3. CASE ~(writes /\ req[Stage(a)].body # Empty) /\ staged /\ ShouldAutoApply(Stage(a))
  <2>1. Moves(a, j, "record", reply[a])
    BY <1>1, <1>3 DEF AfterCreate, Moves, Goto, CallTypes
  <2>2. reply[a] \in Replies /\ Created(a, "record", reply[a])
    BY <1>3 DEF Created, File, CallTypes
  <2>3. QED  BY <1>1, <2>1, <2>2 DEF PCs
<1>4. CASE ~(writes /\ req[Stage(a)].body # Empty) /\ ~(staged /\ ShouldAutoApply(Stage(a)))
  <2>1. PICK result \in {"staged", "applied", "completed"} :
          result = IF staged THEN "staged" ELSE IF writes THEN "applied" ELSE "completed"
    OBVIOUS
  <2>2. Moves(a, j, "reply", result)
    BY <1>1, <1>4, <2>1 DEF AfterCreate, Moves, Goto, Reply
  <2>3. Created(a, "reply", result)
    BY <1>4, <2>1 DEF Created
  <2>4. QED  BY <1>1, <2>2, <2>3 DEF PCs, Replies
<1>5. QED  BY <1>2, <1>3, <1>4

LEMMA ForgetMoves ==
  ASSUME CallTypes, NEW a \in Actors, Forget(a)
  PROVE  NoJob \in Jobs /\ Moves(a, NoJob, "idle", "none")
BY DEF Forget, Moves, NoJob, Jobs

LEMMA Typed ==
  ASSUME TypeInv, CallInv
  PROVE  /\ CallTypes /\ WriteTypeOK
         /\ req \in [Stages -> Requests]
         /\ \A a \in Actors : pc[a] # "idle" => /\ Stage(a) \in Stages
                                              /\ File(a) \in Files \union {NoPath}
<1>1. CallTypes /\ WriteTypeOK /\ req \in [Stages -> Requests]
  BY DEF TypeInv, TypeOK, CallTypes, Requests, Replies
<1>2. ASSUME NEW a \in Actors, pc[a] # "idle"
      PROVE  Stage(a) \in Stages /\ File(a) \in Files \union {NoPath}
  <2>1. job[a].todo \in Seq(Stages) /\ job[a].todo # <<>>
    BY <1>2 DEF CallInv, CallOK, TypeInv, Jobs
  <2>2. Stage(a) \in Stages
    BY <2>1 DEF Stage
  <2>3. QED  BY <1>1, <2>2 DEF File, Requests
<1>3. QED  BY <1>1, <1>2

\* Every step leaves the calls where they are, or one of them goes on.
SomeCallMoves ==
  \/ UNCHANGED <<job, pc, reply>>
  \/ \E a \in Actors, j \in Jobs, label \in PCs, result \in Replies : Moves(a, j, label, result)

LEMMA JustMoves ==
  ASSUME CallTypes, NEW a \in Actors, UNCHANGED job,
         NEW label \in PCs, NEW result \in Replies,
         pc' = [pc EXCEPT ![a] = label], reply' = reply \/ reply' = [reply EXCEPT ![a] = result]
  PROVE  \E r \in Replies : Moves(a, job[a], label, r) /\ r \in {reply[a], result} /\ job[a] \in Jobs
<1>1. job[a] \in Jobs /\ job' = [job EXCEPT ![a] = job[a]] /\ reply[a] \in Replies
  BY DEF CallTypes
<1>2. CASE reply' = reply
  BY <1>1, <1>2 DEF Moves, CallTypes
<1>3. CASE reply' = [reply EXCEPT ![a] = result]
  BY <1>1, <1>3 DEF Moves
<1>4. QED  BY <1>2, <1>3

LEMMA FinalizeMoves ==
  ASSUME TypeInv, CallInv, NEW a \in Actors, Finalize(a)
  PROVE  SomeCallMoves
<1>1. CallTypes /\ (pc[a] # "idle" => Stage(a) \in Stages)
  BY Typed
<1>2. CASE CreateStage(a) \/ CreateStageFails(a)
  <2>1. Stage(a) \in Stages /\ \E staged \in BOOLEAN : AfterCreate(a, staged)
    BY <1>1, <1>2 DEF CreateStage, CreateStageFails
  <2>2. QED  BY <1>1, <2>1, AfterCreateMoves DEF SomeCallMoves
<1>3. CASE RecordApply(a) \/ RecordFails(a)
  <2>1. PICK result \in Replies : Reply(a, result) /\ UNCHANGED job
    BY <1>3 DEF RecordApply, RecordFails, Replies
  <2>2. "reply" \in PCs
    BY DEF PCs
  <2>3. QED  BY <1>1, <2>1, <2>2, JustMoves DEF Reply, Goto, SomeCallMoves
<1>4. QED  BY <1>2, <1>3 DEF Finalize

LEMMA WriteFileMoves ==
  ASSUME TypeInv, CallInv, NEW a \in Actors, WriteFile(a)
  PROVE  SomeCallMoves
<1>1. CallTypes /\ (pc[a] # "idle" => Stage(a) \in Stages)
  BY Typed
<1>2. ASSUME Stage(a) \in Stages, WriteFailed(a) PROVE SomeCallMoves
  BY <1>1, <1>2, WriteFailedMoves DEF SomeCallMoves
<1>3. ASSUME NEW label \in PCs, Goto(a, label), UNCHANGED <<job, reply>> PROVE SomeCallMoves
  <2>1. "none" \in Replies
    BY DEF Replies
  <2>2. QED  BY <1>1, <1>3, <2>1, JustMoves DEF Goto, SomeCallMoves
<1>4. {"backup", "temp", "rename", "save", "record", "reply"} \subseteq PCs
  BY DEF PCs
<1>5. CASE Check(a)
  BY <1>1, <1>2, <1>3, <1>4, <1>5 DEF Check
<1>6. CASE Backup(a)
  BY <1>3, <1>4, <1>6 DEF Backup
<1>7. CASE Temp(a)
  BY <1>3, <1>4, <1>7 DEF Temp
<1>8. CASE TempFails(a) \/ RenameError(a)
  BY <1>1, <1>2, <1>8 DEF TempFails, RenameError
<1>9. CASE Rename(a)
  <2>1. CASE Reply(a, "applied")
    <3>1. "applied" \in Replies
      BY DEF Replies
    <3>2. QED  BY <1>1, <1>4, <1>9, <2>1, <3>1, JustMoves DEF Rename, Reply, Goto, SomeCallMoves
  <2>2. CASE ~Reply(a, "applied")
    BY <1>3, <1>4, <1>9, <2>2 DEF Rename
  <2>3. QED  BY <2>1, <2>2
<1>10. QED  BY <1>5, <1>6, <1>7, <1>8, <1>9 DEF WriteFile

LEMMA PendingListed ==
  ASSUME IsFiniteSet(HasStatus(db, "pending")), NEW todo \in ListPendingStages
  PROVE  /\ todo \in Seq(Stages) /\ (HasStatus(db, "pending") # {} => todo # <<>>)
         /\ \A i \in DOMAIN todo : db.status[todo[i]] = "pending"
<1>1. PICK pending : pending = HasStatus(db, "pending") /\ pending \subseteq Stages
  BY DEF HasStatus
<1>2. PICK n \in Nat : n = Cardinality(pending) /\ (n = 0 <=> pending = {})
  BY <1>1, FS_CardinalityType, FS_EmptySet
<1>3. todo \in [1 .. n -> pending]
  BY <1>1, <1>2 DEF ListPendingStages
<1>4. todo \in Seq(Stages) /\ DOMAIN todo = 1 .. n
  BY <1>1, <1>3
<1>5. pending # {} => todo # <<>>
  BY <1>2, <1>4
<1>6. \A i \in 1 .. n : todo[i] \in HasStatus(db, "pending")
  BY <1>1, <1>3
<1>7. QED  BY <1>1, <1>4, <1>5, <1>6 DEF HasStatus

LEMMA ApplyMoves ==
  ASSUME TypeInv, CallInv, IsFiniteSet(HasStatus(db, "pending")), NEW a \in Actors, Apply(a)
  PROVE  SomeCallMoves
<1>1. CallTypes /\ (pc[a] # "idle" => Stage(a) \in Stages)
  BY Typed
<1>2. ASSUME NEW label \in PCs, Goto(a, label), UNCHANGED <<job, reply>> PROVE SomeCallMoves
  <2>1. "none" \in Replies
    BY DEF Replies
  <2>2. QED  BY <1>1, <1>2, <2>1, JustMoves DEF Goto, SomeCallMoves
<1>3. {"load", "save", "check", "settle", "undo", "reply", "next"} \subseteq PCs
      /\ {"none", "error"} \subseteq Replies
  BY DEF PCs, Replies
<1>4. ASSUME Stage(a) \in Stages, NEW ok \in BOOLEAN, StageEnds(a, ok) PROVE SomeCallMoves
  BY <1>1, <1>4, StageEndsMoves DEF SomeCallMoves
<1>5. ASSUME NEW kind \in {"apply", "applyAll"}, NEW todo \in Seq(Stages),
             Call(a, kind, todo, "load")
      PROVE  SomeCallMoves
  BY <1>1, <1>3, <1>5, CallMoves DEF SomeCallMoves
<1>6. CASE \E s \in Stages : ApplyOne(a, s)
  <2>1. PICK s \in Stages : Call(a, "apply", <<s>>, "load")
    BY <1>6 DEF ApplyOne
  <2>2. <<s>> \in Seq(Stages)
    OBVIOUS
  <2>3. QED  BY <1>5, <2>1, <2>2
<1>7. CASE ApplyAll(a)
  <2>1. PICK todo \in ListPendingStages : Call(a, "applyAll", todo, "load")
    BY <1>7 DEF ApplyAll
  <2>2. todo \in Seq(Stages)
    BY PendingListed
  <2>3. QED  BY <1>5, <2>1, <2>2
<1>8. CASE NextStage(a)
  <2>1. CASE a \in cancelled
    BY <1>1, <1>3, <1>8, <2>1, JustMoves DEF NextStage, Reply, Goto, SomeCallMoves
  <2>2. CASE a \notin cancelled
    <3>1. job[a].todo \in Seq(Stages) /\ job[a].todo # <<>>
      BY <1>8 DEF NextStage, CallInv, CallOK, TypeInv, Jobs
    <3>2. Tail(job[a].todo) \in Seq(Stages)
      BY <3>1
    <3>3. PICK j \in Jobs : j = [job[a] EXCEPT !.todo = Tail(job[a].todo)]
      BY <1>1, <3>2, JobFields DEF CallTypes
    <3>4. job' = [job EXCEPT ![a] = j] /\ reply' = [reply EXCEPT ![a] = reply[a]]
      BY <1>1, <1>8, <2>2, <3>3 DEF NextStage, CallTypes
    <3>5. Moves(a, j, "load", reply[a]) /\ reply[a] \in Replies
      BY <1>1, <1>8, <2>2, <3>4 DEF NextStage, Goto, Moves, CallTypes
    <3>6. QED  BY <1>3, <3>5 DEF SomeCallMoves
  <2>3. QED  BY <2>1, <2>2
<1>9. CASE LoadStage(a)
  BY <1>2, <1>3, <1>9 DEF LoadStage
<1>10. CASE LoadFails(a)
  BY <1>1, <1>4, <1>10 DEF LoadFails
<1>11. CASE SaveApply(a) \/ SaveFails(a)
  BY <1>2, <1>3, <1>11 DEF SaveApply, SaveFails
<1>12. CASE Settle(a)
  BY <1>1, <1>2, <1>3, <1>4, <1>12 DEF Settle
<1>13. CASE Undo(a)
  BY <1>1, <1>4, <1>13 DEF Undo
<1>14. QED  BY <1>6, <1>7, <1>8, <1>9, <1>10, <1>11, <1>12, <1>13 DEF Apply

LEMMA SomeCallMovesHolds ==
  ASSUME StagingAssumptions, TypeInv, CallInv, IsFiniteSet(HasStatus(db, "pending")), [Next]_sVars
  PROVE  SomeCallMoves
<1>1. CallTypes
  BY Typed
<1>2. CASE UNCHANGED sVars
  BY <1>2 DEF sVars, callVars, SomeCallMoves
<1>3. CASE Tools
  <2>1. PICK s \in Stages : Call(Server, "tool", <<s>>, "create")
    BY <1>3 DEF Tools, ReplaceTool, DeleteTool, AppendTool, InsertBeforeTool, InsertAfterTool, CodeTool
  <2>2. Server \in Actors /\ <<s>> \in Seq(Stages) /\ "create" \in PCs /\ "none" \in Replies
    BY DEF StagingAssumptions, PCs, Replies
  <2>3. QED  BY <1>1, <2>1, <2>2, CallMoves DEF SomeCallMoves
<1>4. ASSUME NEW a \in Actors, Finalize(a) \/ Apply(a) \/ WriteFile(a) PROVE SomeCallMoves
  BY <1>4, FinalizeMoves, ApplyMoves, WriteFileMoves
<1>5. ASSUME NEW a \in Actors, Environment(a) PROVE SomeCallMoves
  <2>1. CASE Cancel(a)
    BY <2>1 DEF Cancel, SomeCallMoves
  <2>2. CASE Return(a) \/ Crash(a)
    <3>1. "idle" \in PCs /\ "none" \in Replies
      BY DEF PCs, Replies
    <3>2. QED  BY <1>1, <2>2, <3>1, ForgetMoves DEF Return, Crash, SomeCallMoves
  <2>3. QED  BY <1>5, <2>1, <2>2 DEF Environment
<1>6. CASE \/ \E s \in Stages : Expire(s)
           \/ CleanupExpiredStages
           \/ \E f \in Files : Edit(f)
           \/ \E tx \in txs : Cleanup(tx)
  BY <1>6 DEF Expire, CleanupExpiredStages, Edit, Cleanup, callVars, SomeCallMoves
<1>7. QED  BY <1>2, <1>3, <1>4, <1>5, <1>6 DEF Next

-----------------------------------------------------------------------------
(* Types *)

LEMMA DatabaseFields ==
  ASSUME NEW d \in Databases, NEW s \in Stages, NEW status \in Statuses
  PROVE  /\ SetStage(d, s, status) \in Databases
         /\ SetStage(d, s, status).status = [d.status EXCEPT ![s] = status]
         /\ SetStage(d, s, status).rows = d.rows
BY DEF Databases, SetStage

LEMMA DatabaseTyped ==
  ASSUME StagingAssumptions, TypeInv, CallInv, [Next]_sVars
  PROVE  db' \in Databases
<1>1. db \in Databases /\ \A a \in Actors : pc[a] # "idle" => Stage(a) \in Stages
  BY Typed DEF TypeInv
<1>2. {"pending", "applied", "expired"} \subseteq Statuses
  BY DEF Statuses
<1>3. ASSUME NEW s \in Stages, Insert(s) PROVE db' \in Databases
  <2>1. PICK d \in Databases : d = SetStage(db, s, "pending")
    BY <1>1, <1>2, DatabaseFields
  <2>. PICK rows0 \in Seq(Stages) : rows0 = d.rows
    BY <2>1 DEF Databases
  <2>2. PICK rows \in Seq(Stages) : rows = Append(d.rows, s)
    BY Append(rows0, s) \in Seq(Stages)
  <2>3. db' = [d EXCEPT !.rows = rows]
    BY <1>3, <2>1, <2>2 DEF Insert
  <2>4. QED  BY <2>3 DEF Databases
<1>4. ASSUME NEW a \in Actors, CreateStage(a) \/ CreateStageFails(a) PROVE db' \in Databases
  BY <1>1, <1>3, <1>4 DEF CreateStage, CreateStageFails
<1>5. ASSUME NEW a \in Actors, RecordApply(a) \/ SaveApply(a) PROVE db' \in Databases
  <2>1. PICK s \in Stages : db' = SetStage(db, s, "applied")
    BY <1>1, <1>5 DEF RecordApply, SaveApply
  <2>2. QED  BY <1>1, <1>2, <2>1, DatabaseFields
<1>6. CASE CleanupExpiredStages
  <2>1. PICK status \in [Stages -> Statuses] : db' = [db EXCEPT !.status = status]
    <3>1. [s \in Stages |-> IF s \in late /\ db.status[s] = "pending" THEN "expired" ELSE db.status[s]]
            \in [Stages -> Statuses]
      BY <1>1, <1>2 DEF Databases
    <3>2. QED  BY <1>6, <3>1 DEF CleanupExpiredStages
  <2>2. QED  BY <1>1, <2>1 DEF Databases
<1>7. CASE /\ ~CleanupExpiredStages
           /\ ~\E a \in Actors : CreateStage(a) \/ CreateStageFails(a) \/ RecordApply(a) \/ SaveApply(a)
  <2>1. db' = db
    BY <1>7 DEF sVars, dbVars, callVars, Next, Tools, Finalize, Apply, WriteFile, Environment,
       ReplaceTool, DeleteTool, AppendTool, InsertBeforeTool, InsertAfterTool, CodeTool, Call,
       RecordFails, ApplyOne, ApplyAll, NextStage, LoadStage, LoadFails, SaveFails, Settle, Undo,
       Check, Backup, Temp, TempFails, Rename, RenameError, Return, Cancel, Crash, Expire, Edit,
       Cleanup
  <2>2. QED  BY <1>1, <2>1
<1>8. QED  BY <1>4, <1>5, <1>6, <1>7

\* The steps that touch files, temporary files, backups or the log.
Touches ==
  \/ \E a \in Actors : \/ Backup(a) \/ Temp(a) \/ TempFails(a) \/ Rename(a) \/ RenameError(a)
                       \/ Settle(a) \/ Undo(a) \/ Crash(a)
  \/ \E f \in Files : Edit(f)
  \/ \E tx \in txs : Cleanup(tx)

LEMMA NoTouch ==
  ASSUME [Next]_sVars, ~Touches
  PROVE  UNCHANGED <<writeVars, made>>
BY DEF Touches, sVars, writeVars, dbVars, callVars, history, Next, Tools, Finalize, Apply, WriteFile,
   Environment, ReplaceTool, DeleteTool, AppendTool, InsertBeforeTool, InsertAfterTool,
   CodeTool, Call, CreateStage, CreateStageFails, RecordApply, RecordFails, ApplyOne, ApplyAll,
   NextStage, LoadStage, LoadFails, SaveApply, SaveFails, Check, Return, Cancel, Expire,
   CleanupExpiredStages, AfterCreate

LEMMA FilesTyped ==
  ASSUME StagingAssumptions, TypeInv, CallInv, [Next]_sVars
  PROVE  WriteTypeOK' /\ made' \in [Files -> SUBSET Outside] /\ safety' = safety
<1>1. /\ WriteTypeOK /\ made \in [Files -> SUBSET Outside]
      /\ req \in [Stages -> Requests]
      /\ \A a \in Actors : pc[a] # "idle" => Stage(a) \in Stages
      /\ \A a \in Actors : pc[a] \in {"backup", "temp", "rename"} => File(a) \in Files
  BY Typed DEF TypeInv, TypeOK, CallInv, CallOK
<1> USE DEF WriteTypeOK
<1>2. ASSUME NEW a \in Actors, Backup(a)
      PROVE  WriteTypeOK' /\ made' \in [Files -> SUBSET Outside] /\ safety' = safety
  BY <1>1, <1>2 DEF Backup, BackupPath, history
<1>3. ASSUME NEW a \in Actors, Temp(a)
      PROVE  WriteTypeOK' /\ made' \in [Files -> SUBSET Outside] /\ safety' = safety
  <2>1. req[Stage(a)].body \in Contents
    BY <1>1, <1>3 DEF Temp, Requests
  <2>2. QED  BY <1>1, <1>3, <2>1 DEF Temp, WriteTemp, history
<1>4. ASSUME NEW a \in Actors, TempFails(a)
      PROVE  WriteTypeOK' /\ made' \in [Files -> SUBSET Outside] /\ safety' = safety
  BY <1>1, <1>4 DEF TempFails, CleanupFailedWrite, history
<1>5. ASSUME NEW a \in Actors, Rename(a)
      PROVE  WriteTypeOK' /\ made' \in [Files -> SUBSET Outside] /\ safety' = safety
  <2>1. File(a) \in Files
    BY <1>1, <1>5 DEF Rename
  <2>2. \A status \in {"pending", "completed"} : Tx(a, File(a), status) \in Transactions
    BY <2>1 DEF Tx, Transactions
  <2>3. PICK status \in {"pending", "completed"} : RenameOver(a, File(a), status)
    BY <1>5 DEF Rename
  <2>4. txs' \subseteq Transactions /\ handle' \subseteq Actors
    BY <1>1, <2>2, <2>3 DEF RenameOver, BeginTransaction
  <2>5. QED  BY <1>1, <1>5, <2>1, <2>3, <2>4 DEF RenameOver, Rename, history
<1>6. ASSUME NEW a \in Actors, RenameError(a)
      PROVE  WriteTypeOK' /\ made' \in [Files -> SUBSET Outside] /\ safety' = safety
  BY <1>1, <1>6 DEF RenameError, RenameFails, CleanupFailedWrite, history
<1>7. ASSUME NEW a \in Actors, Settle(a)
      PROVE  WriteTypeOK' /\ made' \in [Files -> SUBSET Outside] /\ safety' = safety
  <2>1. \/ UNCHANGED <<disk, bak, temp, txs, handle>> \/ CommitHandle(a, File(a))
    BY <1>7 DEF Settle
  <2>2. a \in handle => Tx(a, File(a), "completed") \in Transactions
    <3>1. a \in handle => File(a) \in Files
      BY <1>7, Typed DEF CallInv, CallOK, Settle
    <3>2. QED  BY <3>1 DEF Tx, Transactions
  <2>3. QED  BY <1>1, <1>7, <2>1, <2>2 DEF Settle, CommitHandle, Close, history
<1>8. ASSUME NEW a \in Actors, Undo(a)
      PROVE  WriteTypeOK' /\ made' \in [Files -> SUBSET Outside] /\ safety' = safety
  <2>1. RollbackHandle(a, File(a)) \/ RollbackFails(a)
    BY <1>8 DEF Undo
  <2>2. CASE RollbackFails(a)
    BY <1>1, <1>8, <2>2 DEF Undo, RollbackFails, history
  <2>3. CASE RollbackHandle(a, File(a))
    <3>1. disk' \in [Files -> Contents \union {Absent}] /\ bak' \in [Files -> Contents \union {Absent}]
      BY <1>1, <2>3 DEF RollbackHandle
    <3>2. txs' \subseteq txs /\ handle' \subseteq handle /\ UNCHANGED temp
      BY <2>3 DEF RollbackHandle, Close
    <3>3. QED  BY <1>1, <1>8, <3>1, <3>2 DEF Undo, history
  <2>4. QED  BY <2>1, <2>2, <2>3
<1>9. ASSUME NEW a \in Actors, Crash(a)
      PROVE  WriteTypeOK' /\ made' \in [Files -> SUBSET Outside] /\ safety' = safety
  BY <1>1, <1>9 DEF Crash, LogDies
<1>10. ASSUME NEW f \in Files, Edit(f)
      PROVE  WriteTypeOK' /\ made' \in [Files -> SUBSET Outside] /\ safety' = safety
  <2>1. PICK e \in Outside : /\ disk' = [disk EXCEPT ![f] = With(disk[f], e)]
                             /\ made' = [made EXCEPT ![f] = made[f] \union {e}]
    BY <1>10 DEF Edit
  <2>2. disk[f] \in Contents \union {Absent}
    BY <1>1
  <2>3. With(disk[f], e) \in Contents
    BY <2>2, WithFacts
  <2>4. UNCHANGED <<safety, bak, temp, txs, handle>>
    BY <1>10 DEF Edit
  <2>5. QED  BY <1>1, <2>1, <2>3, <2>4
<1>11. ASSUME NEW tx \in txs, Cleanup(tx)
      PROVE  WriteTypeOK' /\ made' \in [Files -> SUBSET Outside] /\ safety' = safety
  BY <1>1, <1>11 DEF Cleanup, CleanupTransaction, history
<1>12. CASE ~Touches
  <2>1. UNCHANGED <<writeVars, made>>
    BY <1>12, NoTouch
  <2>2. QED  BY <1>1, <2>1 DEF writeVars
<1>13. QED  BY <1>2, <1>3, <1>4, <1>5, <1>6, <1>7, <1>8, <1>9, <1>10, <1>11, <1>12 DEF Touches

\* A request comes from a code tool: from a source the file has, or none.
ToolEffect(s, path, source, body, conf) ==
  /\ req[s] = NoRequest
  /\ path \in Files \union {NoPath} /\ source \in Contents /\ conf \in Confidences
  /\ source = IF path = NoPath THEN {} ELSE disk[path]
  /\ body \in {With(source, s), Empty} /\ body \in Contents
  /\ req' = [req EXCEPT ![s] = BuildStage(path, source, body, conf)]
  /\ BuildStage(path, source, body, conf) \in Requests
  /\ Call(Server, "tool", <<s>>, "create")
  /\ Meet(Overlap \union {"empty" : x \in {Empty} \cap {source}})

LEMMA ToolsEffect ==
  ASSUME StagingAssumptions, TypeInv, Tools
  PROVE  \E s \in Stages : \E path, source, body, conf : ToolEffect(s, path, source, body, conf)
<1>1. PICK s \in Stages, canEmpty \in BOOLEAN : CodeTool(s, canEmpty)
  BY DEF Tools, ReplaceTool, DeleteTool, AppendTool, InsertBeforeTool, InsertAfterTool
<1>2. PICK path \in Files \union {NoPath} :
        \E source : 
          /\ source = IF path = NoPath THEN {} ELSE disk[path]
          /\ req[s] = NoRequest /\ source # Absent
          /\ Call(Server, "tool", <<s>>, "create")
          /\ \E conf \in Confidences,
                body \in {With(source, s)} \union {Empty : x \in {TRUE} \cap {canEmpty}} :
               req' = [req EXCEPT ![s] = BuildStage(path, source, body, conf)]
          /\ Meet(Overlap \union {"empty" : x \in {Empty} \cap {source}})
  BY <1>1 DEF CodeTool
<1>3. PICK source : 
          /\ source = IF path = NoPath THEN {} ELSE disk[path]
          /\ req[s] = NoRequest /\ source # Absent
          /\ Call(Server, "tool", <<s>>, "create")
          /\ \E conf \in Confidences,
                body \in {With(source, s)} \union {Empty : x \in {TRUE} \cap {canEmpty}} :
               req' = [req EXCEPT ![s] = BuildStage(path, source, body, conf)]
          /\ Meet(Overlap \union {"empty" : x \in {Empty} \cap {source}})
  BY <1>2
<1>4. PICK conf \in Confidences, body \in {With(source, s), Empty} :
        req' = [req EXCEPT ![s] = BuildStage(path, source, body, conf)]
  BY <1>3
<1>5. source \in Contents
  BY <1>3, ContentFacts DEF TypeInv, TypeOK, WriteTypeOK
<1>6. body \in Contents
  BY <1>5, WithFacts, ContentFacts
<1>7. BuildStage(path, source, body, conf) \in Requests
  BY <1>5, <1>6 DEF BuildStage, Requests
<1>8. ToolEffect(s, path, source, body, conf)
  BY <1>3, <1>4, <1>5, <1>6, <1>7 DEF ToolEffect
<1>9. QED  BY <1>8

LEMMA OnlyToolsRequest ==
  ASSUME [Next]_sVars, ~Tools
  PROVE  UNCHANGED req
BY DEF sVars, dbVars, Next, Finalize, Apply, WriteFile, Environment, CreateStage,
   CreateStageFails, AfterCreate, RecordApply, RecordFails, ApplyOne, ApplyAll, NextStage,
   LoadStage, LoadFails, SaveApply, SaveFails, Settle, Undo, Check, Backup, Temp, TempFails,
   Rename, RenameError, Return, Cancel, Crash, Expire, CleanupExpiredStages, Edit, Cleanup

LEMMA LateOnlyGrows ==
  ASSUME StagingAssumptions, late \subseteq Stages, [Next]_sVars
  PROVE  late' \subseteq Stages
<1>1. CASE \E s \in Stages : Expire(s)
  BY <1>1 DEF Expire
<1>2. CASE ~\E s \in Stages : Expire(s)
  BY <1>2 DEF sVars, dbVars, Next, Tools, ReplaceTool, DeleteTool, AppendTool, InsertBeforeTool,
     InsertAfterTool, CodeTool, Call, Finalize, Apply, WriteFile, Environment, CreateStage,
     CreateStageFails, AfterCreate, RecordApply, RecordFails, ApplyOne, ApplyAll, NextStage,
     LoadStage, LoadFails, SaveApply, SaveFails, Settle, Undo, Check, Backup, Temp, TempFails,
     Rename, RenameError, Return, Cancel, Crash, CleanupExpiredStages, Edit, Cleanup
<1>3. QED  BY <1>1, <1>2

\* Some kinds of disturbance are met, or none.
Grows == \E kinds \in SUBSET Disturbances : met' = met \union kinds

LEMMA MetGrows ==
  ASSUME StagingAssumptions, [Next]_sVars
  PROVE  met \subseteq met' /\ (met \subseteq Disturbances => met' \subseteq Disturbances)
<1>1. ASSUME NEW kind, Fault(kind) PROVE Grows
  <2>1. kind \in Disturbances /\ met' = met \union {kind}
    BY <1>1 DEF Fault, Meet, Disturbances, StagingAssumptions
  <2>2. {kind} \in SUBSET Disturbances
    BY <2>1
  <2>3. QED  BY <2>1, <2>2, Zenon DEF Grows
<1>2. ASSUME NEW kinds, kinds \subseteq {"overlap", "race", "cleanup", "empty", "late"}, Meet(kinds)
      PROVE  Grows
  <2>1. kinds \in SUBSET Disturbances
    BY <1>2 DEF Disturbances
  <2>2. QED  BY <1>2, <2>1 DEF Meet, Grows
<1>3. ASSUME met' = met PROVE Grows
  <2>1. met' = met \union {} /\ {} \in SUBSET Disturbances
    BY <1>3
  <2>2. QED  BY <2>1, Zenon DEF Grows
<1>4. Overlap \subseteq {"overlap"}
  BY DEF Overlap
<1>5. ASSUME Tools PROVE Grows
  <2>1. PICK source : Meet(Overlap \union {"empty" : x \in {Empty} \cap {source}})
    BY <1>5 DEF Tools, ReplaceTool, DeleteTool, AppendTool, InsertBeforeTool, InsertAfterTool, CodeTool
  <2>2. Overlap \union {"empty" : x \in {Empty} \cap {source}} \subseteq {"overlap", "empty"}
    BY <1>4
  <2>3. QED  BY <1>2, <2>1, <2>2
<1>6. ASSUME NEW a \in Actors, Apply(a) PROVE Grows
  <2>1. met' = met \/ (\E kind : Fault(kind)) \/ Meet(Overlap)
    BY <1>6 DEF Apply, ApplyOne, ApplyAll, NextStage, LoadStage, LoadFails, SaveApply, SaveFails,
       Settle, Undo, Calm
  <2>2. QED  BY <1>1, <1>2, <1>3, <1>4, <2>1
<1>7. ASSUME NEW a \in Actors, Finalize(a) \/ WriteFile(a) \/ Environment(a) PROVE Grows
  <2>1. met' = met \/ \E kind : Fault(kind)
    BY <1>7 DEF Finalize, WriteFile, Environment, CreateStage, CreateStageFails, RecordApply,
       RecordFails, Check, Backup, Temp, TempFails, Rename, RenameError, Return, Cancel, Crash, Calm
  <2>2. QED  BY <1>1, <1>3, <2>1
<1>8. ASSUME \E s \in Stages : Expire(s) PROVE Grows
  <2>1. Meet({"late"})
    BY <1>8 DEF Expire
  <2>2. QED  BY <1>2, <2>1
<1>9. ASSUME CleanupExpiredStages PROVE Grows
  <2>1. Meet(Overlap) /\ Overlap \subseteq {"overlap", "race", "cleanup", "empty", "late"}
    BY <1>4, <1>9 DEF CleanupExpiredStages
  <2>2. QED  BY <1>2, <2>1
<1>10. ASSUME \E f \in Files : Edit(f) PROVE Grows
  <2>1. PICK f \in Files : Meet({"race" : x \in {TRUE} \cap {Writing(f)}})
    BY <1>10 DEF Edit
  <2>2. QED  BY <1>2, <2>1
<1>11. ASSUME \E tx \in txs : Cleanup(tx) PROVE Grows
  <2>1. PICK tx \in txs : Meet({"cleanup" : x \in {TRUE} \cap {Writing(tx.file)}})
    BY <1>11 DEF Cleanup
  <2>2. QED  BY <1>2, <2>1
<1>12. ASSUME UNCHANGED sVars PROVE Grows
  BY <1>3, <1>12 DEF sVars
<1>13. Grows
  BY <1>5, <1>6, <1>7, <1>8, <1>9, <1>10, <1>11, <1>12 DEF Next
<1>14. QED  BY <1>13 DEF Grows

LEMMA RestTyped ==
  ASSUME StagingAssumptions, TypeInv, CallInv, [Next]_sVars
  PROVE  /\ seen' \in [Actors -> Databases] /\ cancelled' \subseteq Actors
         /\ before' \in [Actors -> Contents \union {Absent, Unset}]
<1>1. /\ db \in Databases /\ seen \in [Actors -> Databases] /\ cancelled \subseteq Actors
      /\ before \in [Actors -> Contents \union {Absent, Unset}]
      /\ disk \in [Files -> Contents \union {Absent}]
      /\ Server \in Actors
  BY DEF TypeInv, TypeOK, WriteTypeOK, StagingAssumptions
<1>2. EmptyDb \in Databases
  BY DEF EmptyDb, Databases, Statuses
<1> DEFINE Same == UNCHANGED <<seen, cancelled, before>>
           Good == /\ seen' \in [Actors -> Databases] /\ cancelled' \subseteq Actors
                   /\ before' \in [Actors -> Contents \union {Absent, Unset}]
<1>3. ASSUME NEW a \in Actors, Forget(a) PROVE Good
  BY <1>1, <1>2, <1>3 DEF Forget
<1>4. ASSUME NEW a \in Actors, NEW kind, NEW todo, NEW label, Call(a, kind, todo, label) PROVE Good
  BY <1>1, <1>4 DEF Call
<1>5. CASE Tools
  <2>1. PICK todo : Call(Server, "tool", todo, "create")
    BY <1>5 DEF Tools, ReplaceTool, DeleteTool, AppendTool, InsertBeforeTool, InsertAfterTool, CodeTool
  <2>2. QED  BY <1>1, <1>4, <2>1
<1>6. ASSUME NEW a \in Actors, Apply(a) PROVE Good
  <2>1. CASE (\E s \in Stages : ApplyOne(a, s)) \/ ApplyAll(a)
    <3>1. PICK kind, todo : Call(a, kind, todo, "load")
      BY <2>1 DEF ApplyOne, ApplyAll
    <3>2. QED  BY <1>4, <3>1
  <2>2. CASE LoadStage(a)
    BY <1>1, <2>2 DEF LoadStage, history
  <2>3. CASE NextStage(a) \/ LoadFails(a) \/ SaveApply(a) \/ SaveFails(a) \/ Settle(a) \/ Undo(a)
    <3>1. Same
      BY <2>3 DEF NextStage, LoadFails, SaveApply, SaveFails, Settle, Undo, StageEnds, history
    <3>2. QED  BY <1>1, <3>1
  <2>4. QED  BY <1>6, <2>1, <2>2, <2>3 DEF Apply
<1>7. ASSUME NEW a \in Actors, Finalize(a) PROVE Good
  <2>1. Same
    BY <1>7 DEF Finalize, CreateStage, CreateStageFails, AfterCreate, RecordApply, RecordFails, history
  <2>2. QED  BY <1>1, <2>1
<1>8. ASSUME NEW a \in Actors, WriteFile(a) PROVE Good
  <2>1. CASE Check(a)
    <3>1. UNCHANGED <<seen, cancelled>>
      BY <2>1 DEF Check, WriteFailed, StageEnds
    <3>2. before' = before \/ before' = [before EXCEPT ![a] = disk[File(a)]]
      BY <2>1 DEF Check
    <3>3. disk[File(a)] \in Contents \union {Absent}
      BY <1>1, <2>1, Typed DEF CallInv, CallOK, Check
    <3>4. QED  BY <1>1, <3>1, <3>2, <3>3
  <2>2. CASE ~Check(a)
    <3>1. Same
      BY <1>8, <2>2 DEF WriteFile, Backup, Temp, TempFails, Rename, RenameError, WriteFailed, StageEnds, history
    <3>2. QED  BY <1>1, <3>1
  <2>3. QED  BY <2>1, <2>2
<1>9. ASSUME NEW a \in Actors, Environment(a) PROVE Good
  BY <1>1, <1>3, <1>9 DEF Environment, Return, Crash, Cancel, history
<1>10. CASE \E f \in Files : Edit(f)
  BY <1>1, <1>10 DEF Edit, callVars
<1>11. CASE \/ \E s \in Stages : Expire(s)
            \/ CleanupExpiredStages
            \/ \E tx \in txs : Cleanup(tx)
            \/ UNCHANGED sVars
  <2>1. Same
    BY <1>11 DEF Expire, CleanupExpiredStages, Cleanup, sVars, callVars, history
  <2>2. QED  BY <1>1, <2>1
<1>12. QED  BY <1>5, <1>6, <1>7, <1>8, <1>9, <1>10, <1>11 DEF Next

LEMMA TypeStep ==
  ASSUME StagingAssumptions, TypeInv, CallInv, IsFiniteSet(HasStatus(db, "pending")), [Next]_sVars
  PROVE  TypeInv'
<1>1. WriteTypeOK' /\ made' \in [Files -> SUBSET Outside]
  BY FilesTyped
<1>2. db' \in Databases
  BY DatabaseTyped
<1>3. CallTypes'
  <2>1. CallTypes
    BY Typed
  <2>2. QED  BY <2>1, SomeCallMovesHolds, MovesTyped DEF SomeCallMoves, CallTypes
<1>4. req' \in [Stages -> Requests]
  <2>1. req \in [Stages -> Requests]
    BY Typed
  <2>2. CASE Tools
    <3>1. PICK s \in Stages, r \in Requests : req' = [req EXCEPT ![s] = r]
      BY <2>2, ToolsEffect DEF ToolEffect
    <3>2. QED  BY <2>1, <3>1
  <2>3. CASE ~Tools
    BY <2>1, <2>3, OnlyToolsRequest
  <2>4. QED  BY <2>2, <2>3
<1>5. late' \subseteq Stages
  BY LateOnlyGrows DEF TypeInv, TypeOK
<1>6. met' \subseteq Disturbances
  BY MetGrows DEF TypeInv, TypeOK
<1>7. /\ seen' \in [Actors -> Databases] /\ cancelled' \subseteq Actors
      /\ before' \in [Actors -> Contents \union {Absent, Unset}]
  BY RestTyped
<1>8. job' \in [Actors -> Jobs]
  BY <1>3 DEF CallTypes
<1>9. \A a \in Actors : /\ job'[a].kind \in {"none", "tool", "apply", "applyAll"}
                        /\ job'[a].todo \in Seq(Stages)
                        /\ job'[a].done \subseteq Stages
  BY <1>8 DEF Jobs
<1>10. db'.status \in [Stages -> Statuses] /\ db'.rows \in Seq(Stages)
  BY <1>2 DEF Databases
<1>11. TypeOK'
  BY <1>1, <1>3, <1>4, <1>5, <1>6, <1>7, <1>9, <1>10 DEF TypeOK, CallTypes, Requests, Replies
<1>12. QED  BY <1>2, <1>7, <1>8, <1>11 DEF TypeInv

-----------------------------------------------------------------------------
(* The calls that do not move *)

\* The call of b stays where it is.
SameCall(b) ==
  /\ job'[b] = job[b] /\ pc'[b] = pc[b] /\ reply'[b] = reply[b] /\ temp'[b] = temp[b]
  /\ (b \in handle' <=> b \in handle) /\ (b \in cancelled' <=> b \in cancelled)
  /\ seen'[b] = seen[b]

SameCalls(a) == \A b \in Actors \ {a} : SameCall(b) /\ before'[b] = before[b]

LEMMA StageEndsFrame ==
  ASSUME CallTypes, NEW a \in Actors, NEW ok \in BOOLEAN, StageEnds(a, ok)
  PROVE  /\ \A b \in Actors \ {a} : job'[b] = job[b] /\ pc'[b] = pc[b] /\ reply'[b] = reply[b]
         /\ UNCHANGED <<seen, cancelled>>
BY DEF StageEnds, Goto, Reply, CallTypes

LEMMA WriteFailedFrame ==
  ASSUME CallTypes, NEW a \in Actors, WriteFailed(a)
  PROVE  /\ \A b \in Actors \ {a} : job'[b] = job[b] /\ pc'[b] = pc[b] /\ reply'[b] = reply[b]
         /\ UNCHANGED <<seen, cancelled>>
<1>1. CASE job[a].kind = "tool"
  BY <1>1 DEF WriteFailed, Goto, Reply, CallTypes
<1>2. CASE job[a].kind # "tool"
  BY <1>2, StageEndsFrame DEF WriteFailed
<1>3. QED  BY <1>1, <1>2

LEMMA OthersStay ==
  ASSUME TypeInv, CallInv, NEW a \in Actors,
         Finalize(a) \/ Apply(a) \/ WriteFile(a) \/ Environment(a)
  PROVE  SameCalls(a)
<1>1. /\ CallTypes /\ temp \in [Actors -> Contents \union {Absent}] /\ seen \in [Actors -> Databases]
      /\ before \in [Actors -> Contents \union {Absent, Unset}]
  BY Typed DEF TypeInv, TypeOK, WriteTypeOK
<1> USE DEF SameCalls, SameCall
<1>2. CASE CreateStage(a) \/ CreateStageFails(a)
  BY <1>1, <1>2 DEF CreateStage, CreateStageFails, AfterCreate, Goto, Reply, CallTypes, writeVars, history
<1>3. CASE RecordApply(a) \/ RecordFails(a)
  BY <1>1, <1>3 DEF RecordApply, RecordFails, Goto, Reply, CallTypes, writeVars, history
<1>4. CASE (\E s \in Stages : ApplyOne(a, s)) \/ ApplyAll(a)
  <2>1. PICK kind, todo : Call(a, kind, todo, "load")
    BY <1>4 DEF ApplyOne, ApplyAll
  <2>2. QED  BY <1>1, <2>1 DEF Call, Goto, CallTypes, writeVars
<1>5. CASE NextStage(a)
  BY <1>1, <1>5 DEF NextStage, Goto, Reply, CallTypes, writeVars, history
<1>6. CASE LoadStage(a)
  BY <1>1, <1>6 DEF LoadStage, Goto, CallTypes, writeVars, history
<1>7. CASE LoadFails(a)
  BY <1>1, <1>7, StageEndsFrame DEF LoadFails, writeVars, history
<1>8. CASE SaveApply(a) \/ SaveFails(a)
  BY <1>1, <1>8 DEF SaveApply, SaveFails, Goto, CallTypes, writeVars, history
<1>9. CASE Settle(a)
  <2>1. \/ Goto(a, "undo") /\ UNCHANGED <<temp, handle, job, seen, cancelled, reply>>
        \/ StageEnds(a, TRUE) /\ handle' = handle \ {a} /\ UNCHANGED temp
    BY <1>9 DEF Settle, CommitHandle, Close
  <2>2. before' = before
    BY <1>9 DEF Settle, history
  <2>3. QED  BY <1>1, <2>1, <2>2, StageEndsFrame DEF Goto, CallTypes
<1>10. CASE Undo(a)
  <2>1. StageEnds(a, FALSE) /\ handle' = handle \ {a} /\ UNCHANGED <<temp, before>>
    BY <1>10 DEF Undo, RollbackHandle, RollbackFails, Close, history
  <2>2. QED  BY <1>1, <2>1, StageEndsFrame
<1>11. CASE Check(a)
  <2>1. \/ Goto(a, "backup") /\ UNCHANGED <<job, seen, cancelled, reply>>
        \/ WriteFailed(a)
    BY <1>11 DEF Check
  <2>2. before' = before \/ before' = [before EXCEPT ![a] = disk[File(a)]]
    BY <1>11 DEF Check
  <2>3. UNCHANGED <<temp, handle>>
    BY <1>11 DEF Check, writeVars
  <2>4. QED  BY <1>1, <2>1, <2>2, <2>3, WriteFailedFrame DEF Goto, CallTypes
<1>12. CASE Backup(a) \/ Temp(a)
  BY <1>1, <1>12 DEF Backup, Temp, BackupPath, WriteTemp, Goto, CallTypes, history
<1>13. CASE TempFails(a) \/ RenameError(a)
  <2>1. WriteFailed(a) /\ UNCHANGED <<handle, before>> /\ (temp' = temp \/ temp' = [temp EXCEPT ![a] = Absent])
    BY <1>13 DEF TempFails, RenameError, RenameFails, CleanupFailedWrite, history
  <2>2. QED  BY <1>1, <2>1, WriteFailedFrame
<1>14. CASE Rename(a)
  <2>1. /\ temp' = [temp EXCEPT ![a] = Absent] /\ (handle' = handle \/ handle' = handle \union {a})
        /\ UNCHANGED <<job, seen, cancelled, before>>
        /\ \E label : pc' = [pc EXCEPT ![a] = label]
        /\ reply' = reply \/ \E result : reply' = [reply EXCEPT ![a] = result]
    BY <1>14 DEF Rename, RenameOver, BeginTransaction, Goto, Reply, history
  <2>2. QED  BY <1>1, <2>1 DEF CallTypes
<1>15. CASE Return(a)
  BY <1>1, <1>15 DEF Return, Forget, CallTypes, writeVars
<1>16. CASE Cancel(a)
  BY <1>1, <1>16 DEF Cancel, writeVars, history
<1>17. CASE Crash(a)
  BY <1>1, <1>17 DEF Crash, Forget, LogDies, CallTypes
<1>18. QED
  BY <1>2, <1>3, <1>4, <1>5, <1>6, <1>7, <1>8, <1>9, <1>10, <1>11, <1>12, <1>13, <1>14, <1>15,
     <1>16, <1>17 DEF Finalize, Apply, WriteFile, Environment

\* The steps that move no call.
Passive ==
  \/ \E s \in Stages : Expire(s)
  \/ CleanupExpiredStages
  \/ \E f \in Files : Edit(f)
  \/ \E tx \in txs : Cleanup(tx)
  \/ UNCHANGED sVars

LEMMA PassiveStays ==
  ASSUME TypeInv, Passive
  PROVE  /\ \A b \in Actors : SameCall(b) /\ (pc[b] # "reply" => before'[b] = before[b])
         /\ UNCHANGED <<req, callVars, temp, handle>>
<1>1. UNCHANGED <<req, callVars, temp, handle>>
  BY DEF Passive, Expire, CleanupExpiredStages, Edit, Cleanup, CleanupTransaction, sVars, writeVars,
     dbVars, history
<1>2. \A b \in Actors : SameCall(b)
  BY <1>1 DEF callVars, SameCall
<1>3. before \in [Actors -> Contents \union {Absent, Unset}]
  BY DEF TypeInv, TypeOK
<1>4. \A b \in Actors : pc[b] # "reply" => before'[b] = before[b]
  BY <1>3 DEF Passive, Expire, CleanupExpiredStages, Edit, Cleanup, sVars, history
<1>5. QED  BY <1>1, <1>2, <1>4

-----------------------------------------------------------------------------
(* The database *)

\* A stage gets another status.
Marks(s, status) == db' \in Databases /\ db'.status = [db.status EXCEPT ![s] = status]

\* What a step does to the database.
DbEffect ==
  \/ db' = db
  \/ \E a \in Actors : pc[a] = "create" /\ Room /\ Marks(Stage(a), "pending")
  \/ \E a \in Actors : /\ pc[a] = "record" /\ pc'[a] = "reply"
                       /\ Applicable(Stage(a)) /\ Marks(Stage(a), "applied")
  \/ \E a \in Actors : /\ pc[a] = "save" /\ pc'[a] = "settle"
                       /\ db = seen[a] /\ a \notin cancelled /\ Marks(Stage(a), "applied")
  \/ CleanupExpiredStages

LEMMA DbEffectHolds ==
  ASSUME StagingAssumptions, TypeInv, CallInv, [Next]_sVars
  PROVE  DbEffect
<1>1. /\ db \in Databases /\ db' \in Databases /\ CallTypes
      /\ \A a \in Actors : pc[a] # "idle" => Stage(a) \in Stages
  BY Typed, DatabaseTyped DEF TypeInv
<1>2. {"pending", "applied"} \subseteq Statuses
  BY DEF Statuses
<1>3. ASSUME NEW a \in Actors, CreateStage(a) \/ CreateStageFails(a) PROVE DbEffect
  <2>1. CASE db' = db
    BY <2>1 DEF DbEffect
  <2>2. CASE Insert(Stage(a)) /\ Room
    <3>1. PICK s \in Stages : s = Stage(a) /\ pc[a] = "create"
      BY <1>1, <1>3 DEF CreateStage, CreateStageFails
    <3>2. PICK d \in Databases : /\ d = SetStage(db, s, "pending")
                                 /\ d.status = [db.status EXCEPT ![s] = "pending"]
      BY <1>1, <1>2, DatabaseFields
    <3>3. db' = [d EXCEPT !.rows = Append(d.rows, s)]
      BY <2>2, <3>1, <3>2 DEF Insert
    <3>4. db'.status = d.status
      BY <3>3 DEF Databases
    <3>5. QED  BY <1>1, <2>2, <3>1, <3>2, <3>4 DEF Marks, DbEffect
  <2>3. QED  BY <1>3, <2>1, <2>2 DEF CreateStage, CreateStageFails
<1>4. ASSUME NEW a \in Actors, RecordApply(a) PROVE DbEffect
  <2>1. PICK s \in Stages : s = Stage(a) /\ db' = SetStage(db, s, "applied")
    BY <1>1, <1>4 DEF RecordApply
  <2>2. Marks(Stage(a), "applied")
    BY <1>1, <1>2, <2>1, DatabaseFields DEF Marks
  <2>3. pc'[a] = "reply"
    BY <1>1, <1>4 DEF RecordApply, Reply, Goto, CallTypes
  <2>4. QED  BY <1>4, <2>2, <2>3 DEF RecordApply, DbEffect
<1>5. ASSUME NEW a \in Actors, SaveApply(a) PROVE DbEffect
  <2>1. PICK s \in Stages : s = Stage(a) /\ db' = SetStage(db, s, "applied")
    BY <1>1, <1>5 DEF SaveApply
  <2>2. Marks(Stage(a), "applied")
    BY <1>1, <1>2, <2>1, DatabaseFields DEF Marks
  <2>3. pc'[a] = "settle"
    BY <1>1, <1>5 DEF SaveApply, Goto, CallTypes
  <2>4. QED  BY <1>5, <2>2, <2>3 DEF SaveApply, DbEffect
<1>6. CASE /\ ~CleanupExpiredStages
           /\ ~\E a \in Actors : CreateStage(a) \/ CreateStageFails(a) \/ RecordApply(a) \/ SaveApply(a)
  <2>1. db' = db
    BY <1>6 DEF sVars, dbVars, callVars, Next, Tools, Finalize, Apply, WriteFile, Environment,
       ReplaceTool, DeleteTool, AppendTool, InsertBeforeTool, InsertAfterTool, CodeTool, Call,
       RecordFails, ApplyOne, ApplyAll, NextStage, LoadStage, LoadFails, SaveFails, Settle, Undo,
       Check, Backup, Temp, TempFails, Rename, RenameError, Return, Cancel, Crash, Expire, Edit,
       Cleanup
  <2>2. QED  BY <2>1 DEF DbEffect
<1>7. CASE CleanupExpiredStages
  BY <1>7 DEF DbEffect
<1>8. QED  BY <1>3, <1>4, <1>5, <1>6, <1>7

\* A tool's stage was not asked for before.
LEMMA NewRequest ==
  ASSUME StagingAssumptions, TypeInv, [Next]_sVars
  PROVE  /\ \A s \in Stages : req[s] # NoRequest => req'[s] = req[s] /\ req'[s] # NoRequest
         /\ \A s \in Stages : \A path, source, body, conf :
              ToolEffect(s, path, source, body, conf) => req'[s] # NoRequest
<1>1. ASSUME NEW s \in Stages, NEW path, NEW source, NEW body, NEW conf,
             ToolEffect(s, path, source, body, conf)
      PROVE  req'[s] # NoRequest
  <2>1. req'[s].body = body
    BY <1>1 DEF ToolEffect, BuildStage, TypeInv, TypeOK
  <2>2. Changes(With(source, s)) = Changes(source) \union {s} /\ With(source, s) # Empty
    BY <1>1, WithFacts DEF ToolEffect
  <2>3. With(source, s) # {}
    BY <2>2 DEF Changes
  <2>4. body # {}
    BY <1>1, <2>3, ContentFacts DEF ToolEffect
  <2>5. QED  BY <2>1, <2>4 DEF NoRequest
<1>2. ASSUME NEW s \in Stages, req[s] # NoRequest PROVE req'[s] = req[s]
  <2>1. CASE Tools
    BY <1>2, <2>1, ToolsEffect DEF ToolEffect, TypeInv, TypeOK
  <2>2. CASE ~Tools
    BY <2>2, OnlyToolsRequest
  <2>3. QED  BY <2>1, <2>2
<1>3. QED  BY <1>1, <1>2

LEMMA AskedStep ==
  ASSUME StagingAssumptions, TypeInv, CallInv, AskedInv, IsFiniteSet(HasStatus(db, "pending")),
         [Next]_sVars
  PROVE  AskedInv'
<1>1. \A s \in Stages : req[s] # NoRequest => req'[s] = req[s] /\ req'[s] # NoRequest
  BY NewRequest
<1>2. /\ CallTypes /\ db \in Databases
      /\ \A a \in Actors : pc[a] # "idle" => Stage(a) \in Stages /\ req[Stage(a)] # NoRequest
  <2>1. ASSUME NEW a \in Actors, pc[a] # "idle" PROVE Stage(a) \in Stages /\ req[Stage(a)] # NoRequest
    <3>1. job[a].todo \in Seq(Stages) /\ job[a].todo # <<>>
      BY <2>1 DEF CallInv, CallOK, TypeInv, Jobs
    <3>2. 1 \in DOMAIN job[a].todo /\ Stage(a) = job[a].todo[1] /\ Stage(a) \in Stages
      BY <3>1 DEF Stage
    <3>3. QED  BY <3>2 DEF AskedInv
  <2>2. QED  BY <2>1, Typed DEF TypeInv
<1>3. ASSUME NEW s \in Stages, db'.status[s] # "none" PROVE req'[s] # NoRequest
  <2>1. db.status[s] # "none" \/ \E a \in Actors : pc[a] # "idle" /\ s = Stage(a)
    <3>1. CASE db' = db
      BY <1>3, <3>1
    <3>2. ASSUME NEW a \in Actors, pc[a] # "idle", NEW status, Marks(Stage(a), status)
          PROVE  db.status[s] # "none" \/ s = Stage(a)
      BY <1>2, <1>3, <3>2 DEF Marks, Databases
    <3>3. CASE CleanupExpiredStages
      <4>1. \A t \in Stages : db'.status[t] # db.status[t] => db.status[t] = "pending"
        BY <1>2, <3>3 DEF CleanupExpiredStages, Databases
      <4>2. QED  BY <1>3, <4>1
    <3>4. QED  BY <3>1, <3>2, <3>3, DbEffectHolds DEF DbEffect
  <2>2. req[s] # NoRequest
    BY <1>2, <2>1 DEF AskedInv
  <2>3. QED  BY <1>1, <2>2
<1>4. ASSUME NEW a \in Actors, NEW i \in DOMAIN job'[a].todo PROVE req'[job'[a].todo[i]] # NoRequest
  <2>1. job[a].todo \in Seq(Stages)
    BY <1>2 DEF CallTypes, Jobs
  <2>2. \A k \in DOMAIN job[a].todo : job[a].todo[k] \in Stages /\ req[job[a].todo[k]] # NoRequest
    BY <2>1 DEF AskedInv
  <2>3. CASE job'[a].todo = job[a].todo
    BY <1>1, <1>4, <2>2, <2>3
  <2>4. ASSUME NEW b \in Actors, NEW kind \in {"tool", "apply", "applyAll"}, NEW todo \in Seq(Stages),
               NEW label \in {"create", "load"}, Call(b, kind, todo, label),
               \A k \in DOMAIN todo : req'[todo[k]] # NoRequest
        PROVE  req'[job'[a].todo[i]] # NoRequest
    <3>1. PICK j \in Jobs : j.todo = todo /\ Moves(b, j, label, "none")
      BY <1>2, <2>4, CallMoves
    <3>2. job'[b] = j /\ (a # b => job'[a] = job[a])
      BY <1>2, <3>1 DEF Moves, CallTypes
    <3>3. QED  BY <1>4, <2>3, <2>4, <3>1, <3>2
  <2>5. CASE Tools
    <3>1. PICK s \in Stages : \E path, source, body, conf : ToolEffect(s, path, source, body, conf)
      BY <2>5, ToolsEffect
    <3>2. PICK path, source, body, conf : ToolEffect(s, path, source, body, conf)
      BY <3>1
    <3>3. req'[s] # NoRequest
      BY <3>2, NewRequest
    <3>4. PICK todo \in Seq(Stages) : todo = <<s>> /\ \A k \in DOMAIN todo : todo[k] = s
      <4>1. <<s>> \in Seq(Stages) /\ \A k \in DOMAIN <<s>> : <<s>>[k] = s
        OBVIOUS
      <4>2. QED  BY <4>1
    <3>5. Call(Server, "tool", todo, "create") /\ Server \in Actors
      BY <3>2, <3>4 DEF ToolEffect, StagingAssumptions
    <3>6. \A k \in DOMAIN todo : req'[todo[k]] # NoRequest
      BY <3>3, <3>4
    <3>7. QED  BY <2>4, <3>5, <3>6
  <2>6. ASSUME NEW b \in Actors, NEW s \in Stages, ApplyOne(b, s) PROVE req'[job'[a].todo[i]] # NoRequest
    <3>1. Call(b, "apply", <<s>>, "load") /\ db.status[s] # "none"
      BY <2>6 DEF ApplyOne
    <3>2. PICK todo \in Seq(Stages) : todo = <<s>> /\ \A k \in DOMAIN todo : todo[k] = s
      <4>1. <<s>> \in Seq(Stages) /\ \A k \in DOMAIN <<s>> : <<s>>[k] = s
        OBVIOUS
      <4>2. QED  BY <4>1
    <3>3. req'[s] # NoRequest
      BY <1>1, <3>1 DEF AskedInv
    <3>4. Call(b, "apply", todo, "load")
      BY <3>1, <3>2
    <3>5. \A k \in DOMAIN todo : req'[todo[k]] # NoRequest
      BY <3>2, <3>3
    <3>6. QED  BY <2>4, <3>4, <3>5
  <2>7. ASSUME NEW b \in Actors, ApplyAll(b) PROVE req'[job'[a].todo[i]] # NoRequest
    <3>1. PICK todo \in ListPendingStages : Call(b, "applyAll", todo, "load")
      BY <2>7 DEF ApplyAll
    <3>2. todo \in Seq(Stages) /\ \A k \in DOMAIN todo : db.status[todo[k]] = "pending"
      BY PendingListed
    <3>3. \A k \in DOMAIN todo : req'[todo[k]] # NoRequest
      BY <1>1, <3>2 DEF AskedInv
    <3>4. QED  BY <2>4, <3>1, <3>2, <3>3
  <2>8. ASSUME NEW b \in Actors, NextStage(b) PROVE req'[job'[a].todo[i]] # NoRequest
    <3>1. CASE job' = job
      BY <2>3, <3>1
    <3>2. CASE job' = [job EXCEPT ![b].todo = Tail(@)]
      <4>1. a # b => job'[a].todo = job[a].todo
        BY <1>2, <3>2 DEF CallTypes
      <4>2. a = b => job'[a].todo = Tail(job[a].todo) /\ job[a].todo # <<>>
        BY <1>2, <2>8, <3>2 DEF CallTypes, Jobs, NextStage, CallInv, CallOK
      <4>3. ASSUME a = b PROVE \E k \in DOMAIN job[a].todo : job'[a].todo[i] = job[a].todo[k]
        <5>1. PICK q \in Seq(Stages) : q = job[a].todo
          BY <2>1
        <5>2. q # <<>> => \A m \in DOMAIN Tail(q) : m + 1 \in DOMAIN q /\ Tail(q)[m] = q[m + 1]
          OBVIOUS
        <5>3. job'[a].todo = Tail(q) /\ q # <<>>
          BY <4>2, <4>3, <5>1
        <5>4. i \in DOMAIN Tail(q)
          BY <1>4, <5>3
        <5>5. QED  BY <5>1, <5>2, <5>3, <5>4
      <4>4. QED  BY <1>1, <2>2, <2>3, <4>1, <4>3
    <3>3. QED  BY <2>8, <3>1, <3>2 DEF NextStage
  <2>9. ASSUME NEW b \in Actors, Return(b) \/ Crash(b) PROVE req'[job'[a].todo[i]] # NoRequest
    <3>1. Forget(b)
      BY <2>9 DEF Return, Crash
    <3>2. job'[a] = IF a = b THEN NoJob ELSE job[a]
      BY <1>2, <3>1 DEF Forget, CallTypes
    <3>3. DOMAIN NoJob.todo = {}
      BY DEF NoJob
    <3>4. QED  BY <1>4, <2>3, <3>2, <3>3
  <2>10. CASE /\ ~Tools
              /\ \A b \in Actors : /\ ~(\E s \in Stages : ApplyOne(b, s)) /\ ~ApplyAll(b) /\ ~NextStage(b)
                                   /\ ~Return(b) /\ ~Crash(b)
    <3>1. UNCHANGED job \/ \E b \in Actors : \/ \E staged : job' = [job EXCEPT ![b].staged = staged]
                                             \/ \E done : job' = [job EXCEPT ![b].done = done]
      BY <2>10 DEF sVars, callVars, Next, Finalize, Apply, WriteFile, Environment, CreateStage,
         CreateStageFails, AfterCreate, RecordApply, RecordFails, LoadStage, LoadFails, SaveApply,
         SaveFails, Settle, Undo, StageEnds, WriteFailed, Check, Backup, Temp, TempFails, Rename,
         RenameError, Cancel, Expire, CleanupExpiredStages, Edit, Cleanup
    <3>2. \A j \in Jobs : \A v : [j EXCEPT !.staged = v].todo = j.todo /\ [j EXCEPT !.done = v].todo = j.todo
      BY DEF Jobs
    <3>3. ASSUME NEW b \in Actors, NEW v,
                 job' = [job EXCEPT ![b].staged = v] \/ job' = [job EXCEPT ![b].done = v]
          PROVE  job'[a].todo = job[a].todo
      <4>1. job[b] \in Jobs /\ job \in [Actors -> Jobs]
        BY <1>2 DEF CallTypes
      <4>2. PICK j : j.todo = job[b].todo /\ job' = [job EXCEPT ![b] = j]
        <5>1. CASE job' = [job EXCEPT ![b].staged = v]
          <6>1. job' = [job EXCEPT ![b] = [job[b] EXCEPT !.staged = v]]
            BY <5>1
          <6>2. QED  BY <3>2, <4>1, <6>1
        <5>2. CASE job' = [job EXCEPT ![b].done = v]
          <6>1. job' = [job EXCEPT ![b] = [job[b] EXCEPT !.done = v]]
            BY <5>2
          <6>2. QED  BY <3>2, <4>1, <6>1
        <5>3. QED  BY <3>3, <5>1, <5>2
      <4>3. QED  BY <4>1, <4>2
    <3>4. job'[a].todo = job[a].todo
      <4>1. CASE UNCHANGED job
        BY <4>1
      <4>2. CASE ~UNCHANGED job
        <5>1. PICK b \in Actors : \E v : \/ job' = [job EXCEPT ![b].staged = v]
                                         \/ job' = [job EXCEPT ![b].done = v]
          BY <3>1, <4>2
        <5>2. QED  BY <3>3, <5>1
      <4>3. QED  BY <4>1, <4>2
    <3>5. QED  BY <2>3, <3>4
  <2>11. QED  BY <2>5, <2>6, <2>7, <2>8, <2>9, <2>10
<1>5. QED  BY <1>3, <1>4 DEF AskedInv

\* The stage a works on was asked for, and its request stays.
LEMMA StageKept ==
  ASSUME StagingAssumptions, TypeInv, CallInv, AskedInv, [Next]_sVars, NEW a \in Actors,
         pc[a] # "idle"
  PROVE  /\ Stage(a) \in Stages /\ req[Stage(a)] # NoRequest
         /\ req'[Stage(a)] = req[Stage(a)] /\ File(a) \in Files \union {NoPath}
<1>1. job[a].todo \in Seq(Stages) /\ job[a].todo # <<>>
  BY DEF CallInv, CallOK, TypeInv, Jobs
<1>2. 1 \in DOMAIN job[a].todo /\ Stage(a) = job[a].todo[1] /\ Stage(a) \in Stages
  BY <1>1 DEF Stage
<1>3. req[Stage(a)] # NoRequest
  BY <1>2 DEF AskedInv
<1>4. QED  BY <1>2, <1>3, NewRequest, Typed

LEMMA CallStays ==
  ASSUME NEW b \in Actors, CallOK(b), SameCall(b), pc[b] # "reply" => before'[b] = before[b],
         met \subseteq met', pc[b] # "idle" => req'[Stage(b)] = req[Stage(b)]
  PROVE  CallOK(b)'
<1>1. Stage(b)' = Stage(b) /\ (pc[b] # "idle" => File(b)' = File(b))
  BY DEF Stage, File, SameCall
<1>2. pc[b] # "idle" => req'[Stage(b)'] = req[Stage(b)]
  BY <1>1
<1>3. QED  BY <1>1, <1>2 DEF CallOK, SameCall

\* A call that ends, or goes on with its next stage, holds nothing.
LEMMA CallEnds ==
  ASSUME NEW a \in Actors, job'[a].kind # "none", job'[a].todo # <<>>,
         pc'[a] \in {"reply", "next"},
         pc'[a] = "next" => job'[a].kind = "applyAll" /\ Len(job'[a].todo) > 1,
         temp'[a] = Absent, a \notin handle', a \in cancelled' => "cancel" \in met'
  PROVE  CallOK(a)'
BY DEF CallOK

LEMMA EndedOK ==
  ASSUME NEW a \in Actors, CallTypes, CallOK(a), pc[a] # "idle", NEW j \in Jobs, SameJob(a, j),
         NEW label \in PCs, NEW result \in Replies, NEW ok \in BOOLEAN,
         Moves(a, j, label, result), Ended(a, label, result, ok),
         temp'[a] = Absent, a \notin handle', a \in cancelled' => "cancel" \in met'
  PROVE  CallOK(a)'
<1>1. job'[a] = j /\ pc'[a] = label
  BY DEF Moves, CallTypes
<1>2. j.kind = job[a].kind /\ j.todo = job[a].todo /\ j.kind # "none" /\ j.todo # <<>>
  BY DEF SameJob, CallOK
<1>3. label \in {"reply", "next"} /\ (label = "next" => j.kind = "applyAll" /\ Len(j.todo) > 1)
  BY <1>2 DEF Ended
<1>4. QED  BY <1>1, <1>2, <1>3, CallEnds

\* The write of a failed, and it holds nothing.
LEMMA WriteFailedOK ==
  ASSUME TypeInv, CallInv, NEW a \in Actors, pc[a] # "idle", WriteFailed(a),
         temp'[a] = Absent, a \notin handle', a \in cancelled' => "cancel" \in met'
  PROVE  CallOK(a)'
<1>1. CallTypes /\ Stage(a) \in Stages /\ CallOK(a)
  BY Typed DEF CallInv
<1>2. PICK j \in Jobs, label \in PCs, result \in Replies :
        /\ SameJob(a, j) /\ Moves(a, j, label, result)
        /\ IF job[a].kind = "tool" THEN label = "reply" /\ result \in {"staged", "completed"}
           ELSE Ended(a, label, result, FALSE)
  BY <1>1, WriteFailedMoves
<1>3. CASE job[a].kind = "tool"
  <2>1. job'[a] = j /\ pc'[a] = "reply" /\ j.kind # "none" /\ j.todo # <<>>
    BY <1>1, <1>2, <1>3 DEF Moves, CallTypes, SameJob, CallOK
  <2>2. QED  BY <2>1, CallEnds
<1>4. CASE job[a].kind # "tool"
  BY <1>1, <1>2, <1>4, EndedOK
<1>5. QED  BY <1>3, <1>4

LEMMA StageEndsOK ==
  ASSUME TypeInv, CallInv, NEW a \in Actors, pc[a] # "idle", NEW ok \in BOOLEAN, StageEnds(a, ok),
         temp'[a] = Absent, a \notin handle', a \in cancelled' => "cancel" \in met'
  PROVE  CallOK(a)'
<1>1. CallTypes /\ Stage(a) \in Stages /\ CallOK(a)
  BY Typed DEF CallInv
<1>2. PICK j \in Jobs, label \in PCs, result \in Replies :
        SameJob(a, j) /\ Moves(a, j, label, result) /\ Ended(a, label, result, ok)
  BY <1>1, StageEndsMoves
<1>3. QED  BY <1>1, <1>2, EndedOK

\* A call begins: it holds nothing.
LEMMA CallBegins ==
  ASSUME TypeInv, CallInv, NEW a \in Actors, NEW kind \in {"tool", "apply", "applyAll"},
         NEW todo \in Seq(Stages), NEW label \in {"create", "load"}, Call(a, kind, todo, label),
         todo # <<>>, label = "create" <=> kind = "tool"
  PROVE  CallOK(a)' /\ \A b \in Actors \ {a} : SameCall(b) /\ before'[b] = before[b]
<1>1. /\ CallTypes /\ CallOK(a) /\ temp \in [Actors -> Contents \union {Absent}]
      /\ before \in [Actors -> Contents \union {Absent, Unset}]
  BY Typed DEF CallInv, WriteTypeOK, TypeInv, TypeOK
<1>2. PICK j \in Jobs : /\ pc[a] = "idle" /\ j.kind = kind /\ j.todo = todo
                        /\ Moves(a, j, label, "none")
  BY <1>1, CallMoves
<1>3. job'[a] = j /\ pc'[a] = label
      /\ \A b \in Actors \ {a} : job'[b] = job[b] /\ pc'[b] = pc[b] /\ reply'[b] = reply[b]
  BY <1>1, <1>2 DEF Moves, CallTypes
<1>4. /\ temp' = temp /\ handle' = handle /\ seen' = seen /\ cancelled' = cancelled \ {a}
      /\ before' = [before EXCEPT ![a] = Unset]
  BY DEF Call, writeVars
<1>5. CallOK(a)'
  BY <1>1, <1>2, <1>3, <1>4 DEF CallOK
<1>6. \A b \in Actors \ {a} : SameCall(b) /\ before'[b] = before[b]
  BY <1>1, <1>3, <1>4 DEF SameCall
<1>7. QED  BY <1>5, <1>6

LEMMA FinalizeCall ==
  ASSUME StagingAssumptions, TypeInv, CallInv, met \subseteq met', NEW a \in Actors, Finalize(a),
         req'[Stage(a)] = req[Stage(a)]
  PROVE  CallOK(a)'
<1>1. CallTypes /\ CallOK(a) /\ (pc[a] # "idle" => Stage(a) \in Stages)
  BY Typed DEF CallInv
<1>2. CASE CreateStage(a) \/ CreateStageFails(a)
  <2>1. pc[a] = "create" /\ \E staged \in BOOLEAN : AfterCreate(a, staged)
    BY <1>2 DEF CreateStage, CreateStageFails
  <2>2. UNCHANGED <<temp, handle, cancelled, req>>
    BY <2>1 DEF AfterCreate, writeVars
  <2>3. PICK j \in Jobs, label \in PCs, result \in Replies :
          SameJob(a, j) /\ Moves(a, j, label, result) /\ Created(a, label, result)
    BY <1>1, <2>1, AfterCreateMoves
  <2>4. /\ job'[a] = j /\ pc'[a] = label
        /\ j.kind = "tool" /\ j.todo = job[a].todo /\ j.todo # <<>>
    BY <1>1, <2>1, <2>3 DEF Moves, CallTypes, SameJob, CallOK
  <2>5. Stage(a)' = Stage(a) /\ File(a)' = File(a)
    BY <2>2, <2>4 DEF Stage, File
  <2>6. QED  BY <1>1, <2>1, <2>2, <2>3, <2>4, <2>5 DEF CallOK, Created
<1>3. CASE RecordApply(a) \/ RecordFails(a)
  <2>1. /\ pc[a] = "record" /\ UNCHANGED <<temp, handle, cancelled, job>> /\ pc'[a] = "reply"
    BY <1>1, <1>3 DEF RecordApply, RecordFails, Reply, Goto, CallTypes, writeVars
  <2>2. QED  BY <1>1, <2>1, CallEnds DEF CallOK
<1>4. QED  BY <1>2, <1>3 DEF Finalize

LEMMA ApplyCall ==
  ASSUME StagingAssumptions, TypeInv, CallInv, met \subseteq met', NEW a \in Actors, Apply(a),
         IsFiniteSet(HasStatus(db, "pending")), pc[a] # "idle" => req'[Stage(a)] = req[Stage(a)]
  PROVE  CallOK(a)'
<1>1. CallTypes /\ CallOK(a) /\ (pc[a] # "idle" => Stage(a) \in Stages)
  BY Typed DEF CallInv
<1>2. CASE \E s \in Stages : ApplyOne(a, s)
  <2>1. PICK s \in Stages : Call(a, "apply", <<s>>, "load")
    BY <1>2 DEF ApplyOne
  <2>2. PICK todo \in Seq(Stages) : todo = <<s>> /\ todo # <<>>
    <3>1. <<s>> \in Seq(Stages) /\ <<s>> # <<>>
      OBVIOUS
    <3>2. QED  BY <3>1
  <2>3. Call(a, "apply", todo, "load")
    BY <2>1, <2>2
  <2>4. QED  BY <2>2, <2>3, CallBegins
<1>3. CASE ApplyAll(a)
  <2>1. PICK todo \in ListPendingStages : Call(a, "applyAll", todo, "load")
    BY <1>3 DEF ApplyAll
  <2>2. todo \in Seq(Stages) /\ todo # <<>>
    BY <1>3, PendingListed DEF ApplyAll
  <2>3. QED  BY <2>1, <2>2, CallBegins
<1>4. CASE NextStage(a)
  <2>1. /\ pc[a] = "next" /\ UNCHANGED <<temp, handle, cancelled>>
        /\ temp[a] = Absent /\ a \notin handle /\ (a \in cancelled => "cancel" \in met)
        /\ job[a].kind \notin {"none", "tool"} /\ Len(job[a].todo) > 1
    BY <1>1, <1>4 DEF NextStage, CallOK, writeVars
  <2>2. CASE a \in cancelled
    <3>1. pc'[a] = "reply" /\ job' = job /\ job[a].todo # <<>>
      BY <1>1, <1>4, <2>1, <2>2 DEF NextStage, Reply, Goto, CallTypes, CallOK
    <3>2. QED  BY <2>1, <3>1, CallEnds
  <2>3. CASE a \notin cancelled
    <3>1. job[a].todo \in Seq(Stages) /\ job[a] \in Jobs
      BY <1>1 DEF CallTypes, Jobs
    <3>2. PICK rest \in Seq(Stages) : rest = Tail(job[a].todo) /\ rest # <<>>
      <4>1. ASSUME NEW q \in Seq(Stages), Len(q) > 1 PROVE Tail(q) \in Seq(Stages) /\ Tail(q) # <<>>
        <5>1. q # <<>>
          BY <4>1
        <5>2. Tail(q) \in Seq(Stages) /\ Len(Tail(q)) = Len(q) - 1
          BY <5>1
        <5>3. Len(Tail(q)) # 0
          BY <4>1, <5>2
        <5>4. \A r \in Seq(Stages) : Len(r) # 0 => r # <<>>
          OBVIOUS
        <5>5. QED  BY <5>2, <5>3, <5>4
      <4>2. PICK q \in Seq(Stages) : q = job[a].todo /\ Len(q) > 1
        BY <2>1, <3>1
      <4>3. PICK rest \in Seq(Stages) : rest = Tail(q) /\ rest # <<>>
        BY <4>1, <4>2
      <4>4. QED  BY <4>2, <4>3
    <3>3. PICK j \in Jobs : j = [job[a] EXCEPT !.todo = rest] /\ j.kind = job[a].kind /\ j.todo = rest
      <4>1. \A j0 \in Jobs : [j0 EXCEPT !.todo = rest] \in Jobs
                              /\ [j0 EXCEPT !.todo = rest].kind = j0.kind
                              /\ [j0 EXCEPT !.todo = rest].todo = rest
        BY JobFields
      <4>2. QED  BY <3>1, <4>1
    <3>4. job' = [job EXCEPT ![a] = j]
      BY <1>4, <2>3, <3>2, <3>3 DEF NextStage
    <3>5. job'[a] = j /\ pc'[a] = "load"
      BY <1>1, <1>4, <2>3, <3>4 DEF NextStage, Goto, CallTypes
    <3>6. QED  BY <2>1, <2>3, <3>2, <3>3, <3>5 DEF CallOK
  <2>4. QED  BY <2>2, <2>3
<1>5. CASE LoadStage(a)
  <2>1. /\ pc[a] = "load" /\ UNCHANGED <<temp, handle, cancelled, job, req>>
        /\ pc'[a] = IF req[Stage(a)].path = NoPath THEN "save" ELSE "check"
        /\ req[Stage(a)].path # NoPath => req[Stage(a)].body # Empty
    BY <1>1, <1>5 DEF LoadStage, writeVars, dbVars, Goto, CallTypes
  <2>2. Stage(a)' = Stage(a) /\ File(a)' = File(a)
    BY <2>1 DEF Stage, File
  <2>3. job[a].kind # "tool"
    BY <1>1, <2>1 DEF CallOK
  <2>4. QED  BY <1>1, <2>1, <2>2, <2>3 DEF CallOK, File
<1>6. CASE LoadFails(a)
  <2>1. pc[a] = "load" /\ StageEnds(a, FALSE) /\ UNCHANGED <<temp, handle, cancelled>>
    BY <1>1, <1>6 DEF LoadFails, StageEnds, writeVars
  <2>2. temp'[a] = Absent /\ a \notin handle' /\ (a \in cancelled' => "cancel" \in met')
    BY <1>1, <2>1 DEF CallOK
  <2>3. QED  BY <2>1, <2>2, StageEndsOK
<1>7. CASE SaveApply(a) \/ SaveFails(a)
  <2>1. /\ pc[a] = "save" /\ UNCHANGED <<temp, handle, cancelled, job, req>>
        /\ pc'[a] \in {"settle", "undo"}
    BY <1>1, <1>7 DEF SaveApply, SaveFails, writeVars, dbVars, Goto, CallTypes
  <2>2. Stage(a)' = Stage(a) /\ File(a)' = File(a)
    BY <2>1 DEF Stage, File
  <2>3. QED  BY <1>1, <2>1, <2>2 DEF CallOK
<1>8. CASE Settle(a) /\ a \in cancelled
  <2>1. /\ pc[a] = "settle" /\ UNCHANGED <<temp, handle, cancelled, job, req>>
        /\ pc'[a] = "undo"
    BY <1>1, <1>8 DEF Settle, dbVars, Goto, CallTypes
  <2>2. Stage(a)' = Stage(a) /\ File(a)' = File(a)
    BY <2>1 DEF Stage, File
  <2>3. QED  BY <1>1, <2>1, <2>2 DEF CallOK
<1>9. CASE (Settle(a) /\ a \notin cancelled) \/ Undo(a)
  <2>1. PICK ok \in BOOLEAN : StageEnds(a, ok)
    BY <1>9 DEF Settle, Undo
  <2>2. pc[a] \in {"settle", "undo"} /\ temp' = temp /\ handle' = handle \ {a}
    BY <1>9 DEF Settle, Undo, CommitHandle, RollbackHandle, RollbackFails, Close
  <2>3. cancelled' = cancelled
    BY <2>1 DEF StageEnds
  <2>4. temp'[a] = Absent /\ a \notin handle' /\ (a \in cancelled' => "cancel" \in met')
    BY <1>1, <2>2, <2>3 DEF CallOK
  <2>5. QED  BY <2>1, <2>2, <2>4, StageEndsOK
<1>10. QED  BY <1>2, <1>3, <1>4, <1>5, <1>6, <1>7, <1>8, <1>9 DEF Apply

LEMMA WriteFileCall ==
  ASSUME StagingAssumptions, TypeInv, CallInv, met \subseteq met', NEW a \in Actors, WriteFile(a)
  PROVE  CallOK(a)'
<1>1. /\ CallTypes /\ CallOK(a) /\ (pc[a] # "idle" => Stage(a) \in Stages)
      /\ temp \in [Actors -> Contents \union {Absent}]
  BY Typed DEF CallInv, WriteTypeOK
<1>2. ASSUME UNCHANGED <<job, req>> PROVE Stage(a)' = Stage(a) /\ File(a)' = File(a)
  BY <1>2 DEF Stage, File
<1>3. CASE Check(a) /\ Goto(a, "backup")
  <2>1. /\ pc[a] = "check" /\ pc'[a] = "backup" /\ UNCHANGED <<temp, handle, req>>
    BY <1>1, <1>3 DEF Check, Goto, CallTypes, writeVars, dbVars
  <2>2. UNCHANGED <<cancelled, job>>
    <3>1. ~WriteFailed(a)
      <4>1. ASSUME WriteFailed(a) PROVE FALSE
        <5>1. \E j \in Jobs, label \in {"reply", "next"}, result \in Replies : Moves(a, j, label, result)
          BY <1>1, <2>1, <4>1, WriteFailedMoves DEF Ended
        <5>2. pc'[a] \in {"reply", "next"}
          BY <1>1, <5>1 DEF Moves, CallTypes
        <5>3. QED  BY <2>1, <5>2
      <4>2. QED  BY <4>1
    <3>2. QED  BY <1>3, <3>1 DEF Check
  <2>3. QED  BY <1>1, <1>2, <2>1, <2>2 DEF CallOK
<1>4. CASE Check(a) /\ ~Goto(a, "backup")
  <2>1. pc[a] = "check" /\ WriteFailed(a) /\ UNCHANGED <<temp, handle>>
    BY <1>4 DEF Check, writeVars
  <2>2. cancelled' = cancelled
    BY <1>1, <2>1, WriteFailedFrame
  <2>3. temp'[a] = Absent /\ a \notin handle' /\ (a \in cancelled' => "cancel" \in met')
    BY <1>1, <2>1, <2>2 DEF CallOK
  <2>4. QED  BY <2>1, <2>3, WriteFailedOK
<1>5. CASE Backup(a)
  <2>1. /\ pc[a] = "backup" /\ pc'[a] = "temp" /\ UNCHANGED <<temp, handle, req, cancelled, job>>
    BY <1>1, <1>5 DEF Backup, Goto, CallTypes, dbVars
  <2>2. QED  BY <1>1, <1>2, <2>1 DEF CallOK
<1>6. CASE Temp(a)
  <2>1. /\ pc[a] = "temp" /\ pc'[a] = "rename" /\ UNCHANGED <<handle, req, cancelled, job>>
        /\ temp'[a] = req[Stage(a)].body
    BY <1>1, <1>6 DEF Temp, WriteTemp, Goto, CallTypes, dbVars
  <2>2. QED  BY <1>1, <1>2, <2>1 DEF CallOK
<1>7. CASE TempFails(a) \/ RenameError(a)
  <2>1. pc[a] \in {"backup", "temp", "rename"} /\ WriteFailed(a) /\ handle' = handle
    BY <1>7 DEF TempFails, RenameError, RenameFails
  <2>2. temp' = [temp EXCEPT ![a] = Absent] \/ (temp' = temp /\ pc[a] = "backup")
    BY <1>7 DEF TempFails, RenameError, RenameFails, CleanupFailedWrite
  <2>3. temp'[a] = Absent
    BY <1>1, <2>2 DEF CallOK
  <2>4. cancelled' = cancelled
    BY <1>1, <2>1, WriteFailedFrame
  <2>5. a \notin handle' /\ (a \in cancelled' => "cancel" \in met')
    BY <1>1, <2>1, <2>4 DEF CallOK
  <2>6. QED  BY <2>1, <2>3, <2>5, WriteFailedOK
<1>8. CASE Rename(a)
  <2>1. /\ pc[a] = "rename" /\ UNCHANGED <<req, cancelled, job>> /\ temp'[a] = Absent
    BY <1>1, <1>8 DEF Rename, RenameOver, dbVars
  <2>2. /\ pc'[a] = IF job[a].kind # "tool" THEN "save" ELSE IF job[a].staged THEN "record" ELSE "reply"
    BY <1>1, <1>8 DEF Rename, Goto, Reply, CallTypes
  <2>3. handle' = handle \/ (handle' = handle \union {a} /\ job[a].kind # "tool")
    BY <1>8 DEF Rename, RenameOver, BeginTransaction
  <2>4. Stage(a)' = Stage(a) /\ File(a)' = File(a)
    BY <1>2, <2>1
  <2>5. QED  BY <1>1, <2>1, <2>2, <2>3, <2>4 DEF CallOK
<1>9. QED  BY <1>3, <1>4, <1>5, <1>6, <1>7, <1>8 DEF WriteFile

LEMMA EnvironmentCall ==
  ASSUME StagingAssumptions, TypeInv, CallInv, met \subseteq met', NEW a \in Actors, Environment(a)
  PROVE  CallOK(a)'
<1>1. /\ CallTypes /\ CallOK(a)
      /\ temp \in [Actors -> Contents \union {Absent}]
      /\ before \in [Actors -> Contents \union {Absent, Unset}]
  BY Typed DEF CallInv, WriteTypeOK, TypeInv, TypeOK
<1>2. CASE Cancel(a)
  <2>1. UNCHANGED <<temp, handle, req, job, pc, before>> /\ "cancel" \in met'
    BY <1>2 DEF Cancel, Fault, Meet, writeVars, dbVars, history
  <2>2. Stage(a)' = Stage(a) /\ File(a)' = File(a)
    BY <2>1 DEF Stage, File
  <2>3. QED  BY <1>1, <2>1, <2>2 DEF CallOK
<1>3. CASE Return(a) \/ Crash(a)
  <2>1. Forget(a)
    BY <1>3 DEF Return, Crash
  <2>2. /\ pc'[a] = "idle" /\ job'[a] = NoJob /\ before'[a] = Unset /\ a \notin cancelled'
    BY <1>1, <2>1 DEF Forget, CallTypes
  <2>3. temp'[a] = Absent /\ a \notin handle'
    BY <1>1, <1>3 DEF Return, Crash, LogDies, CallOK, writeVars
  <2>4. QED  BY <2>2, <2>3 DEF CallOK, NoJob
<1>4. QED  BY <1>2, <1>3 DEF Environment

LEMMA CallStep ==
  ASSUME StagingAssumptions, TypeInv, CallInv, AskedInv, IsFiniteSet(HasStatus(db, "pending")),
         [Next]_sVars
  PROVE  CallInv'
<1>1. /\ met \subseteq met'
      /\ \A b \in Actors : CallOK(b) /\ (pc[b] # "idle" => req'[Stage(b)] = req[Stage(b)])
  BY MetGrows, StageKept DEF CallInv
<1>2. CASE Tools
  <2>1. PICK s \in Stages : Call(Server, "tool", <<s>>, "create")
    BY <1>2, ToolsEffect DEF ToolEffect
  <2>2. PICK todo \in Seq(Stages) : todo = <<s>> /\ todo # <<>>
    <3>1. <<s>> \in Seq(Stages) /\ <<s>> # <<>>
      OBVIOUS
    <3>2. QED  BY <3>1
  <2>3. Call(Server, "tool", todo, "create") /\ Server \in Actors
    BY <2>1, <2>2 DEF StagingAssumptions
  <2>4. /\ CallOK(Server)' /\ \A b \in Actors \ {Server} : SameCall(b) /\ before'[b] = before[b]
    BY <2>2, <2>3, CallBegins
  <2>5. QED  BY <1>1, <2>4, CallStays DEF CallInv
<1>3. ASSUME NEW a \in Actors, Finalize(a) \/ Apply(a) \/ WriteFile(a) \/ Environment(a)
      PROVE  CallInv'
  <2>1. CallOK(a)'
    <3>1. Finalize(a) => pc[a] # "idle"
      BY DEF Finalize, CreateStage, CreateStageFails, RecordApply, RecordFails
    <3>2. QED  BY <1>1, <1>3, <3>1, FinalizeCall, ApplyCall, WriteFileCall, EnvironmentCall
  <2>2. \A b \in Actors \ {a} : SameCall(b) /\ before'[b] = before[b]
    BY <1>3, OthersStay DEF SameCalls
  <2>3. QED  BY <1>1, <2>1, <2>2, CallStays DEF CallInv
<1>4. CASE Passive
  <2>1. \A b \in Actors : SameCall(b) /\ (pc[b] # "reply" => before'[b] = before[b])
    BY <1>4, PassiveStays
  <2>2. QED  BY <1>1, <2>1, CallStays DEF CallInv
<1>5. QED  BY <1>2, <1>3, <1>4 DEF Next, Passive

LEMMA StatusSets ==
  ASSUME StagingAssumptions, NEW d \in Databases, NEW e \in Databases, NEW s \in Stages,
         NEW status \in Statuses, e.status = [d.status EXCEPT ![s] = status]
  PROVE  \A x \in Statuses : HasStatus(e, x) = IF x = status THEN HasStatus(d, x) \union {s}
                                              ELSE HasStatus(d, x) \ {s}
BY DEF Databases, HasStatus

LEMMA SetSizes ==
  ASSUME NEW S, IsFiniteSet(S), NEW x
  PROVE  /\ IsFiniteSet(S \union {x}) /\ IsFiniteSet(S \ {x})
         /\ Cardinality(S) \in Nat
         /\ Cardinality(S \union {x}) \in Nat /\ Cardinality(S \union {x}) <= Cardinality(S) + 1
         /\ Cardinality(S \ {x}) \in Nat /\ Cardinality(S \ {x}) <= Cardinality(S)
<1>1. /\ IsFiniteSet(S \union {x})
      /\ Cardinality(S \union {x}) = IF x \in S THEN Cardinality(S) ELSE Cardinality(S) + 1
  BY FS_AddElement
<1>2. IsFiniteSet(S \ {x}) /\ Cardinality(S \ {x}) <= Cardinality(S)
  BY FS_Subset
<1>3. Cardinality(S) \in Nat /\ Cardinality(S \ {x}) \in Nat
  BY <1>2, FS_CardinalityType
<1>4. QED  BY <1>1, <1>2, <1>3

\* What is pending and applied in d is finite, and within the limit.
WithinLimit(d) ==
  /\ IsFiniteSet(HasStatus(d, "pending")) /\ IsFiniteSet(HasStatus(d, "applied"))
  /\ Cardinality(HasStatus(d, "applied")) <= MaxApplies

LEMMA LimitKept ==
  ASSUME StagingAssumptions, NEW d \in Databases, NEW e \in Databases, WithinLimit(d)
  PROVE  /\ \A s \in Stages : e.status = [d.status EXCEPT ![s] = "pending"] => WithinLimit(e)
         /\ \A s \in Stages : e.status = [d.status EXCEPT ![s] = "applied"]
                              /\ Cardinality(HasStatus(d, "applied")) < MaxApplies => WithinLimit(e)
         /\ HasStatus(e, "pending") \subseteq HasStatus(d, "pending")
            /\ HasStatus(e, "applied") = HasStatus(d, "applied") => WithinLimit(e)
<1> DEFINE pending == HasStatus(d, "pending")
           applied == HasStatus(d, "applied")
<1>1. /\ IsFiniteSet(pending) /\ IsFiniteSet(applied) /\ Cardinality(applied) <= MaxApplies
      /\ MaxApplies \in Nat /\ {"pending", "applied"} \subseteq Statuses
  BY DEF WithinLimit, StagingAssumptions, Statuses
<1>2. ASSUME NEW s \in Stages, e.status = [d.status EXCEPT ![s] = "pending"] PROVE WithinLimit(e)
  <2>1. HasStatus(e, "pending") = pending \union {s} /\ HasStatus(e, "applied") = applied \ {s}
    BY <1>1, <1>2, StatusSets
  <2>2. IsFiniteSet(pending \union {s})
    BY <1>1, SetSizes
  <2>3. /\ IsFiniteSet(applied \ {s}) /\ Cardinality(applied \ {s}) <= Cardinality(applied)
        /\ Cardinality(applied) \in Nat /\ Cardinality(applied \ {s}) \in Nat
    BY <1>1, SetSizes
  <2>4. Cardinality(applied \ {s}) <= MaxApplies
    BY <1>1, <2>3
  <2>5. QED  BY <2>1, <2>2, <2>3, <2>4 DEF WithinLimit
<1>3. ASSUME NEW s \in Stages, e.status = [d.status EXCEPT ![s] = "applied"],
             Cardinality(applied) < MaxApplies
      PROVE  WithinLimit(e)
  <2>1. HasStatus(e, "pending") = pending \ {s} /\ HasStatus(e, "applied") = applied \union {s}
    BY <1>1, <1>3, StatusSets
  <2>2. IsFiniteSet(pending \ {s})
    BY <1>1, SetSizes
  <2>3. /\ IsFiniteSet(applied \union {s}) /\ Cardinality(applied \union {s}) <= Cardinality(applied) + 1
        /\ Cardinality(applied) \in Nat /\ Cardinality(applied \union {s}) \in Nat
    BY <1>1, SetSizes
  <2>4. Cardinality(applied \union {s}) <= MaxApplies
    BY <1>1, <1>3, <2>3
  <2>5. QED  BY <2>1, <2>2, <2>3, <2>4 DEF WithinLimit
<1>4. ASSUME HasStatus(e, "pending") \subseteq pending, HasStatus(e, "applied") = applied
      PROVE  WithinLimit(e)
  <2>1. IsFiniteSet(HasStatus(e, "pending"))
    BY <1>1, <1>4, FS_Subset
  <2>2. QED  BY <1>1, <1>4, <2>1 DEF WithinLimit
<1>5. QED  BY <1>2, <1>3, <1>4

LEMMA DatabaseLimit ==
  ASSUME StagingAssumptions, TypeInv, CallInv, LimitInv, [Next]_sVars
  PROVE  WithinLimit(db')
<1>1. /\ WithinLimit(db) /\ db \in Databases /\ db' \in Databases
      /\ \A a \in Actors : pc[a] # "idle" => Stage(a) \in Stages
  BY Typed, DatabaseTyped DEF LimitInv, ApplyLimit, TypeInv, WithinLimit
<1>2. CASE db' = db
  BY <1>1, <1>2
<1>3. ASSUME NEW a \in Actors, pc[a] # "idle", Marks(Stage(a), "pending") PROVE WithinLimit(db')
  BY <1>1, <1>3, LimitKept DEF Marks
<1>4. ASSUME NEW a \in Actors, pc[a] # "idle", Marks(Stage(a), "applied"),
             Cardinality(HasStatus(db, "applied")) < MaxApplies
      PROVE  WithinLimit(db')
  BY <1>1, <1>4, LimitKept DEF Marks
<1>5. ASSUME NEW a \in Actors, pc[a] = "save", db = seen[a]
      PROVE  Cardinality(HasStatus(db, "applied")) < MaxApplies
  <2>1. job[a].kind # "tool"
    BY <1>5 DEF CallInv, CallOK
  <2>2. QED  BY <1>5, <2>1 DEF LimitInv
<1>6. CASE CleanupExpiredStages
  <2>1. \A s \in Stages : db'.status[s] = IF s \in late /\ db.status[s] = "pending" THEN "expired"
                                          ELSE db.status[s]
    BY <1>1, <1>6 DEF CleanupExpiredStages, Databases
  <2>2. PICK e \in Databases : e = db'
    BY <1>1
  <2>3. HasStatus(e, "pending") \subseteq HasStatus(db, "pending")
        /\ HasStatus(e, "applied") = HasStatus(db, "applied")
    BY <2>1, <2>2 DEF HasStatus
  <2>4. QED  BY <1>1, <2>2, <2>3, LimitKept
<1>7. QED  BY <1>2, <1>3, <1>4, <1>5, <1>6, DbEffectHolds DEF DbEffect, Applicable

\* The labels of an apply between its load and its save.
InApply(label) == label \in {"check", "backup", "temp", "rename", "save"}

\* The apply of a is under way after a step only if it was before, or is
\* loaded by it.
LEMMA ApplyUnderWay ==
  ASSUME StagingAssumptions, TypeInv, CallInv, [Next]_sVars, IsFiniteSet(HasStatus(db, "pending")),
         NEW a \in Actors, job'[a].kind # "tool", InApply(pc'[a])
  PROVE  \/ job[a].kind # "tool" /\ InApply(pc[a]) /\ seen'[a] = seen[a]
         \/ LoadStage(a) /\ seen'[a] = db
<1>1. CallTypes /\ CallOK(a) /\ (pc[a] # "idle" => Stage(a) \in Stages) /\ seen \in [Actors -> Databases]
  BY Typed DEF CallInv, TypeInv
<1> USE DEF InApply
<1>2. CASE SameCall(a)
  BY <1>2 DEF SameCall
<1>3. CASE Tools
  <2>1. Call(Server, "tool", job'[Server].todo, "create") /\ Server \in Actors
        /\ \E s \in Stages : Call(Server, "tool", <<s>>, "create")
    <3>1. PICK s \in Stages : Call(Server, "tool", <<s>>, "create")
      BY <1>3, ToolsEffect DEF ToolEffect
    <3>2. Server \in Actors /\ job'[Server].todo = <<s>>
      BY <1>1, <3>1 DEF Call, StagingAssumptions, CallTypes, NoJob
    <3>3. QED  BY <3>1, <3>2
  <2>2. pc'[Server] = "create" /\ (a # Server => SameCall(a))
    BY <1>1, <2>1 DEF Call, Goto, CallTypes, SameCall, writeVars
  <2>3. QED  BY <1>2, <2>2
<1>4. ASSUME NEW b \in Actors, b # a, Finalize(b) \/ Apply(b) \/ WriteFile(b) \/ Environment(b)
      PROVE  SameCall(a)
  BY <1>4, OthersStay DEF SameCalls
<1>5. ASSUME NEW label, Goto(a, label) PROVE pc'[a] = label
  BY <1>1, <1>5 DEF Goto, CallTypes
<1>6. ASSUME NEW ok \in BOOLEAN, StageEnds(a, ok) PROVE pc'[a] \in {"next", "reply"}
  BY <1>5, <1>6 DEF StageEnds, Reply
<1>7. CASE Finalize(a)
  <2>1. CASE CreateStage(a) \/ CreateStageFails(a)
    <3>1. pc[a] = "create" /\ \E staged \in BOOLEAN : AfterCreate(a, staged)
      BY <2>1 DEF CreateStage, CreateStageFails
    <3>2. PICK j \in Jobs, label \in PCs, result \in Replies :
            SameJob(a, j) /\ Moves(a, j, label, result) /\ Created(a, label, result)
      BY <1>1, <3>1, AfterCreateMoves
    <3>3. job'[a].kind = "tool"
      BY <1>1, <3>1, <3>2 DEF Moves, CallTypes, SameJob, CallOK
    <3>4. QED  BY <3>3
  <2>2. CASE RecordApply(a) \/ RecordFails(a)
    BY <1>5, <2>2 DEF RecordApply, RecordFails, Reply
  <2>3. QED  BY <1>7, <2>1, <2>2 DEF Finalize
<1>8. CASE Apply(a)
  <2>1. CASE (\E s \in Stages : ApplyOne(a, s)) \/ ApplyAll(a)
    <3>1. Goto(a, "load")
      BY <2>1 DEF ApplyOne, ApplyAll, Call
    <3>2. QED  BY <1>5, <3>1
  <2>2. CASE NextStage(a)
    <3>1. pc'[a] \in {"load", "reply"}
      BY <1>5, <2>2 DEF NextStage, Reply
    <3>2. QED  BY <3>1
  <2>3. CASE LoadStage(a)
    BY <1>1, <2>3 DEF LoadStage
  <2>4. CASE LoadFails(a) \/ Undo(a)
    <3>1. StageEnds(a, FALSE)
      BY <2>4 DEF LoadFails, Undo
    <3>2. QED  BY <1>6, <3>1
  <2>5. CASE SaveApply(a) \/ SaveFails(a)
    <3>1. pc'[a] \in {"settle", "undo"}
      BY <1>5, <2>5 DEF SaveApply, SaveFails
    <3>2. QED  BY <3>1
  <2>6. CASE Settle(a)
    <3>1. pc'[a] = "undo" \/ StageEnds(a, TRUE)
      BY <1>5, <2>6 DEF Settle
    <3>2. QED  BY <1>6, <3>1
  <2>7. QED  BY <1>8, <2>1, <2>2, <2>3, <2>4, <2>5, <2>6 DEF Apply
<1>9. CASE WriteFile(a)
  <2>1. pc[a] \in {"check", "backup", "temp", "rename"} /\ job'[a].kind = job[a].kind /\ seen'[a] = seen[a]
    <3>1. pc[a] \in {"check", "backup", "temp", "rename"}
      BY <1>9 DEF WriteFile, Check, Backup, Temp, TempFails, Rename, RenameError
    <3>2. UNCHANGED <<job, seen>> \/ WriteFailed(a)
      BY <1>9 DEF WriteFile, Check, Backup, Temp, TempFails, Rename, RenameError
    <3>3. WriteFailed(a) => seen' = seen /\ job'[a].kind = job[a].kind
      <4>1. ASSUME WriteFailed(a) PROVE seen' = seen /\ job'[a].kind = job[a].kind
        <5>1. seen' = seen
          BY <1>1, <4>1, WriteFailedFrame
        <5>2. PICK j \in Jobs, label \in PCs, result \in Replies :
                SameJob(a, j) /\ Moves(a, j, label, result)
          BY <1>1, <3>1, <4>1, WriteFailedMoves
        <5>3. QED  BY <1>1, <5>1, <5>2 DEF SameJob, Moves, CallTypes
      <4>2. QED  BY <4>1
    <3>4. QED  BY <3>1, <3>2, <3>3
  <2>2. QED  BY <2>1
<1>10. CASE Environment(a)
  <2>1. CASE Cancel(a)
    BY <2>1 DEF Cancel
  <2>2. CASE Return(a) \/ Crash(a)
    <3>1. pc'[a] = "idle"
      BY <1>1, <2>2 DEF Return, Crash, Forget, CallTypes
    <3>2. QED  BY <3>1
  <2>3. QED  BY <1>10, <2>1, <2>2 DEF Environment
<1>11. CASE Passive
  BY <1>2, <1>11, PassiveStays
<1>12. QED  BY <1>2, <1>3, <1>4, <1>7, <1>8, <1>9, <1>10, <1>11 DEF Next, Passive

LEMMA LimitStep ==
  ASSUME StagingAssumptions, TypeInv, CallInv, LimitInv, [Next]_sVars
  PROVE  LimitInv'
<1>1. ASSUME NEW a \in Actors, job'[a].kind # "tool", InApply(pc'[a])
      PROVE  /\ IsFiniteSet(HasStatus(seen'[a], "applied"))
             /\ Cardinality(HasStatus(seen'[a], "applied")) < MaxApplies
  <2>1. CASE job[a].kind # "tool" /\ InApply(pc[a]) /\ seen'[a] = seen[a]
    BY <2>1 DEF LimitInv, InApply
  <2>2. CASE LoadStage(a) /\ seen'[a] = db
    BY <2>2 DEF LimitInv, LoadStage, Applicable
  <2>3. QED  BY <1>1, <2>1, <2>2, ApplyUnderWay DEF LimitInv
<1>2. QED  BY <1>1, DatabaseLimit DEF LimitInv, ApplyLimit, WithinLimit, InApply

\* The steps that change the log.
Logs(a) == Rename(a) \/ Settle(a) \/ Undo(a) \/ Crash(a)

LEMMA FileKept ==
  ASSUME StagingAssumptions, TypeInv, CallInv, AskedInv, [Next]_sVars, NEW b \in Actors,
         b \in handle, b \in handle'
  PROVE  File(b)' = File(b) /\ req'[Stage(b)] = req[Stage(b)] /\ Stage(b)' = Stage(b)
<1>1. pc[b] \in {"save", "settle", "undo"} /\ CallTypes
  BY Typed DEF CallInv, CallOK
<1>2. req'[Stage(b)] = req[Stage(b)]
  BY <1>1, StageKept
<1>3. job'[b] = job[b]
  <2>1. CASE SameCall(b)
    BY <2>1 DEF SameCall
  <2>2. CASE Tools
    <3>1. PICK s \in Stages : Call(Server, "tool", <<s>>, "create")
      BY <2>2, ToolsEffect DEF ToolEffect
    <3>2. b # Server
      BY <1>1, <3>1 DEF Call
    <3>3. QED  BY <1>1, <3>1, <3>2 DEF Call, CallTypes
  <2>3. ASSUME NEW a \in Actors, a # b, Finalize(a) \/ Apply(a) \/ WriteFile(a) \/ Environment(a)
        PROVE  SameCall(b)
    BY <2>3, OthersStay DEF SameCalls
  <2>4. CASE Finalize(b) \/ WriteFile(b)
    BY <1>1, <2>4 DEF Finalize, WriteFile, CreateStage, CreateStageFails, RecordApply, RecordFails,
       Check, Backup, Temp, TempFails, Rename, RenameError
  <2>5. CASE Apply(b)
    <3>1. CASE SaveApply(b) \/ SaveFails(b) \/ Settle(b) \/ Undo(b)
      BY <3>1 DEF SaveApply, SaveFails, Settle, Undo, CommitHandle, RollbackHandle, RollbackFails, Close
    <3>2. CASE ~(SaveApply(b) \/ SaveFails(b) \/ Settle(b) \/ Undo(b))
      BY <1>1, <2>5, <3>2 DEF Apply, ApplyOne, ApplyAll, Call, NextStage, LoadStage, LoadFails
    <3>3. QED  BY <3>1, <3>2
  <2>6. CASE Environment(b)
    BY <1>1, <2>6 DEF Environment, Return, Cancel, Crash, LogDies
  <2>7. CASE Passive
    BY <2>1, <2>7, PassiveStays
  <2>8. QED  BY <2>1, <2>2, <2>3, <2>4, <2>5, <2>6, <2>7 DEF Next, Passive
<1>4. QED  BY <1>2, <1>3 DEF File, Stage

LEMMA NoLog ==
  ASSUME [Next]_sVars, \A a \in Actors : ~Logs(a), ~\E tx \in txs : Cleanup(tx)
  PROVE  UNCHANGED <<txs, handle>>
BY DEF Logs, sVars, writeVars, dbVars, callVars, history, Next, Tools, Finalize, Apply, WriteFile,
   Environment, ReplaceTool, DeleteTool, AppendTool, InsertBeforeTool, InsertAfterTool,
   CodeTool, Call, CreateStage, CreateStageFails, RecordApply, RecordFails, ApplyOne, ApplyAll,
   NextStage, LoadStage, LoadFails, SaveApply, SaveFails, Check, Backup, Temp, TempFails,
   RenameError, RenameFails, CleanupFailedWrite, Return, Cancel, Expire, Edit,
   CleanupExpiredStages, AfterCreate

LEMMA TransactionIs ==
  ASSUME NEW tx \in Transactions
  PROVE  tx = Tx(tx.by, tx.file, tx.status)
         /\ \A a, f, status : Tx(a, f, status).by = a /\ Tx(a, f, status).file = f
                              /\ Tx(a, f, status).status = status
BY DEF Transactions, Tx

LEMMA LogStep ==
  ASSUME StagingAssumptions, TypeInv, CallInv, AskedInv, LogInv, [Next]_sVars
  PROVE  LogInv'
<1>1. SUFFICES ASSUME Without({"restore"})', NEW tx \in txs', tx.status = "pending"
               PROVE  tx.by \in handle' /\ tx.file = File(tx.by)'
  BY DEF LogInv
<1>2. /\ \A t \in txs : t.status = "pending" => t.by \in handle /\ t.file = File(t.by)
      /\ "restore" \notin met' /\ txs \subseteq Transactions /\ handle \subseteq Actors
  <2>1. Without({"restore"})
    BY <1>1, MetGrows DEF Without
  <2>2. QED  BY <1>1, <2>1 DEF LogInv, Without, TypeInv, TypeOK, WriteTypeOK
<1>3. ASSUME tx \in txs, tx.by \in handle' PROVE tx.by \in handle' /\ tx.file = File(tx.by)'
  <2>1. tx.by \in handle /\ tx.by \in Actors /\ tx.file = File(tx.by)
    BY <1>1, <1>2, <1>3
  <2>2. QED  BY <1>3, <2>1, FileKept
<1>4. ASSUME NEW a \in Actors, Close(a, File(a), {}) \/ Close(a, File(a), {Tx(a, File(a), "completed")})
      PROVE  tx.by \in handle' /\ tx.file = File(tx.by)'
  <2>1. tx \in txs
    <3>1. Tx(a, File(a), "completed").status = "completed"
      BY DEF Tx
    <3>2. tx \in txs \/ tx = Tx(a, File(a), "completed")
      BY <1>1, <1>4 DEF Close
    <3>3. QED  BY <1>1, <3>1, <3>2
  <2>2. tx.by \in handle /\ tx.file = File(tx.by) /\ tx \in Transactions
    BY <1>1, <1>2, <2>1
  <2>3. tx.by # a
    <3>1. ASSUME tx.by = a PROVE FALSE
      <4>1. a \in handle /\ tx = Tx(a, File(a), "pending")
        BY <1>1, <2>2, <3>1, TransactionIs
      <4>2. tx # Tx(a, File(a), "completed")
        BY <1>1, <2>2, TransactionIs
      <4>3. QED  BY <1>1, <1>4, <4>1, <4>2 DEF Close
    <3>2. QED  BY <3>1
  <2>4. tx.by \in handle'
    BY <1>4, <2>2, <2>3 DEF Close
  <2>5. QED  BY <1>3, <2>1, <2>4
<1>5. ASSUME NEW a \in Actors, Rename(a) PROVE tx.by \in handle' /\ tx.file = File(tx.by)'
  <2>1. PICK status \in {"pending", "completed"} : BeginTransaction(a, File(a), status)
    BY <1>5 DEF Rename, RenameOver
  <2>2. File(a)' = File(a)
    BY <1>5 DEF Rename, dbVars, File, Stage
  <2>3. CASE tx \in txs
    <3>1. tx.by \in handle'
      BY <1>1, <1>2, <2>1, <2>3 DEF BeginTransaction
    <3>2. QED  BY <1>3, <2>3, <3>1
  <2>4. CASE tx \notin txs
    <3>1. tx = Tx(a, File(a), status) /\ (status = "pending" => a \in handle')
      BY <1>1, <2>1, <2>4 DEF BeginTransaction
    <3>2. tx.by = a /\ tx.file = File(a) /\ status = "pending"
      BY <1>1, <3>1 DEF Tx
    <3>3. QED  BY <2>2, <3>1, <3>2
  <2>5. QED  BY <2>3, <2>4
<1>6. ASSUME NEW a \in Actors, Settle(a) PROVE tx.by \in handle' /\ tx.file = File(tx.by)'
  <2>1. CASE UNCHANGED <<txs, handle>>
    BY <1>1, <1>2, <1>3, <2>1
  <2>2. CASE ~UNCHANGED <<txs, handle>>
    BY <1>4, <1>6, <2>2 DEF Settle, CommitHandle
  <2>3. QED  BY <2>1, <2>2
<1>7. ASSUME NEW a \in Actors, Undo(a) PROVE tx.by \in handle' /\ tx.file = File(tx.by)'
  <2>1. ~Fault("restore")
    BY <1>2 DEF Fault, Meet
  <2>2. QED  BY <1>4, <1>7, <2>1 DEF Undo, RollbackHandle
<1>8. ASSUME NEW a \in Actors, Crash(a) PROVE tx.by \in handle' /\ tx.file = File(tx.by)'
  <2>1. tx \in txs /\ tx.by # a /\ handle' = handle \ {a}
    BY <1>1, <1>8 DEF Crash, LogDies
  <2>2. tx.by \in handle'
    BY <1>1, <1>2, <2>1
  <2>3. QED  BY <1>3, <2>1, <2>2
<1>9. CASE \E t \in txs : Cleanup(t)
  <2>1. txs' \subseteq txs /\ handle' = handle
    BY <1>9 DEF Cleanup, CleanupTransaction
  <2>2. QED  BY <1>1, <1>2, <1>3, <2>1
<1>10. CASE (\A a \in Actors : ~Logs(a)) /\ ~\E t \in txs : Cleanup(t)
  <2>1. UNCHANGED <<txs, handle>>
    BY <1>10, NoLog
  <2>2. QED  BY <1>1, <1>2, <1>3, <2>1
<1>11. QED  BY <1>5, <1>6, <1>7, <1>8, <1>9, <1>10 DEF Logs

-----------------------------------------------------------------------------

\* What holds of every reachable state, whoever disturbs whom.
StagingInductive == TypeInv /\ CallInv /\ AskedInv /\ LogInv /\ LimitInv

LEMMA InitInductive ==
  ASSUME StagingAssumptions, Init
  PROVE  StagingInductive
<1>1. PICK first \in [Files -> First] : WriteInit(Configs, first)
  BY DEF Init
<1>2. /\ EmptyDb \in Databases /\ NoJob \in Jobs /\ NoRequest \in Requests
  BY ContentFacts DEF EmptyDb, Databases, Statuses, NoJob, Jobs, NoRequest, Requests, Confidences
<1>3. WriteTypeOK
  BY <1>1 DEF WriteInit, WriteTypeOK, StagingAssumptions
<1>4. /\ job = [a \in Actors |-> NoJob] /\ pc = [a \in Actors |-> "idle"] /\ db = EmptyDb
      /\ req = [s \in Stages |-> NoRequest] /\ seen = [a \in Actors |-> EmptyDb]
      /\ late = {} /\ cancelled = {} /\ met = {} /\ reply = [a \in Actors |-> "none"]
      /\ before = [a \in Actors |-> Unset] /\ made = [f \in Files |-> {}]
  BY DEF Init
<1>5. TypeInv
  <2>1. /\ job \in [Actors -> Jobs] /\ db \in Databases /\ seen \in [Actors -> Databases]
        /\ req \in [Stages -> Requests]
    BY <1>2, <1>4
  <2>2. \A a \in Actors : /\ job[a].kind \in {"none", "tool", "apply", "applyAll"}
                          /\ job[a].todo \in Seq(Stages) /\ job[a].done \subseteq Stages
    BY <2>1 DEF Jobs
  <2>3. db.status \in [Stages -> Statuses] /\ db.rows \in Seq(Stages)
    BY <2>1 DEF Databases
  <2>4. late \subseteq Stages /\ cancelled \subseteq Actors /\ met \subseteq Disturbances
        /\ made \in [Files -> SUBSET Outside]
    BY <1>4
  <2>5. /\ pc \in [Actors -> PCs] /\ before \in [Actors -> Contents \union {Absent, Unset}]
        /\ reply \in [Actors -> {"none", "completed", "staged", "applied", "error"}]
    BY <1>4 DEF PCs
  <2>6. TypeOK
    BY <1>3, <2>1, <2>2, <2>3, <2>4, <2>5 DEF TypeOK, Requests
  <2>7. QED  BY <2>1, <2>6 DEF TypeInv
<1>6. CallInv
  BY <1>1, <1>4 DEF CallInv, CallOK, NoJob, WriteInit
<1>7. AskedInv
  <2>1. \A s \in Stages : db.status[s] = "none"
    BY <1>4 DEF EmptyDb
  <2>2. \A a \in Actors : DOMAIN job[a].todo = {}
    <3>1. NoJob.todo = <<>> /\ DOMAIN <<>> = {}
      BY DEF NoJob
    <3>2. QED  BY <1>4, <3>1
  <2>3. QED  BY <2>1, <2>2 DEF AskedInv
<1>8. LogInv
  BY <1>1 DEF LogInv, WriteInit
<1>9. LimitInv
  <2>1. HasStatus(db, "pending") = {} /\ HasStatus(db, "applied") = {}
    BY <1>4 DEF HasStatus, EmptyDb
  <2>2. IsFiniteSet({}) /\ Cardinality({}) = 0
    BY FS_EmptySet
  <2>3. MaxApplies \in Nat
    BY DEF StagingAssumptions
  <2>4. \A a \in Actors : pc[a] = "idle"
    BY <1>4
  <2>5. WithinLimit(db)
    <3>1. 0 <= MaxApplies
      BY <2>3
    <3>2. IsFiniteSet(HasStatus(db, "pending")) /\ IsFiniteSet(HasStatus(db, "applied"))
      BY <2>1, <2>2, Zenon
    <3>3. Cardinality(HasStatus(db, "applied")) <= MaxApplies
      BY <2>1, <2>2, <3>1, Zenon
    <3>4. QED  BY <3>2, <3>3 DEF WithinLimit
  <2>6. QED  BY <2>4, <2>5 DEF LimitInv, ApplyLimit, WithinLimit
<1>10. QED  BY <1>5, <1>6, <1>7, <1>8, <1>9 DEF StagingInductive

LEMMA StepInductive ==
  ASSUME StagingAssumptions, StagingInductive, [Next]_sVars
  PROVE  StagingInductive'
<1>1. /\ TypeInv /\ CallInv /\ AskedInv /\ LogInv /\ LimitInv
      /\ IsFiniteSet(HasStatus(db, "pending"))
  BY DEF StagingInductive, LimitInv
<1>2. TypeInv' /\ CallInv' /\ AskedInv'
  BY <1>1, TypeStep, CallStep, AskedStep
<1>3. LogInv' /\ LimitInv'
  BY <1>1, LogStep, LimitStep
<1>4. QED  BY <1>2, <1>3 DEF StagingInductive

LEMMA StagingInductiveHolds == Spec => []StagingInductive
<1>1. Init => StagingInductive
  BY InitInductive, StagingAssumptions
<1>2. StagingInductive /\ [Next]_sVars => StagingInductive'
  BY StepInductive, StagingAssumptions
<1>3. QED  BY <1>1, <1>2, PTL DEF Spec

\* Types, the apply limit of a session for the tool, the command and the
\* auto-apply together, and nothing left open by a call that has returned: no
\* temporary file, no transaction that RollbackAll would undo later.
THEOREM StagingInvHolds == Spec => []StagingInv
<1>1. StagingInductive => StagingInv
  <2>1. SUFFICES ASSUME StagingInductive PROVE StagingInv
    OBVIOUS
  <2>2. TypeOK /\ ApplyLimit /\ CallInv /\ LogInv
    BY <2>1 DEF StagingInductive, TypeInv, LimitInv
  <2>3. ASSUME NEW a \in Actors, pc[a] = "idle" PROVE temp[a] = Absent /\ a \notin handle
    BY <2>2, <2>3 DEF CallInv, CallOK
  <2>4. NothingLeftOpen
    BY <2>2, <2>3 DEF NothingLeftOpen, LogInv
  <2>5. QED  BY <2>2, <2>4 DEF StagingInv
<1>2. QED  BY <1>1, StagingInductiveHolds, PTL

-----------------------------------------------------------------------------
(* What each action is to its call and to the file *)

\* The call of a goes on with the same stage, and leaves before as it is.
Steady(a) ==
  /\ job'[a].kind = job[a].kind /\ Stage(a)' = Stage(a) /\ File(a)' = File(a)
  /\ UNCHANGED req /\ before'[a] = before[a]

\* The stage of a is not applied, or is.
Fails(a) ==
  /\ pc'[a] \in {"reply", "next"}
  /\ pc'[a] = "next" => job[a].kind = "applyAll"
  /\ job[a].kind = "tool" => pc'[a] = "reply" /\ reply'[a] \in {"staged", "completed"}
Succeeds(a) ==
  /\ pc'[a] \in {"reply", "next"}
  /\ pc'[a] = "next" => job[a].kind = "applyAll"
  /\ pc'[a] = "reply" => reply'[a] = "applied"

\* What each action is to its call.
Begins(a) ==
  /\ pc[a] = "idle" /\ pc'[a] = "load" /\ job'[a].kind \in {"apply", "applyAll"}
  /\ before'[a] = Unset /\ (Overlap # {} => "overlap" \in met')
  /\ UNCHANGED <<writeVars, req, db, made>>
Creates(a) ==
  /\ pc[a] = "create" /\ job[a].kind = "tool" /\ Steady(a) /\ Created(a, pc'[a], reply'[a])
  /\ UNCHANGED <<writeVars, made>>
Records(a) ==
  /\ pc[a] = "record" /\ pc'[a] = "reply" /\ Steady(a) /\ (File(a) # NoPath => reply'[a] = "applied")
  /\ UNCHANGED <<writeVars, made>>
Nexts(a) ==
  /\ pc[a] = "next" /\ pc'[a] \in {"load", "reply"}
  /\ job[a].kind = "applyAll" /\ job'[a].kind = "applyAll"
  /\ UNCHANGED <<writeVars, req, db, made>>
Loads(a) ==
  /\ pc[a] = "load" /\ pc'[a] = IF File(a) = NoPath THEN "save" ELSE "check"
  /\ job[a].kind # "tool" /\ Steady(a) /\ UNCHANGED <<writeVars, db, made>>
Gives(a) ==
  /\ pc[a] \in {"load", "check", "backup", "temp"} /\ Steady(a) /\ Fails(a)
  /\ UNCHANGED <<safety, disk, handle, made, db>>
Checks(a) ==
  /\ pc[a] = "check" /\ pc'[a] = "backup" /\ Unchanged(a) /\ job'[a].kind = job[a].kind
  /\ Stage(a)' = Stage(a) /\ File(a)' = File(a) /\ before'[a] = disk[File(a)]
  /\ UNCHANGED <<writeVars, req, db, made>>
BacksUp(a) ==
  /\ pc[a] = "backup" /\ pc'[a] = "temp" /\ Steady(a) /\ BackupPath(File(a))
  /\ UNCHANGED <<safety, disk, handle, made, db>>
Prepares(a) ==
  /\ pc[a] = "temp" /\ pc'[a] = "rename" /\ Steady(a)
  /\ UNCHANGED <<safety, disk, bak, handle, made, db>>
Renames(a) ==
  /\ pc[a] = "rename" /\ Steady(a) /\ disk' = [disk EXCEPT ![File(a)] = req[Stage(a)].body]
  /\ job[a].kind # "tool" => pc'[a] = "save" /\ (safety.log => a \in handle')
  /\ job[a].kind = "tool" => pc'[a] = "record" \/ (pc'[a] = "reply" /\ reply'[a] = "applied")
  /\ UNCHANGED <<safety, bak, made, db>>
Loses(a) ==
  /\ pc[a] = "rename" /\ Steady(a) /\ Fails(a) /\ "rename" \in met'
  /\ disk' = disk \/ disk' = [disk EXCEPT ![File(a)] = Absent]
  /\ UNCHANGED <<safety, handle, made, db>>
Saves(a) ==
  /\ pc[a] = "save" /\ pc'[a] = "settle" /\ Steady(a) /\ UNCHANGED <<writeVars, made>>
GivesUp(a) ==
  /\ pc[a] = "save" /\ pc'[a] = "undo" /\ Steady(a) /\ UNCHANGED <<writeVars, made, db>>
  /\ a \in cancelled \/ db # seen[a] \/ "db" \in met'
Settles(a) ==
  /\ pc[a] = "settle" /\ Steady(a) /\ UNCHANGED <<safety, disk, bak, made, db>>
  /\ \/ pc'[a] = "undo" /\ a \in cancelled /\ handle' = handle
     \/ Succeeds(a)
Undoes(a) ==
  /\ pc[a] = "undo" /\ Steady(a) /\ Fails(a) /\ UNCHANGED <<safety, made, db>>
  /\ RollbackHandle(a, File(a)) \/ ("restore" \in met' /\ UNCHANGED <<disk, bak>>)
Stops(a) ==
  /\ pc[a] # "idle" /\ pc'[a] = "idle" /\ UNCHANGED <<safety, disk, bak, req, made, db>>
IsCancelled(a) ==
  /\ pc[a] # "idle" /\ pc' = pc /\ reply' = reply /\ Steady(a) /\ "cancel" \in met'
  /\ UNCHANGED <<writeVars, made, db>>

Moved(a) ==
  \/ Begins(a) \/ Creates(a) \/ Records(a) \/ Nexts(a) \/ Loads(a) \/ Gives(a) \/ Checks(a)
  \/ BacksUp(a) \/ Prepares(a) \/ Renames(a) \/ Loses(a) \/ Saves(a) \/ GivesUp(a)
  \/ Settles(a) \/ Undoes(a) \/ Stops(a) \/ IsCancelled(a)

LEMMA SteadyFrom ==
  ASSUME NEW a \in Actors, job'[a].kind = job[a].kind, job'[a].todo = job[a].todo,
         UNCHANGED <<req, before>>
  PROVE  Steady(a)
BY DEF Steady, Stage, File

LEMMA StageEndsFails ==
  ASSUME TypeInv, CallInv, NEW a \in Actors, pc[a] # "idle", job[a].kind # "tool",
         NEW ok \in BOOLEAN, StageEnds(a, ok), UNCHANGED <<req, before>>
  PROVE  Steady(a) /\ Fails(a) /\ (ok => Succeeds(a))
<1>1. CallTypes /\ Stage(a) \in Stages
  BY Typed
<1>2. PICK j \in Jobs, label \in PCs, result \in Replies :
        SameJob(a, j) /\ Moves(a, j, label, result) /\ Ended(a, label, result, ok)
  BY <1>1, StageEndsMoves
<1>3. job'[a] = j /\ pc'[a] = label /\ reply'[a] = result
  BY <1>1, <1>2 DEF Moves, CallTypes
<1>4. Steady(a)
  BY <1>2, <1>3, SteadyFrom DEF SameJob
<1>5. QED  BY <1>2, <1>3, <1>4 DEF Ended, Fails, Succeeds

LEMMA WriteFailedFails ==
  ASSUME TypeInv, CallInv, NEW a \in Actors, pc[a] # "idle", WriteFailed(a), UNCHANGED <<req, before>>
  PROVE  Steady(a) /\ Fails(a)
<1>1. CASE job[a].kind # "tool"
  BY <1>1, StageEndsFails DEF WriteFailed
<1>2. CASE job[a].kind = "tool"
  <2>1. CallTypes /\ job' = job
    BY <1>2, Typed DEF WriteFailed
  <2>2. pc'[a] = "reply" /\ reply'[a] \in {"staged", "completed"}
    BY <1>2, <2>1 DEF WriteFailed, Reply, Goto, CallTypes
  <2>3. Steady(a)
    BY <2>1, SteadyFrom
  <2>4. QED  BY <1>2, <2>2, <2>3 DEF Fails
<1>3. QED  BY <1>1, <1>2

LEMMA FinalizeMoved ==
  ASSUME TypeInv, CallInv, NEW a \in Actors, Finalize(a)
  PROVE  Creates(a) \/ Records(a)
<1>1. CallTypes /\ CallOK(a) /\ (pc[a] # "idle" => Stage(a) \in Stages)
  BY Typed DEF CallInv
<1>2. CASE CreateStage(a) \/ CreateStageFails(a)
  <2>1. pc[a] = "create" /\ \E staged \in BOOLEAN : AfterCreate(a, staged)
    BY <1>2 DEF CreateStage, CreateStageFails
  <2>2. UNCHANGED <<writeVars, req, before, made>>
    BY <2>1 DEF AfterCreate, history
  <2>3. PICK j \in Jobs, label \in PCs, result \in Replies :
          SameJob(a, j) /\ Moves(a, j, label, result) /\ Created(a, label, result)
    BY <1>1, <2>1, AfterCreateMoves
  <2>4. job'[a] = j /\ pc'[a] = label /\ reply'[a] = result
    BY <1>1, <2>3 DEF Moves, CallTypes
  <2>5. Steady(a)
    BY <2>2, <2>3, <2>4, SteadyFrom DEF SameJob
  <2>6. QED  BY <1>1, <2>1, <2>2, <2>3, <2>4, <2>5 DEF Creates, CallOK
<1>3. CASE RecordApply(a) \/ RecordFails(a)
  <2>1. /\ pc[a] = "record" /\ UNCHANGED <<writeVars, job, req, before, made>>
        /\ pc'[a] = "reply" /\ (File(a) # NoPath => reply'[a] = "applied")
    BY <1>1, <1>3 DEF RecordApply, RecordFails, Reply, Goto, CallTypes, dbVars, history
  <2>2. Steady(a)
    BY <2>1, SteadyFrom
  <2>3. QED  BY <2>1, <2>2 DEF Records
<1>4. QED  BY <1>2, <1>3 DEF Finalize

LEMMA ApplyMoved ==
  ASSUME TypeInv, CallInv, IsFiniteSet(HasStatus(db, "pending")), NEW a \in Actors, Apply(a)
  PROVE  Moved(a)
<1>1. /\ CallTypes /\ CallOK(a) /\ (pc[a] # "idle" => Stage(a) \in Stages)
      /\ before \in [Actors -> Contents \union {Absent, Unset}]
  BY Typed DEF CallInv, TypeInv, TypeOK
<1>2. CASE (\E s \in Stages : ApplyOne(a, s)) \/ ApplyAll(a)
  <2>1. PICK kind \in {"apply", "applyAll"}, todo \in Seq(Stages) :
          Call(a, kind, todo, "load") /\ Meet(Overlap) /\ UNCHANGED req
    <3>1. CASE \E s \in Stages : ApplyOne(a, s)
      <4>1. PICK s \in Stages : ApplyOne(a, s)
        BY <3>1
      <4>2. <<s>> \in Seq(Stages)
        OBVIOUS
      <4>3. QED  BY <4>1, <4>2 DEF ApplyOne
    <3>2. CASE ApplyAll(a)
      BY <3>2, PendingListed DEF ApplyAll
    <3>3. QED  BY <1>2, <3>1, <3>2
  <2>2. PICK j \in Jobs : pc[a] = "idle" /\ j.kind = kind /\ Moves(a, j, "load", "none")
    BY <1>1, <2>1, CallMoves
  <2>3. job'[a].kind = kind /\ pc'[a] = "load" /\ pc[a] = "idle"
    BY <1>1, <2>2 DEF Moves, CallTypes
  <2>4. UNCHANGED <<writeVars, req, db, made>> /\ before'[a] = Unset
    BY <1>1, <2>1 DEF Call
  <2>5. Overlap # {} => "overlap" \in met'
    BY <2>1 DEF Meet, Overlap
  <2>6. QED  BY <2>3, <2>4, <2>5 DEF Begins, Moved
<1>3. CASE NextStage(a)
  <2>1. pc[a] = "next" /\ pc'[a] \in {"load", "reply"} /\ UNCHANGED <<writeVars, req, db, made>>
    BY <1>1, <1>3 DEF NextStage, Reply, Goto, CallTypes, dbVars, history
  <2>2. job[a].kind = "applyAll" /\ job[a] \in Jobs
    BY <1>1, <2>1 DEF CallOK, CallTypes
  <2>3. job'[a].kind = "applyAll"
    <3>1. CASE job' = job
      BY <2>2, <3>1
    <3>2. CASE job' = [job EXCEPT ![a].todo = Tail(job[a].todo)]
      <4>1. \A j \in Jobs : \A t : [j EXCEPT !.todo = t].kind = j.kind
        BY DEF Jobs
      <4>2. job'[a] = [job[a] EXCEPT !.todo = Tail(job[a].todo)]
        BY <1>1, <3>2 DEF CallTypes
      <4>3. QED  BY <2>2, <4>1, <4>2
    <3>3. QED  BY <1>3, <3>1, <3>2 DEF NextStage
  <2>4. QED  BY <2>1, <2>2, <2>3 DEF Nexts, Moved
<1>4. CASE LoadStage(a)
  <2>1. /\ pc[a] = "load" /\ UNCHANGED <<writeVars, req, db, made, job, before>>
        /\ pc'[a] = IF File(a) = NoPath THEN "save" ELSE "check"
    BY <1>1, <1>4 DEF LoadStage, dbVars, history, Goto, CallTypes, File
  <2>2. Steady(a) /\ job[a].kind # "tool"
    BY <1>1, <2>1, SteadyFrom DEF CallOK
  <2>3. QED  BY <2>1, <2>2 DEF Loads, Moved
<1>5. CASE LoadFails(a)
  <2>1. /\ pc[a] = "load" /\ UNCHANGED <<writeVars, req, db, made, before>> /\ StageEnds(a, FALSE)
        /\ job[a].kind # "tool"
    BY <1>1, <1>5 DEF LoadFails, dbVars, history, CallOK
  <2>2. Steady(a) /\ Fails(a)
    BY <2>1, StageEndsFails
  <2>3. QED  BY <2>1, <2>2 DEF Gives, Moved, writeVars
<1>6. CASE SaveApply(a)
  <2>1. pc[a] = "save" /\ pc'[a] = "settle" /\ UNCHANGED <<writeVars, req, made, job, before>>
    BY <1>1, <1>6 DEF SaveApply, history, Goto, CallTypes
  <2>2. QED  BY <2>1, SteadyFrom DEF Saves, Moved
<1>7. CASE SaveFails(a)
  <2>1. pc[a] = "save" /\ pc'[a] = "undo" /\ UNCHANGED <<writeVars, req, db, made, job, before>>
    BY <1>1, <1>7 DEF SaveFails, history, dbVars, Goto, CallTypes
  <2>2. a \in cancelled \/ db # seen[a] \/ "db" \in met'
    BY <1>7 DEF SaveFails, Fault, Meet
  <2>3. QED  BY <2>1, <2>2, SteadyFrom DEF GivesUp, Moved
<1>8. CASE Settle(a) /\ a \in cancelled
  <2>1. /\ pc[a] = "settle" /\ pc'[a] = "undo"
        /\ UNCHANGED <<safety, disk, bak, handle, req, db, made, job, before>>
    BY <1>1, <1>8 DEF Settle, history, dbVars, Goto, CallTypes
  <2>2. QED  BY <1>8, <2>1, SteadyFrom DEF Settles, Moved
<1>9. CASE Settle(a) /\ a \notin cancelled
  <2>1. /\ pc[a] = "settle" /\ StageEnds(a, TRUE) /\ job[a].kind # "tool"
        /\ UNCHANGED <<safety, disk, bak, req, db, made, before>>
    BY <1>1, <1>9 DEF Settle, history, dbVars, CommitHandle, CallOK
  <2>2. Steady(a) /\ Succeeds(a)
    BY <2>1, StageEndsFails
  <2>3. QED  BY <2>1, <2>2 DEF Settles, Moved
<1>10. CASE Undo(a)
  <2>1. /\ pc[a] = "undo" /\ StageEnds(a, FALSE) /\ job[a].kind # "tool"
        /\ UNCHANGED <<safety, req, db, made, before>>
    BY <1>1, <1>10 DEF Undo, history, dbVars, CallOK
  <2>2. Steady(a) /\ Fails(a)
    BY <2>1, StageEndsFails
  <2>3. RollbackHandle(a, File(a)) \/ ("restore" \in met' /\ UNCHANGED <<disk, bak>>)
    BY <1>10 DEF Undo, RollbackFails, Fault, Meet
  <2>4. QED  BY <2>1, <2>2, <2>3 DEF Undoes, Moved
<1>11. QED  BY <1>2, <1>3, <1>4, <1>5, <1>6, <1>7, <1>8, <1>9, <1>10 DEF Apply

LEMMA WriteFileMoved ==
  ASSUME TypeInv, CallInv, NEW a \in Actors, WriteFile(a)
  PROVE  Moved(a)
<1>1. /\ CallTypes /\ CallOK(a) /\ (pc[a] # "idle" => Stage(a) \in Stages)
      /\ before \in [Actors -> Contents \union {Absent, Unset}]
  BY Typed DEF CallInv, TypeInv, TypeOK
<1>2. CASE Check(a)
  <2>1. pc[a] = "check" /\ UNCHANGED <<writeVars, req, db, made>>
    BY <1>2 DEF Check, dbVars
  <2>2. CASE ValidateOperation(Stage(a)) /\ Unchanged(a)
    <3>1. pc'[a] = "backup" /\ job' = job /\ before'[a] = disk[File(a)] /\ Unchanged(a)
      BY <1>1, <1>2, <2>2 DEF Check, Goto, CallTypes
    <3>2. Stage(a)' = Stage(a) /\ File(a)' = File(a)
      BY <2>1, <3>1 DEF Stage, File
    <3>3. QED  BY <2>1, <3>1, <3>2 DEF Checks, Moved
  <2>3. CASE ~(ValidateOperation(Stage(a)) /\ Unchanged(a))
    <3>1. WriteFailed(a) /\ before' = before
      BY <1>2, <2>3 DEF Check
    <3>2. Steady(a) /\ Fails(a)
      BY <2>1, <3>1, WriteFailedFails
    <3>3. QED  BY <2>1, <3>2 DEF Gives, Moved, writeVars
  <2>4. QED  BY <2>2, <2>3
<1>3. CASE Backup(a)
  <2>1. /\ pc[a] = "backup" /\ pc'[a] = "temp" /\ BackupPath(File(a))
        /\ UNCHANGED <<safety, disk, handle, req, db, made, job, before>>
    BY <1>1, <1>3 DEF Backup, history, dbVars, Goto, CallTypes
  <2>2. QED  BY <2>1, SteadyFrom DEF BacksUp, Moved
<1>4. CASE Temp(a)
  <2>1. /\ pc[a] = "temp" /\ pc'[a] = "rename"
        /\ UNCHANGED <<safety, disk, bak, handle, req, db, made, job, before>>
    BY <1>1, <1>4 DEF Temp, history, dbVars, Goto, CallTypes
  <2>2. QED  BY <2>1, SteadyFrom DEF Prepares, Moved
<1>5. CASE TempFails(a)
  <2>1. /\ pc[a] \in {"backup", "temp"} /\ WriteFailed(a)
        /\ UNCHANGED <<safety, disk, handle, req, db, made, before>>
    BY <1>5 DEF TempFails, history, dbVars
  <2>2. Steady(a) /\ Fails(a)
    BY <2>1, WriteFailedFails
  <2>3. QED  BY <2>1, <2>2 DEF Gives, Moved
<1>6. CASE Rename(a)
  <2>1. /\ pc[a] = "rename" /\ UNCHANGED <<safety, bak, req, db, made, job, before>>
        /\ disk' = [disk EXCEPT ![File(a)] = temp[a]]
    BY <1>6 DEF Rename, RenameOver, dbVars, history
  <2>2. temp[a] = req[Stage(a)].body
    BY <1>1, <2>1 DEF CallOK
  <2>3. CASE job[a].kind # "tool"
    <3>1. pc'[a] = "save"
      BY <1>1, <1>6, <2>3 DEF Rename, Goto, CallTypes
    <3>2. safety.log => a \in handle'
      BY <1>6, <2>3 DEF Rename, RenameOver, BeginTransaction
    <3>3. QED  BY <2>1, <2>2, <2>3, <3>1, <3>2, SteadyFrom DEF Renames, Moved
  <2>4. CASE job[a].kind = "tool"
    <3>1. pc'[a] = "record" \/ (pc'[a] = "reply" /\ reply'[a] = "applied")
      BY <1>1, <1>6, <2>4 DEF Rename, Goto, Reply, CallTypes
    <3>2. QED  BY <2>1, <2>2, <2>4, <3>1, SteadyFrom DEF Renames, Moved
  <2>5. QED  BY <2>3, <2>4
<1>7. CASE RenameError(a)
  <2>1. /\ pc[a] = "rename" /\ WriteFailed(a) /\ "rename" \in met'
        /\ disk' = disk \/ disk' = [disk EXCEPT ![File(a)] = Absent]
        /\ UNCHANGED <<safety, handle, req, db, made, before>>
    BY <1>7 DEF RenameError, RenameFails, Fault, Meet, history, dbVars
  <2>2. Steady(a) /\ Fails(a)
    BY <2>1, WriteFailedFails
  <2>3. QED  BY <2>1, <2>2 DEF Loses, Moved
<1>8. QED  BY <1>2, <1>3, <1>4, <1>5, <1>6, <1>7 DEF WriteFile

LEMMA ActorMoved ==
  ASSUME TypeInv, CallInv, IsFiniteSet(HasStatus(db, "pending")), NEW a \in Actors,
         Finalize(a) \/ Apply(a) \/ WriteFile(a) \/ Environment(a)
  PROVE  Moved(a)
<1>1. CASE Environment(a)
  <2>1. CallTypes
    BY Typed
  <2>2. CASE Return(a) \/ Crash(a)
    <3>1. pc[a] # "idle" /\ UNCHANGED <<safety, disk, bak, req, db, made>> /\ Forget(a)
      BY <2>2 DEF Return, Crash, LogDies, writeVars, dbVars
    <3>2. pc'[a] = "idle"
      BY <2>1, <3>1 DEF Forget, CallTypes
    <3>3. QED  BY <3>1, <3>2 DEF Stops, Moved
  <2>3. CASE Cancel(a)
    <3>1. /\ pc[a] # "idle" /\ pc' = pc /\ reply' = reply /\ "cancel" \in met'
          /\ UNCHANGED <<writeVars, req, db, made, job, before>>
      BY <2>3 DEF Cancel, Fault, Meet, history, dbVars
    <3>2. QED  BY <3>1, SteadyFrom DEF IsCancelled, Moved
  <2>4. QED  BY <1>1, <2>2, <2>3 DEF Environment
<1>2. QED  BY <1>1, FinalizeMoved, ApplyMoved, WriteFileMoved DEF Moved

ActorStep(a) == Finalize(a) \/ Apply(a) \/ WriteFile(a) \/ Environment(a)

Reachable == StagingAssumptions /\ StagingInductive

LEMMA ReachableFacts ==
  ASSUME Reachable
  PROVE  /\ StagingAssumptions /\ TypeInv /\ CallInv /\ AskedInv /\ LimitInv
         /\ IsFiniteSet(HasStatus(db, "pending")) /\ CallTypes /\ WriteTypeOK
         /\ \A a \in Actors : CallOK(a)
         /\ \A a \in Actors : pc[a] # "idle" => Stage(a) \in Stages /\ File(a) \in Files \union {NoPath}
BY Typed DEF Reachable, StagingInductive, LimitInv, CallInv

\* Calls that do not overlap: the one that moves is the only one.
LEMMA Solo ==
  ASSUME Reachable, AloneInv, [Next]_sVars, Without({"overlap"})', NEW a \in Actors,
         ActorStep(a) \/ (Tools /\ a = Server)
  PROVE  \A b \in Actors \ {a} : pc[b] = "idle" /\ pc'[b] = "idle"
<1>1. "overlap" \notin met' /\ Without({"overlap"})
  BY ReachableFacts, MetGrows DEF Without
<1>2. CASE ActorStep(a)
  <2>1. Moved(a) /\ SameCalls(a)
    BY <1>2, ActorMoved, OthersStay, ReachableFacts DEF ActorStep
  <2>2. CASE Begins(a)
    <3>1. Overlap = {}
      BY <1>1, <2>2 DEF Begins
    <3>2. \A b \in Actors : pc[b] = "idle"
      BY <3>1 DEF Overlap
    <3>3. QED  BY <2>1, <3>2 DEF SameCalls, SameCall
  <2>3. CASE ~Begins(a)
    <3>1. pc[a] # "idle"
      BY <2>1, <2>3 DEF Moved, Creates, Records, Nexts, Loads, Gives, Checks, BacksUp, Prepares,
         Renames, Loses, Saves, GivesUp, Settles, Undoes, Stops, IsCancelled
    <3>2. \A b \in Actors \ {a} : pc[b] = "idle"
      BY <1>1, <3>1 DEF AloneInv
    <3>3. QED  BY <2>1, <3>2 DEF SameCalls, SameCall
  <2>4. QED  BY <2>2, <2>3
<1>3. CASE Tools /\ a = Server
  <2>1. PICK s, source : /\ Call(Server, "tool", <<s>>, "create")
                         /\ Meet(Overlap \union {"empty" : x \in {Empty} \cap {source}})
    BY <1>3, ToolsEffect, ReachableFacts DEF ToolEffect
  <2>2. Overlap = {}
    BY <1>1, <2>1 DEF Meet, Overlap
  <2>3. \A b \in Actors : pc[b] = "idle"
    BY <2>2 DEF Overlap
  <2>4. \A b \in Actors \ {a} : pc'[b] = pc[b]
    BY <1>3, <2>1, ReachableFacts DEF Call, Goto, CallTypes
  <2>5. QED  BY <2>3, <2>4
<1>4. QED  BY <1>2, <1>3

LEMMA AloneStep ==
  ASSUME Reachable, AloneInv, [Next]_sVars
  PROVE  AloneInv'
<1>1. SUFFICES ASSUME Without({"overlap"})', NEW a \in Actors, NEW b \in Actors,
                      pc'[a] # "idle", pc'[b] # "idle"
               PROVE  a = b
  BY DEF AloneInv
<1>2. ASSUME NEW c \in Actors, ActorStep(c) \/ (Tools /\ c = Server) PROVE a = b
  BY <1>1, <1>2, Solo
<1>3. CASE Passive
  <2>1. pc' = pc /\ Without({"overlap"})
    BY <1>1, <1>3, PassiveStays, ReachableFacts, MetGrows DEF callVars, Without
  <2>2. QED  BY <1>1, <2>1 DEF AloneInv
<1>4. Server \in Actors
  BY ReachableFacts DEF StagingAssumptions
<1>5. QED  BY <1>2, <1>3, <1>4 DEF Next, Passive, ActorStep

LEMMA SeenStep ==
  ASSUME Reachable, AloneInv, SeenInv, [Next]_sVars
  PROVE  SeenInv'
<1>1. SUFFICES ASSUME Without({"overlap"})', NEW a \in Actors, job'[a].kind # "tool", InApply(pc'[a])
               PROVE  db' = seen'[a]
  BY DEF SeenInv, InApply
<1>2. Without({"overlap"}) /\ "overlap" \notin met'
  BY <1>1, MetGrows, ReachableFacts DEF Without
<1>3. CASE LoadStage(a) /\ seen'[a] = db
  BY <1>3 DEF LoadStage, dbVars
<1>4. CASE job[a].kind # "tool" /\ InApply(pc[a]) /\ seen'[a] = seen[a]
  <2>1. db = seen[a] /\ pc[a] # "idle"
    BY <1>2, <1>4 DEF SeenInv, InApply
  <2>2. \A b \in Actors : pc[b] # "idle" => b = a
    BY <1>2, <2>1 DEF AloneInv
  <2>3. ~CleanupExpiredStages
    <3>1. Overlap # {}
      BY <2>1 DEF Overlap
    <3>2. QED  BY <1>2, <3>1 DEF CleanupExpiredStages, Meet, Overlap
  <2>4. pc[a] # "create" /\ pc[a] # "record" /\ pc'[a] # "settle"
    BY <1>1, <1>4 DEF InApply
  <2>5. db' = db
    BY <2>2, <2>3, <2>4, DbEffectHolds, ReachableFacts DEF DbEffect
  <2>6. QED  BY <1>4, <2>1, <2>5
<1>5. QED  BY <1>1, <1>3, <1>4, ApplyUnderWay, ReachableFacts

-----------------------------------------------------------------------------
(* What a step can do to a file *)

Disk(f) ==
  \/ disk'[f] = disk[f]
  \/ disk'[f] = Absent
  \/ disk'[f] = bak[f]
  \/ \E a \in Actors : Renames(a) /\ f = File(a) /\ disk'[f] = req[Stage(a)].body
  \/ \E e \in Outside : disk'[f] = With(disk[f], e)

LEMMA DiskEffect ==
  ASSUME Reachable, [Next]_sVars, NEW f \in Files
  PROVE  Disk(f) /\ bak'[f] \in {bak[f], Absent, disk[f]}
<1>1. /\ disk \in [Files -> Contents \union {Absent}] /\ bak \in [Files -> Contents \union {Absent}]
      /\ TypeInv /\ CallInv /\ IsFiniteSet(HasStatus(db, "pending"))
  BY ReachableFacts DEF WriteTypeOK
<1>2. CASE ~Touches
  <2>1. UNCHANGED <<disk, bak>>
    BY <1>2, NoTouch DEF writeVars
  <2>2. QED  BY <2>1 DEF Disk
<1>3. ASSUME NEW a \in Actors, Backup(a) \/ Temp(a) \/ TempFails(a)
      PROVE  Disk(f) /\ bak'[f] \in {bak[f], Absent, disk[f]}
  BY <1>1, <1>3 DEF Backup, Temp, TempFails, CleanupFailedWrite, BackupPath, Disk
<1>4. ASSUME NEW a \in Actors, Rename(a)
      PROVE  Disk(f) /\ bak'[f] \in {bak[f], Absent, disk[f]}
  <2>1. pc[a] = "rename" /\ Moved(a) /\ bak' = bak /\ disk' = [disk EXCEPT ![File(a)] = temp[a]]
    BY <1>1, <1>4, WriteFileMoved DEF Rename, RenameOver, WriteFile
  <2>2. Renames(a) \/ Loses(a) \/ IsCancelled(a) \/ Stops(a)
    BY <2>1 DEF Moved, Begins, Creates, Records, Nexts, Loads, Gives, Checks, BacksUp, Prepares,
       Saves, GivesUp, Settles, Undoes
  <2>3. CASE Renames(a)
    BY <1>1, <2>1, <2>3 DEF Renames, Disk
  <2>4. CASE ~Renames(a)
    BY <1>1, <2>1, <2>2, <2>4 DEF Loses, IsCancelled, Stops, Disk, writeVars
  <2>5. QED  BY <2>3, <2>4
<1>5. ASSUME NEW a \in Actors, RenameError(a)
      PROVE  Disk(f) /\ bak'[f] \in {bak[f], Absent, disk[f]}
  BY <1>1, <1>5 DEF RenameError, RenameFails, CleanupFailedWrite, Disk
<1>6. ASSUME NEW a \in Actors, Settle(a) \/ Undo(a)
      PROVE  Disk(f) /\ bak'[f] \in {bak[f], Absent, disk[f]}
  BY <1>1, <1>6 DEF Settle, Undo, CommitHandle, RollbackHandle, RollbackFails, Disk
<1>7. ASSUME NEW a \in Actors, Crash(a)
      PROVE  Disk(f) /\ bak'[f] \in {bak[f], Absent, disk[f]}
  BY <1>1, <1>7 DEF Crash, LogDies, Disk
<1>8. ASSUME NEW g \in Files, Edit(g)
      PROVE  Disk(f) /\ bak'[f] \in {bak[f], Absent, disk[f]}
  BY <1>1, <1>8 DEF Edit, Disk
<1>9. ASSUME NEW tx \in txs, Cleanup(tx)
      PROVE  Disk(f) /\ bak'[f] \in {bak[f], Absent, disk[f]}
  BY <1>1, <1>9 DEF Cleanup, CleanupTransaction, Disk
<1>10. QED  BY <1>2, <1>3, <1>4, <1>5, <1>6, <1>7, <1>8, <1>9 DEF Touches

LEMMA ReqStep ==
  ASSUME Reachable, ReqInv, [Next]_sVars
  PROVE  ReqInv'
<1> DEFINE Fresh(s) == /\ \A f \in Files : s \notin Changes(disk[f]) /\ s \notin Changes(bak[f])
                       /\ \A t \in Stages : s \notin Changes(req[t].body)
<1>1. /\ StagingAssumptions /\ TypeInv /\ WriteTypeOK /\ req \in [Stages -> Requests]
      /\ req' \in [Stages -> Requests] /\ Changes(Absent) = {} /\ Changes(Empty) = {}
      /\ \A a \in Actors : pc[a] # "idle" => Stage(a) \in Stages
  <2>1. TypeInv'
    BY TypeStep, ReachableFacts
  <2>2. QED  BY <2>1, ReachableFacts, Typed DEF TypeInv, TypeOK, Requests, Changes
<1>2. ASSUME NEW s \in Stages, req'[s] = NoRequest PROVE req[s] = NoRequest
  BY <1>1, <1>2, NewRequest
<1>3. ASSUME NEW s \in Stages, req[s] = NoRequest, NEW f \in Files
      PROVE  s \notin Changes(disk'[f]) /\ s \notin Changes(bak'[f])
  <2>1. Fresh(s) /\ s \notin Outside
    BY <1>1, <1>3, ContentFacts DEF ReqInv
  <2>2. disk[f] \in Contents \union {Absent}
    BY <1>1 DEF WriteTypeOK
  <2>3. s \notin Changes(bak'[f])
    BY <1>1, <2>1, DiskEffect
  <2>4. ASSUME NEW a \in Actors, Renames(a), disk'[f] = req[Stage(a)].body
        PROVE  s \notin Changes(disk'[f])
    BY <1>1, <2>1, <2>4 DEF Renames
  <2>5. ASSUME NEW e \in Outside, disk'[f] = With(disk[f], e)
        PROVE  s \notin Changes(disk'[f])
    <3>1. Changes(With(disk[f], e)) = Changes(disk[f]) \union {e}
      BY <1>1, <2>2, WithFacts
    <3>2. QED  BY <2>1, <2>5, <3>1
  <2>6. s \notin Changes(disk'[f])
    BY <1>1, <2>1, <2>4, <2>5, DiskEffect DEF Disk
  <2>7. QED  BY <2>3, <2>6
<1>4. CASE Tools
  <2>1. PICK u \in Stages : \E path, source, body, conf : ToolEffect(u, path, source, body, conf)
    BY <1>1, <1>4, ToolsEffect
  <2>2. PICK path, source, body, conf : ToolEffect(u, path, source, body, conf)
    BY <2>1
  <2>3. PICK r \in Requests : /\ r.path = path /\ r.base = source /\ r.body = body
                              /\ req' = [req EXCEPT ![u] = r]
    BY <2>2 DEF ToolEffect, BuildStage
  <2>4. source = Empty => ~Without({"empty"})'
    BY <2>2 DEF ToolEffect, Meet, Without
  <2>5. body \in {With(source, u), Empty} /\ source \in Contents
        /\ Changes(With(source, u)) = Changes(source) \union {u}
    BY <1>1, <2>2, WithFacts DEF ToolEffect
  <2>6. ASSUME NEW s \in Stages, s # u, Fresh(s) PROVE s \notin Changes(body)
    <3>1. s \notin Changes(source)
      <4>1. Changes({}) = {}
        BY DEF Changes
      <4>2. source = {} \/ \E f \in Files : source = disk[f]
        BY <2>2 DEF ToolEffect
      <4>3. QED  BY <2>6, <4>1, <4>2
    <3>2. QED  BY <1>1, <2>5, <2>6, <3>1
  <2>7. ASSUME NEW s \in Stages
        PROVE  /\ req'[s].path # NoPath => req'[s].body \in {With(req'[s].base, s), Empty}
               /\ req'[s].path # NoPath /\ Without({"empty"})' => req'[s].base # Empty
    <3>1. CASE s = u
      BY <1>1, <2>3, <2>4, <2>5, <3>1
    <3>2. CASE s # u
      <4>1. req'[s] = req[s] /\ (Without({"empty"})' => Without({"empty"}))
        BY <1>1, <2>3, <3>2, MetGrows DEF Without
      <4>2. QED  BY <4>1 DEF ReqInv
    <3>3. QED  BY <3>1, <3>2
  <2>8. ASSUME NEW s \in Stages, req'[s] = NoRequest, NEW t \in Stages
        PROVE  s \notin Changes(req'[t].body)
    <3>1. Fresh(s) /\ s # u
      BY <1>2, <1>1, <2>2, <2>8, NewRequest DEF ReqInv
    <3>2. CASE t = u
      BY <1>1, <2>3, <2>6, <3>1, <3>2
    <3>3. CASE t # u
      BY <1>1, <2>3, <3>1, <3>3
    <3>4. QED  BY <3>2, <3>3
  <2>9. QED  BY <1>2, <1>3, <2>7, <2>8 DEF ReqInv
<1>5. CASE ~Tools
  <2>1. req' = req /\ (Without({"empty"})' => Without({"empty"}))
    BY <1>1, <1>5, OnlyToolsRequest, MetGrows DEF Without
  <2>2. QED  BY <1>3, <2>1 DEF ReqInv
<1>6. QED  BY <1>4, <1>5

-----------------------------------------------------------------------------
(* The write of a call that nobody disturbs *)

InWrite(label) == label \in {"backup", "temp", "rename", "save", "settle", "undo"}

LEMMA StillUndisturbed ==
  ASSUME Reachable, [Next]_sVars, Undisturbed'
  PROVE  /\ Undisturbed /\ safety' = safety
         /\ met' \cap {"overlap", "race", "rename", "restore", "cleanup"} = {}
         /\ (safety.backups /\ safety.log) \/ met' \cap {"db", "cancel"} = {}
<1>1. met \subseteq met' /\ safety' = safety
  BY MetGrows, FilesTyped, ReachableFacts
<1>2. QED  BY <1>1 DEF Undisturbed, CanRestore, Without

\* No write is disturbed by a step that moves no call.
LEMMA PassiveFiles ==
  ASSUME Reachable, Passive, Without({"race"})', Without({"cleanup"})', NEW b \in Actors
  PROVE  /\ UNCHANGED <<handle, req>> /\ SameCall(b)
         /\ Stage(b)' = Stage(b) /\ (pc[b] # "idle" => File(b)' = File(b))
         /\ pc[b] # "reply" => before'[b] = before[b]
         /\ InWrite(pc[b]) /\ File(b) # NoPath =>
              /\ disk'[File(b)] = disk[File(b)] /\ bak'[File(b)] = bak[File(b)]
              /\ made'[File(b)] = made[File(b)]
<1>1. /\ UNCHANGED <<handle, req>> /\ SameCall(b)
      /\ pc[b] # "reply" => before'[b] = before[b]
  BY PassiveStays, ReachableFacts
<1>2. Stage(b)' = Stage(b) /\ File(b)' = File(b)
  BY <1>1 DEF Stage, File, SameCall
<1>3. ASSUME InWrite(pc[b]), File(b) # NoPath
      PROVE  /\ disk'[File(b)] = disk[File(b)] /\ bak'[File(b)] = bak[File(b)]
             /\ made'[File(b)] = made[File(b)]
  <2>1. File(b) \in Files /\ Writing(File(b))
        /\ disk \in [Files -> Contents \union {Absent}] /\ bak \in [Files -> Contents \union {Absent}]
        /\ made \in [Files -> SUBSET Outside]
    BY <1>3, ReachableFacts DEF InWrite, Writing, WriteTypeOK, TypeInv, TypeOK
  <2>2. ASSUME NEW f \in Files, Edit(f) PROVE f # File(b) /\ bak' = bak
    <3>1. ~Writing(f)
      <4>1. ASSUME Writing(f) PROVE FALSE
        <5>1. {"race" : x \in {TRUE} \cap {Writing(f)}} = {"race"}
          BY <4>1
        <5>2. Meet({"race"})
          BY <2>2, <5>1 DEF Edit
        <5>3. QED  BY <5>2 DEF Meet, Without
      <4>2. QED  BY <4>1
    <3>2. QED  BY <2>1, <2>2, <3>1 DEF Edit
  <2>3. ASSUME NEW tx \in txs, Cleanup(tx) PROVE tx.file # File(b) /\ disk' = disk
    <3>1. ~Writing(tx.file)
      <4>1. ASSUME Writing(tx.file) PROVE FALSE
        <5>1. {"cleanup" : x \in {TRUE} \cap {Writing(tx.file)}} = {"cleanup"}
          BY <4>1
        <5>2. Meet({"cleanup"})
          BY <2>3, <5>1 DEF Cleanup
        <5>3. QED  BY <5>2 DEF Meet, Without
      <4>2. QED  BY <4>1
    <3>2. QED  BY <2>1, <2>3, <3>1 DEF Cleanup, CleanupTransaction
  <2>4. CASE \E f \in Files : Edit(f)
    BY <2>1, <2>2, <2>4 DEF Edit
  <2>5. CASE \E tx \in txs : Cleanup(tx)
    BY <2>1, <2>3, <2>5 DEF Cleanup, CleanupTransaction, history
  <2>6. CASE (\E s \in Stages : Expire(s)) \/ CleanupExpiredStages \/ UNCHANGED sVars
    BY <2>6 DEF Expire, CleanupExpiredStages, sVars, writeVars, history
  <2>7. QED  BY <2>4, <2>5, <2>6 DEF Passive
<1>4. QED  BY <1>1, <1>2, <1>3

\* The step of a call, when nobody disturbs it.
LEMMA WriteMoves ==
  ASSUME Reachable, SeenInv, WriteInv, [Next]_sVars, Undisturbed', CallInv',
         NEW a \in Actors, Moved(a)
  PROVE  (\A f \in Files : disk'[f] # Absent) /\ WriteOK(a)'
<1>1. /\ StagingAssumptions /\ CallOK(a) /\ WriteOK(a) /\ (\A f \in Files : disk[f] # Absent)
      /\ pc[a] # "idle" => Stage(a) \in Stages /\ File(a) \in Files \union {NoPath}
      /\ disk \in [Files -> Contents \union {Absent}] /\ bak \in [Files -> Contents \union {Absent}]
      /\ safety' = safety
  BY StillUndisturbed, ReachableFacts DEF WriteInv, WriteTypeOK
<1>2. /\ "rename" \notin met' /\ "restore" \notin met' /\ "overlap" \notin met'
      /\ (safety.backups /\ safety.log) \/ ("db" \notin met' /\ "cancel" \notin met')
      /\ met \subseteq met'
  BY StillUndisturbed, MetGrows, ReachableFacts
<1>3. CASE Begins(a)
  <2>1. disk' = disk /\ before'[a] = Unset /\ pc'[a] = "load"
    BY <1>3 DEF Begins, writeVars
  <2>2. QED  BY <1>1, <2>1 DEF WriteOK
<1>4. CASE Creates(a)
  <2>1. /\ disk' = disk /\ pc'[a] \in {"check", "record", "reply"} /\ job'[a].kind = "tool"
    BY <1>4 DEF Creates, Created, Steady, writeVars
  <2>2. QED  BY <1>1, <2>1 DEF WriteOK
<1>5. CASE Records(a)
  <2>1. disk' = disk /\ pc'[a] = "reply" /\ job'[a].kind = "tool"
    BY <1>1, <1>5 DEF Records, Steady, writeVars, CallOK
  <2>2. QED  BY <1>1, <2>1 DEF WriteOK
<1>6. CASE Nexts(a)
  <2>1. disk' = disk /\ pc'[a] \in {"load", "reply"} /\ job'[a].kind = "applyAll"
    BY <1>6 DEF Nexts, writeVars
  <2>2. QED  BY <1>1, <2>1 DEF WriteOK
<1>7. CASE Loads(a)
  BY <1>1, <1>7 DEF Loads, Steady, writeVars, WriteOK
<1>8. CASE Gives(a)
  <2>1. disk' = disk
    BY <1>8 DEF Gives
  <2>2. QED  BY <1>1, <1>8, <2>1 DEF Gives, Steady, Fails, WriteOK
<1>9. CASE Checks(a)
  BY <1>1, <1>9 DEF Checks, WriteOK, CallOK, writeVars
<1>10. CASE BacksUp(a)
  <2>1. File(a) \in Files
    BY <1>1, <1>10 DEF BacksUp, CallOK
  <2>2. safety.backups => bak'[File(a)] = disk[File(a)]
    BY <1>1, <1>10, <2>1 DEF BacksUp, BackupPath
  <2>3. QED  BY <1>1, <1>10, <2>1, <2>2 DEF BacksUp, Steady, WriteOK
<1>11. CASE Prepares(a)
  BY <1>1, <1>11 DEF Prepares, Steady, WriteOK, CallOK
<1>12. CASE Renames(a)
  <2>1. File(a) \in Files /\ req[Stage(a)].body \in Contents /\ pc[a] = "rename"
    BY <1>1, <1>12, Typed, ReachableFacts DEF Renames, CallOK, Requests
  <2>2. \A f \in Files : disk'[f] # Absent
    BY <1>1, <1>12, <2>1, ContentFacts DEF Renames
  <2>3. disk'[File(a)] = req[Stage(a)].body /\ before[a] # Absent /\ disk[File(a)] = before[a]
    BY <1>1, <1>12, <2>1 DEF Renames, WriteOK
  <2>4. CASE job[a].kind = "tool"
    <3>1. pc'[a] \in {"record", "reply"} /\ job'[a].kind = "tool"
      BY <1>12, <2>4 DEF Renames, Steady
    <3>2. QED  BY <2>2, <3>1 DEF WriteOK
  <2>5. CASE job[a].kind # "tool"
    BY <1>1, <1>12, <2>1, <2>2, <2>3, <2>5 DEF Renames, Steady, WriteOK
  <2>6. QED  BY <2>4, <2>5
<1>13. ~Loses(a)
  BY <1>2 DEF Loses
<1>14. CASE Saves(a)
  BY <1>1, <1>14 DEF Saves, Steady, WriteOK, writeVars
<1>15. CASE GivesUp(a)
  <2>1. job[a].kind # "tool" /\ (a \in cancelled => "cancel" \in met')
    BY <1>1, <1>2, <1>15 DEF GivesUp, CallOK
  <2>2. db = seen[a]
    BY <1>2, <1>15, <2>1 DEF SeenInv, GivesUp, Without
  <2>3. safety.backups /\ safety.log
    BY <1>2, <1>15, <2>1, <2>2 DEF GivesUp
  <2>4. QED  BY <1>1, <1>15, <2>3 DEF GivesUp, Steady, WriteOK, writeVars
<1>16. CASE Settles(a)
  <2>1. CASE pc'[a] = "undo" /\ a \in cancelled /\ handle' = handle
    <3>1. safety.backups /\ safety.log
      BY <1>1, <1>2, <2>1 DEF CallOK
    <3>2. QED  BY <1>1, <1>16, <2>1, <3>1 DEF Settles, Steady, WriteOK
  <2>2. CASE Succeeds(a)
    BY <1>1, <1>16, <2>2 DEF Settles, Steady, Succeeds, WriteOK
  <2>3. QED  BY <1>16, <2>1, <2>2 DEF Settles
<1>17. CASE Undoes(a)
  <2>1. RollbackHandle(a, File(a)) /\ pc[a] = "undo" /\ safety.backups /\ safety.log
    BY <1>1, <1>2, <1>17 DEF Undoes, WriteOK
  <2>2. CASE File(a) = NoPath
    <3>1. a \notin handle
      BY <1>1, <2>2 DEF CallOK
    <3>2. disk' = disk
      BY <2>1, <3>1 DEF RollbackHandle
    <3>3. QED  BY <1>1, <1>17, <2>2, <3>2 DEF Undoes, Steady, Fails, WriteOK
  <2>3. CASE File(a) # NoPath
    <3>1. /\ File(a) \in Files /\ a \in handle /\ bak[File(a)] = before[a] /\ before[a] # Absent
      BY <1>1, <2>1, <2>3 DEF WriteOK
    <3>2. disk' = [disk EXCEPT ![File(a)] = before[a]]
      BY <2>1, <3>1 DEF RollbackHandle
    <3>3. QED  BY <1>1, <1>17, <2>3, <3>1, <3>2 DEF Undoes, Steady, Fails, WriteOK
  <2>4. QED  BY <2>2, <2>3
<1>18. CASE Stops(a)
  <2>1. CallOK(a)'
    BY DEF CallInv
  <2>2. job'[a].kind = "none" /\ pc'[a] = "idle"
    BY <1>18, <2>1 DEF Stops, CallOK, NoJob
  <2>3. QED  BY <1>1, <1>18, <2>2 DEF Stops, WriteOK
<1>19. CASE IsCancelled(a)
  BY <1>1, <1>19 DEF IsCancelled, Steady, WriteOK, writeVars
<1>20. QED
  BY <1>3, <1>4, <1>5, <1>6, <1>7, <1>8, <1>9, <1>10, <1>11, <1>12, <1>13, <1>14, <1>15, <1>16,
     <1>17, <1>18, <1>19 DEF Moved

LEMMA WriteStep ==
  ASSUME Reachable, AloneInv, SeenInv, WriteInv, CallInv', [Next]_sVars
  PROVE  WriteInv'
<1>1. SUFFICES ASSUME Undisturbed' PROVE (\A f \in Files : disk'[f] # Absent) /\ \A a \in Actors : WriteOK(a)'
  BY DEF WriteInv
<1>2. /\ \A f \in Files : disk[f] # Absent
      /\ \A a \in Actors : WriteOK(a) /\ CallOK(a) /\ CallOK(a)'
      /\ Without({"overlap"})' /\ Without({"race"})' /\ Without({"cleanup"})' /\ safety' = safety
  BY <1>1, StillUndisturbed, ReachableFacts DEF WriteInv, CallInv, Without
<1>3. ASSUME NEW b \in Actors, pc'[b] = "idle" PROVE WriteOK(b)'
  <2>1. job'[b].kind = "none" /\ CallOK(b)'
    BY <1>2, <1>3 DEF CallOK, NoJob
  <2>2. QED  BY <1>3, <2>1 DEF WriteOK
<1>4. ASSUME NEW a \in Actors, ActorStep(a)
      PROVE  (\A f \in Files : disk'[f] # Absent) /\ \A b \in Actors : WriteOK(b)'
  <2>1. Moved(a)
    BY <1>4, ActorMoved, ReachableFacts DEF ActorStep
  <2>2. (\A f \in Files : disk'[f] # Absent) /\ WriteOK(a)'
    BY <1>1, <2>1, WriteMoves
  <2>3. \A b \in Actors \ {a} : pc'[b] = "idle"
    BY <1>2, <1>4, Solo
  <2>4. QED  BY <1>3, <2>2, <2>3
<1>5. CASE Tools
  <2>1. Server \in Actors /\ \A b \in Actors \ {Server} : pc'[b] = "idle"
    BY <1>2, <1>5, Solo, ReachableFacts DEF StagingAssumptions
  <2>2. PICK s : Call(Server, "tool", <<s>>, "create")
    BY <1>5, ToolsEffect, ReachableFacts DEF ToolEffect
  <2>3. disk' = disk /\ pc'[Server] = "create" /\ job'[Server].kind = "tool"
    BY <2>1, <2>2, ReachableFacts DEF Call, Goto, CallTypes, NoJob, writeVars
  <2>4. WriteOK(Server)'
    BY <2>3 DEF WriteOK
  <2>5. QED  BY <1>2, <1>3, <2>1, <2>3, <2>4
<1>6. CASE Passive
  <2>1. ASSUME NEW f \in Files PROVE disk'[f] # Absent
    <3>1. CASE disk' = disk
      BY <1>2, <3>1
    <3>2. ASSUME NEW g \in Files, Edit(g) PROVE disk'[f] # Absent
      <4>1. PICK e \in Outside : disk' = [disk EXCEPT ![g] = With(disk[g], e)]
        BY <3>2 DEF Edit
      <4>2. disk \in [Files -> Contents \union {Absent}] /\ With(disk[g], e) # Absent
        BY WithFacts, ReachableFacts DEF WriteTypeOK
      <4>3. QED  BY <1>2, <4>1, <4>2
    <3>3. QED  BY <1>6, <3>1, <3>2 DEF Passive, Expire, CleanupExpiredStages, Cleanup,
              CleanupTransaction, sVars, writeVars
  <2>2. ASSUME NEW b \in Actors PROVE WriteOK(b)'
    <3>1. /\ UNCHANGED <<handle, req>> /\ SameCall(b)
          /\ Stage(b)' = Stage(b) /\ (pc[b] # "idle" => File(b)' = File(b))
          /\ pc[b] # "reply" => before'[b] = before[b]
          /\ InWrite(pc[b]) /\ File(b) # NoPath =>
               disk'[File(b)] = disk[File(b)] /\ bak'[File(b)] = bak[File(b)]
      BY <1>2, <1>6, PassiveFiles
    <3>2. CASE pc[b] = "idle"
      BY <1>3, <3>1, <3>2 DEF SameCall
    <3>3. CASE pc[b] = "reply"
      <4>1. before'[b] = Unset \/ (before'[b] = before[b] /\ disk' = disk)
        <5>1. before \in [Actors -> Contents \union {Absent, Unset}]
          BY ReachableFacts DEF TypeInv, TypeOK
        <5>2. QED  BY <1>6, <3>3, <5>1 DEF Passive, Edit, Expire, CleanupExpiredStages, Cleanup,
                  CleanupTransaction, sVars, writeVars, history
      <4>2. QED  BY <1>2, <3>1, <3>3, <4>1 DEF WriteOK, SameCall
    <3>4. CASE pc[b] \notin {"idle", "reply"}
      <4>1. pc[b] \in {"backup", "temp", "rename"} => File(b) # NoPath
        BY <1>2 DEF CallOK
      <4>2. QED  BY <1>2, <3>1, <3>4, <4>1 DEF WriteOK, SameCall, InWrite
    <3>5. QED  BY <3>2, <3>3, <3>4
  <2>3. QED  BY <2>1, <2>2
<1>7. QED  BY <1>4, <1>5, <1>6 DEF Next, Passive, ActorStep

-----------------------------------------------------------------------------
(* What a code tool answers *)

\* Somebody else's edit leaves the changes of the stages as they are.
LEMMA PassiveDisk ==
  ASSUME Reachable, Passive, NEW f \in Files
  PROVE  /\ Changes(disk[f]) \subseteq Changes(disk'[f])
         /\ \A s \in Stages : s \in Changes(disk'[f]) <=> s \in Changes(disk[f])
<1>1. disk \in [Files -> Contents \union {Absent}] /\ StagingAssumptions
  BY ReachableFacts DEF WriteTypeOK
<1>2. ASSUME NEW g \in Files, Edit(g)
      PROVE  /\ Changes(disk[f]) \subseteq Changes(disk'[f])
             /\ \A s \in Stages : s \in Changes(disk'[f]) <=> s \in Changes(disk[f])
  <2>1. PICK e \in Outside : disk' = [disk EXCEPT ![g] = With(disk[g], e)]
    BY <1>2 DEF Edit
  <2>2. Changes(With(disk[f], e)) = Changes(disk[f]) \union {e}
    BY <1>1, WithFacts
  <2>3. disk'[f] = disk[f] \/ disk'[f] = With(disk[f], e)
    BY <1>1, <2>1
  <2>4. \A s \in Stages : s # e
    BY <1>1, ContentFacts
  <2>5. QED  BY <2>2, <2>3, <2>4
<1>3. CASE ~\E g \in Files : Edit(g)
  <2>1. disk' = disk
    BY <1>3 DEF Passive, Expire, CleanupExpiredStages, Cleanup, CleanupTransaction, sVars, writeVars
  <2>2. QED  BY <2>1
<1>4. QED  BY <1>2, <1>3

\* The step of a code tool.
LEMMA ToolMoves ==
  ASSUME Reachable, ReqInv, NEW a \in Actors, ToolOK(a), CallInv', Moved(a)
  PROVE  ToolOK(a)'
<1>1. /\ CallOK(a) /\ CallOK(a)' /\ Changes(Absent) = {}
      /\ pc[a] # "idle" => Stage(a) \in Stages /\ File(a) \in Files \union {NoPath}
      /\ disk \in [Files -> Contents \union {Absent}] /\ req \in [Stages -> Requests]
  BY ReachableFacts, Typed DEF CallInv, WriteTypeOK, Changes
<1>2. SUFFICES ASSUME job'[a].kind = "tool", IsWritten(Stage(a))'
               PROVE  /\ pc'[a] \in {"create", "check", "backup", "temp", "rename"} =>
                           Stage(a)' \notin Changes(disk'[File(a)'])
                      /\ pc'[a] = "record" => Stage(a)' \in Changes(disk'[File(a)'])
                      /\ pc'[a] = "reply" =>
                           (reply'[a] = "applied" <=> Stage(a)' \in Changes(disk'[File(a)']))
  BY DEF ToolOK
<1>3. ASSUME Steady(a)
      PROVE  /\ job[a].kind = "tool" /\ IsWritten(Stage(a)) /\ Stage(a)' = Stage(a)
             /\ File(a)' = File(a) /\ File(a) # NoPath /\ req[Stage(a)].body # Empty
  BY <1>2, <1>3 DEF Steady, IsWritten, File
<1>4. CASE Begins(a) \/ Nexts(a) \/ Stops(a)
  BY <1>1, <1>2, <1>4 DEF Begins, Nexts, Stops, CallOK, NoJob
<1>5. CASE Loads(a) \/ Saves(a) \/ GivesUp(a) \/ Settles(a) \/ Undoes(a)
  <2>1. Steady(a) /\ job[a].kind # "tool"
    BY <1>1, <1>5 DEF Loads, Saves, GivesUp, Settles, Undoes, CallOK
  <2>2. QED  BY <1>3, <2>1
<1>6. CASE Creates(a)
  <2>1. Steady(a) /\ disk' = disk /\ pc[a] = "create" /\ Created(a, pc'[a], reply'[a])
    BY <1>6 DEF Creates, writeVars
  <2>2. QED  BY <1>3, <2>1 DEF ToolOK, Created
<1>7. CASE Records(a)
  BY <1>3, <1>7 DEF Records, writeVars, ToolOK
<1>8. CASE Gives(a)
  BY <1>1, <1>3, <1>8 DEF Gives, Fails, ToolOK, CallOK
<1>9. CASE Checks(a)
  <2>1. IsWritten(Stage(a))
    BY <1>2, <1>9 DEF Checks, IsWritten
  <2>2. QED  BY <1>2, <1>9, <2>1 DEF Checks, writeVars, ToolOK
<1>10. CASE BacksUp(a) \/ Prepares(a)
  BY <1>3, <1>10 DEF BacksUp, Prepares, ToolOK
<1>11. CASE Renames(a)
  <2>1. File(a) \in Files /\ disk'[File(a)] = req[Stage(a)].body /\ Steady(a)
    BY <1>1, <1>11 DEF Renames, CallOK
  <2>2. PICK s \in Stages : s = Stage(a)
    BY <1>1, <1>11 DEF Renames
  <2>3. req[s].body = With(req[s].base, s) /\ req[s].base \in Contents
    BY <1>1, <1>3, <2>1, <2>2 DEF ReqInv, IsWritten, Requests
  <2>4. Changes(With(req[s].base, s)) = Changes(req[s].base) \union {s}
    BY <2>3, WithFacts, ReachableFacts
  <2>5. Stage(a) \in Changes(disk'[File(a)])
    BY <2>1, <2>2, <2>3, <2>4
  <2>6. QED  BY <1>3, <1>11, <2>1, <2>5 DEF Renames
<1>12. CASE Loses(a)
  <2>1. File(a) \in Files /\ (disk'[File(a)] = disk[File(a)] \/ disk'[File(a)] = Absent)
    BY <1>1, <1>12 DEF Loses, CallOK
  <2>2. QED  BY <1>1, <1>3, <1>12, <2>1 DEF Loses, Fails, ToolOK
<1>13. CASE IsCancelled(a)
  BY <1>3, <1>13 DEF IsCancelled, writeVars, ToolOK
<1>14. QED
  BY <1>4, <1>5, <1>6, <1>7, <1>8, <1>9, <1>10, <1>11, <1>12, <1>13 DEF Moved

LEMMA ToolStep ==
  ASSUME Reachable, AloneInv, ReqInv, ToolInv, CallInv', [Next]_sVars
  PROVE  ToolInv'
<1>1. SUFFICES ASSUME Without({"overlap", "race"})', NEW a \in Actors PROVE ToolOK(a)'
  BY DEF ToolInv
<1>2. /\ Without({"overlap"})' /\ \A b \in Actors : ToolOK(b) /\ CallOK(b)'
      /\ StagingAssumptions /\ TypeInv /\ CallTypes
  BY <1>1, MetGrows, ReachableFacts DEF ToolInv, Without, CallInv
<1>3. ASSUME pc'[a] = "idle" PROVE ToolOK(a)'
  BY <1>2, <1>3 DEF CallOK, NoJob, ToolOK
<1>4. ASSUME NEW b \in Actors, ActorStep(b) PROVE ToolOK(a)'
  <2>1. Moved(b)
    BY <1>4, ActorMoved, ReachableFacts DEF ActorStep
  <2>2. ToolOK(b)'
    BY <1>2, <2>1, ToolMoves
  <2>3. a # b => pc'[a] = "idle"
    BY <1>2, <1>4, Solo
  <2>4. QED  BY <1>3, <2>2, <2>3
<1>5. CASE Tools
  <2>1. PICK s \in Stages : \E path, source, body, conf : ToolEffect(s, path, source, body, conf)
    BY <1>2, <1>5, ToolsEffect
  <2>2. PICK todo \in Seq(Stages) : todo = <<s>> /\ Head(todo) = s
    <3>1. <<s>> \in Seq(Stages) /\ Head(<<s>>) = s
      OBVIOUS
    <3>2. QED  BY <3>1
  <2>3. Call(Server, "tool", todo, "create") /\ req[s] = NoRequest /\ Server \in Actors
    BY <1>2, <2>1, <2>2 DEF ToolEffect, StagingAssumptions
  <2>4. PICK j \in Jobs : j.todo = todo /\ Moves(Server, j, "create", "none")
    BY <1>2, <2>3, CallMoves
  <2>5. pc'[Server] = "create" /\ Stage(Server)' = s /\ disk' = disk
    BY <1>2, <2>2, <2>3, <2>4 DEF Moves, CallTypes, Stage, Call, writeVars
  <2>6. ToolOK(Server)'
    <3>1. SUFFICES ASSUME IsWritten(Stage(Server))' PROVE Stage(Server)' \notin Changes(disk'[File(Server)'])
      BY <2>5 DEF ToolOK
    <3>2. req'[s].path \in Files
      <4>1. req' \in [Stages -> Requests]
        BY <1>2, TypeStep, ReachableFacts DEF TypeInv, TypeOK, Requests
      <4>2. QED  BY <2>5, <3>1, <4>1 DEF IsWritten, Requests
    <3>3. File(Server)' = req'[s].path
      BY <2>5 DEF File
    <3>4. QED  BY <2>3, <2>5, <3>2, <3>3 DEF ReqInv
  <2>7. a # Server => pc'[a] = "idle"
    BY <1>2, <1>5, <2>3, Solo
  <2>8. QED  BY <1>3, <2>6, <2>7
<1>6. CASE Passive
  <2>1. SameCall(a) /\ req' = req
    BY <1>2, <1>6, PassiveStays
  <2>2. Stage(a)' = Stage(a) /\ File(a)' = File(a)
    BY <2>1 DEF Stage, File, SameCall
  <2>3. CASE pc[a] = "idle"
    BY <1>3, <2>1, <2>3 DEF SameCall
  <2>4. CASE pc[a] # "idle" /\ File(a) # NoPath
    <3>1. PICK s \in Stages, f \in Files : s = Stage(a) /\ f = File(a)
      BY <2>4, ReachableFacts
    <3>2. s \in Changes(disk'[f]) <=> s \in Changes(disk[f])
      BY <1>6, PassiveDisk
    <3>3. IsWritten(s)' = IsWritten(s)
      BY <2>1 DEF IsWritten
    <3>4. QED  BY <1>2, <2>1, <2>2, <3>1, <3>2, <3>3 DEF ToolOK, SameCall
  <2>5. CASE File(a) = NoPath
    BY <2>1, <2>2, <2>5 DEF ToolOK, IsWritten, File
  <2>6. QED  BY <2>3, <2>4, <2>5
<1>7. QED  BY <1>4, <1>5, <1>6 DEF Next, Passive, ActorStep

-----------------------------------------------------------------------------
(* Other people's edits *)

\* What a request adds to: the result has every change the source has.
LEMMA ResultKeeps ==
  ASSUME Reachable, ReqInv, NEW a \in Actors, pc[a] \in {"rename", "save"}, File(a) # NoPath
  PROVE  /\ Changes(req[Stage(a)].base) \subseteq Changes(req[Stage(a)].body)
         /\ Stage(a) \in Changes(req[Stage(a)].body)
<1>1. PICK s \in Stages : s = Stage(a)
  BY ReachableFacts
<1>2. req[s].body = With(req[s].base, s) /\ req[s].base \in Contents
  <2>1. req[s].body # Empty /\ req[s].path # NoPath
    BY <1>1, ReachableFacts DEF CallOK, File
  <2>2. req \in [Stages -> Requests]
    BY ReachableFacts, Typed
  <2>3. QED  BY <2>1, <2>2 DEF ReqInv, Requests
<1>3. Changes(With(req[s].base, s)) = Changes(req[s].base) \union {s}
  BY <1>2, WithFacts, ReachableFacts
<1>4. QED  BY <1>1, <1>2, <1>3

\* What the step of a call, undisturbed, does to the file.
WriteEffect(a) ==
  \/ disk' = disk
  \/ Renames(a) /\ File(a) \in Files
  \/ /\ Undoes(a) /\ pc[a] = "undo" /\ File(a) \in Files
     /\ disk' = [disk EXCEPT ![File(a)] = before[a]]

LEMMA WriteEffectHolds ==
  ASSUME Reachable, WriteInv, [Next]_sVars, Undisturbed', NEW a \in Actors, Moved(a)
  PROVE  WriteEffect(a)
<1>1. CallOK(a) /\ WriteOK(a)
  BY StillUndisturbed, ReachableFacts DEF WriteInv
<1>2. "rename" \notin met' /\ "restore" \notin met'
  BY StillUndisturbed
<1>3. CASE Renames(a)
  BY <1>1, <1>3, ReachableFacts DEF Renames, CallOK, WriteEffect
<1>4. CASE Undoes(a)
  <2>1. RollbackHandle(a, File(a)) /\ pc[a] = "undo" /\ safety.backups /\ safety.log
    BY <1>1, <1>2, <1>4 DEF Undoes, WriteOK
  <2>2. CASE File(a) = NoPath
    <3>1. a \notin handle
      BY <1>1, <2>2 DEF CallOK
    <3>2. QED  BY <2>1, <3>1 DEF RollbackHandle, WriteEffect
  <2>3. CASE File(a) # NoPath
    <3>1. /\ File(a) \in Files /\ a \in handle /\ bak[File(a)] = before[a] /\ before[a] # Absent
      BY <1>1, <2>1, <2>3, ReachableFacts DEF WriteOK
    <3>2. disk' = [disk EXCEPT ![File(a)] = before[a]]
      BY <2>1, <3>1 DEF RollbackHandle
    <3>3. QED  BY <1>4, <2>1, <3>1, <3>2 DEF WriteEffect
  <2>4. QED  BY <2>2, <2>3
<1>5. CASE ~Renames(a) /\ ~Undoes(a)
  <2>1. disk' = disk
    BY <1>2, <1>5 DEF Moved, Begins, Creates, Records, Nexts, Loads, Gives, Checks, BacksUp,
       Prepares, Loses, Saves, GivesUp, Settles, Stops, IsCancelled, writeVars
  <2>2. QED  BY <2>1 DEF WriteEffect
<1>6. QED  BY <1>3, <1>4, <1>5

LEMMA EditMoves ==
  ASSUME Reachable, ReqInv, WriteInv, EditInv, [Next]_sVars, Undisturbed', Without({"empty"})',
         CallInv', NEW a \in Actors, Moved(a)
  PROVE  (\A f \in Files : made'[f] \subseteq Changes(disk'[f])) /\ EditOK(a)'
<1>1. /\ Undisturbed /\ Without({"empty"}) /\ "rename" \notin met'
      /\ CallOK(a) /\ WriteOK(a) /\ EditOK(a) /\ (\A f \in Files : made[f] \subseteq Changes(disk[f]))
      /\ pc[a] # "idle" => Stage(a) \in Stages /\ File(a) \in Files \union {NoPath}
      /\ disk \in [Files -> Contents \union {Absent}]
  BY StillUndisturbed, MetGrows, ReachableFacts DEF WriteInv, EditInv, WriteTypeOK, Without
<1>2. made' = made
  BY DEF Moved, Begins, Creates, Records, Nexts, Loads, Gives, Checks, BacksUp, Prepares, Renames,
     Loses, Saves, GivesUp, Settles, Undoes, Stops, IsCancelled
<1>3. ASSUME NEW f \in Files PROVE made'[f] \subseteq Changes(disk'[f])
  <2>1. CASE disk' = disk
    BY <1>1, <1>2, <2>1
  <2>2. CASE Renames(a) /\ File(a) \in Files
    <3>1. /\ disk' = [disk EXCEPT ![File(a)] = req[Stage(a)].body] /\ pc[a] = "rename"
          /\ File(a) # NoPath
      BY <1>1, <2>2 DEF Renames, CallOK
    <3>2. disk[File(a)] = req[Stage(a)].base
      BY <1>1, <3>1 DEF WriteOK, EditOK
    <3>3. Changes(disk[File(a)]) \subseteq Changes(req[Stage(a)].body)
      BY <3>1, <3>2, ResultKeeps
    <3>4. CASE f = File(a)
      <4>1. disk'[f] = req[Stage(a)].body /\ made[f] \subseteq Changes(disk[f])
        BY <1>1, <3>1, <3>4
      <4>2. QED  BY <1>2, <3>3, <3>4, <4>1
    <3>5. CASE f # File(a)
      BY <1>1, <1>2, <3>1, <3>5
    <3>6. QED  BY <3>4, <3>5
  <2>3. CASE /\ pc[a] = "undo" /\ File(a) \in Files /\ disk' = [disk EXCEPT ![File(a)] = before[a]]
    <3>1. made[File(a)] \subseteq Changes(before[a])
      BY <1>1, <2>3, ReachableFacts, ContentFacts DEF EditOK
    <3>2. QED  BY <1>1, <1>2, <2>3, <3>1
  <2>4. QED  BY <2>1, <2>2, <2>3, WriteEffectHolds DEF WriteEffect
<1>4. EditOK(a)'
  <2>1. CASE Checks(a)
    <3>1. File(a) # NoPath /\ req[Stage(a)].base # Empty
      <4>1. File(a) # NoPath /\ Stage(a) \in Stages
        BY <1>1, <2>1 DEF Checks, CallOK
      <4>2. QED  BY <1>1, <4>1 DEF ReqInv, File
    <3>2. before'[a] = req[Stage(a)].base
      BY <2>1, <3>1 DEF Checks, Unchanged
    <3>3. QED  BY <2>1, <3>2 DEF Checks, EditOK
  <2>2. CASE Renames(a)
    <3>1. File(a) \in Files /\ disk[File(a)] = before[a] /\ pc[a] = "rename"
      BY <1>1, <2>2 DEF Renames, CallOK, WriteOK
    <3>2. made[File(a)] \subseteq Changes(before[a])
      BY <1>1, <3>1
    <3>3. QED  BY <1>1, <1>2, <2>2, <3>1, <3>2 DEF Renames, Steady, EditOK
  <2>3. CASE Begins(a) \/ Nexts(a) \/ Stops(a)
    BY <2>3 DEF Begins, Nexts, Stops, EditOK
  <2>4. CASE Creates(a) \/ Records(a)
    BY <2>4 DEF Creates, Created, Records, EditOK
  <2>5. CASE Loads(a)
    BY <2>5 DEF Loads, Steady, EditOK
  <2>6. CASE Gives(a) \/ Undoes(a) \/ Loses(a)
    BY <2>6 DEF Gives, Undoes, Loses, Fails, EditOK
  <2>7. CASE BacksUp(a) \/ Prepares(a) \/ Saves(a) \/ GivesUp(a)
    BY <1>1, <1>2, <2>7 DEF BacksUp, Prepares, Saves, GivesUp, Steady, EditOK
  <2>8. CASE Settles(a)
    BY <1>1, <1>2, <2>8 DEF Settles, Succeeds, Steady, EditOK
  <2>9. CASE IsCancelled(a)
    BY <1>1, <1>2, <2>9 DEF IsCancelled, Steady, EditOK
  <2>10. QED  BY <2>1, <2>2, <2>3, <2>4, <2>5, <2>6, <2>7, <2>8, <2>9 DEF Moved
<1>5. QED  BY <1>3, <1>4

LEMMA EditStep ==
  ASSUME Reachable, AloneInv, ReqInv, WriteInv, EditInv, CallInv', [Next]_sVars
  PROVE  EditInv'
<1>1. SUFFICES ASSUME Undisturbed', Without({"empty"})'
               PROVE  (\A f \in Files : made'[f] \subseteq Changes(disk'[f])) /\ \A a \in Actors : EditOK(a)'
  BY DEF EditInv
<1>2. /\ Undisturbed /\ Without({"empty"})
      /\ \A f \in Files : made[f] \subseteq Changes(disk[f])
      /\ \A a \in Actors : EditOK(a) /\ CallOK(a)
      /\ Without({"overlap"})' /\ Without({"race"})' /\ Without({"cleanup"})'
  BY <1>1, StillUndisturbed, MetGrows, ReachableFacts DEF EditInv, Without
<1>3. ASSUME NEW b \in Actors, pc'[b] = "idle" PROVE EditOK(b)'
  BY <1>3 DEF EditOK
<1>4. ASSUME NEW a \in Actors, ActorStep(a)
      PROVE  (\A f \in Files : made'[f] \subseteq Changes(disk'[f])) /\ \A b \in Actors : EditOK(b)'
  <2>1. Moved(a)
    BY <1>4, ActorMoved, ReachableFacts DEF ActorStep
  <2>2. (\A f \in Files : made'[f] \subseteq Changes(disk'[f])) /\ EditOK(a)'
    BY <1>1, <2>1, EditMoves
  <2>3. \A b \in Actors \ {a} : pc'[b] = "idle"
    BY <1>2, <1>4, Solo
  <2>4. QED  BY <1>3, <2>2, <2>3
<1>5. CASE Tools
  <2>1. Server \in Actors /\ \A b \in Actors \ {Server} : pc'[b] = "idle"
    BY <1>2, <1>5, Solo, ReachableFacts DEF StagingAssumptions
  <2>2. PICK s : Call(Server, "tool", <<s>>, "create")
    BY <1>5, ToolsEffect, ReachableFacts DEF ToolEffect
  <2>3. disk' = disk /\ made' = made /\ pc'[Server] = "create"
    BY <2>1, <2>2, ReachableFacts DEF Call, Goto, CallTypes, writeVars
  <2>4. EditOK(Server)'
    BY <2>3 DEF EditOK
  <2>5. QED  BY <1>2, <1>3, <2>1, <2>3, <2>4
<1>6. CASE Passive
  <2>1. ASSUME NEW f \in Files PROVE made'[f] \subseteq Changes(disk'[f])
    <3>1. CASE UNCHANGED <<disk, made>>
      BY <1>2, <3>1
    <3>2. ASSUME NEW g \in Files, Edit(g) PROVE made'[f] \subseteq Changes(disk'[f])
      <4>1. PICK e \in Outside : /\ disk' = [disk EXCEPT ![g] = With(disk[g], e)]
                                 /\ made' = [made EXCEPT ![g] = made[g] \union {e}]
        BY <3>2 DEF Edit
      <4>2. /\ disk \in [Files -> Contents \union {Absent}] /\ made \in [Files -> SUBSET Outside]
            /\ Changes(With(disk[g], e)) = Changes(disk[g]) \union {e}
        BY WithFacts, ReachableFacts DEF WriteTypeOK, TypeInv, TypeOK
      <4>3. QED  BY <1>2, <4>1, <4>2
    <3>3. QED  BY <1>6, <3>1, <3>2 DEF Passive, Expire, CleanupExpiredStages, Cleanup,
              CleanupTransaction, sVars, writeVars, history
  <2>2. ASSUME NEW b \in Actors PROVE EditOK(b)'
    <3>1. /\ req' = req /\ SameCall(b)
          /\ Stage(b)' = Stage(b) /\ (pc[b] # "idle" => File(b)' = File(b))
          /\ pc[b] # "reply" => before'[b] = before[b]
          /\ InWrite(pc[b]) /\ File(b) # NoPath => made'[File(b)] = made[File(b)]
      BY <1>2, <1>6, PassiveFiles
    <3>2. QED  BY <1>2, <3>1 DEF EditOK, SameCall, InWrite
  <2>3. QED  BY <2>1, <2>2
<1>7. QED  BY <1>4, <1>5, <1>6 DEF Next, Passive, ActorStep

-----------------------------------------------------------------------------
(* What is recorded as applied *)

\* What is applied was, or is the stage of the call that records it now.
Applies(a, s) ==
  /\ s = Stage(a)
  /\ (pc[a] = "record" /\ pc'[a] = "reply") \/ (pc[a] = "save" /\ pc'[a] = "settle")

LEMMA NewApplied ==
  ASSUME Reachable, [Next]_sVars, NEW s \in HasStatus(db', "applied")
  PROVE  s \in HasStatus(db, "applied") \/ \E a \in Actors : Applies(a, s)
<1>1. s \in Stages /\ db'.status[s] = "applied"
  BY DEF HasStatus
<1>2. db \in Databases
  BY ReachableFacts DEF TypeInv
<1>3. SUFFICES ASSUME db.status[s] # "applied" PROVE \E a \in Actors : Applies(a, s)
  BY <1>1 DEF HasStatus
<1>4. ~CleanupExpiredStages
  BY <1>1, <1>2, <1>3 DEF CleanupExpiredStages, Databases
<1>5. ASSUME NEW a \in Actors, NEW status, Marks(Stage(a), status), status # "applied" PROVE FALSE
  BY <1>1, <1>2, <1>3, <1>5 DEF Marks, Databases
<1>6. ASSUME NEW a \in Actors, Marks(Stage(a), "applied") PROVE s = Stage(a)
  BY <1>1, <1>2, <1>3, <1>6 DEF Marks, Databases
<1>7. QED  BY <1>1, <1>3, <1>4, <1>5, <1>6, DbEffectHolds, ReachableFacts DEF DbEffect, Applies

\* An applied stage was asked for, and stays what it is.
LEMMA AppliedAsked ==
  ASSUME Reachable, [Next]_sVars, NEW s \in HasStatus(db, "applied")
  PROVE  s \in Stages /\ req'[s] = req[s] /\ (IsWritten(s) => req[s].path \in Files)
<1>1. s \in Stages /\ req[s] # NoRequest
  BY ReachableFacts DEF AskedInv, HasStatus
<1>2. req \in [Stages -> Requests]
  BY ReachableFacts, Typed
<1>3. QED  BY <1>1, <1>2, NewRequest, ReachableFacts DEF IsWritten, Requests

LEMMA AppliedMoves ==
  ASSUME Reachable, ReqInv, WriteInv, EditInv, ToolInv, AppliedInv, [Next]_sVars, Undisturbed',
         Without({"empty", "cancel"})', CallInv', NEW a \in Actors, Moved(a), SameCalls(a)
  PROVE  /\ \A s \in HasStatus(db', "applied") : IsWritten(s)' => s \in Changes(disk'[req'[s].path])
         /\ AppliedOK(a)'
<1>1. /\ Undisturbed /\ Without({"empty"}) /\ Without({"empty", "cancel"}) /\ "rename" \notin met'
      /\ "cancel" \notin met' /\ "cancel" \notin met
      /\ CallOK(a) /\ WriteOK(a) /\ EditOK(a) /\ AppliedOK(a) /\ ToolOK(a)
      /\ pc[a] # "idle" => Stage(a) \in Stages /\ File(a) \in Files \union {NoPath}
      /\ disk \in [Files -> Contents \union {Absent}]
      /\ \A s \in HasStatus(db, "applied") : IsWritten(s) => s \in Changes(disk[req[s].path])
  BY StillUndisturbed, MetGrows, ReachableFacts DEF WriteInv, EditInv, AppliedInv, ToolInv,
     WriteTypeOK, Without, Undisturbed
<1>2. req' = req
  BY DEF Moved, Begins, Creates, Records, Nexts, Loads, Gives, Checks, BacksUp, Prepares, Renames,
     Loses, Saves, GivesUp, Settles, Undoes, Stops, IsCancelled, Steady
<1>3. ASSUME NEW s \in HasStatus(db, "applied"), IsWritten(s)
      PROVE  s \in Changes(disk'[req[s].path])
  <2>1. req[s].path \in Files /\ s \in Changes(disk[req[s].path])
    BY <1>1, <1>3, AppliedAsked
  <2>2. CASE disk' = disk
    BY <2>1, <2>2
  <2>3. CASE Renames(a) /\ File(a) \in Files
    <3>1. /\ disk' = [disk EXCEPT ![File(a)] = req[Stage(a)].body] /\ pc[a] = "rename"
          /\ File(a) # NoPath
      BY <1>1, <2>3 DEF Renames, CallOK
    <3>2. disk[File(a)] = req[Stage(a)].base
      BY <1>1, <3>1 DEF WriteOK, EditOK
    <3>3. Changes(disk[File(a)]) \subseteq Changes(req[Stage(a)].body)
      BY <3>1, <3>2, ResultKeeps
    <3>4. CASE req[s].path = File(a)
      <4>1. disk'[req[s].path] = req[Stage(a)].body
        BY <1>1, <2>1, <3>1, <3>4
      <4>2. QED  BY <2>1, <3>3, <3>4, <4>1
    <3>5. CASE req[s].path # File(a)
      BY <1>1, <2>1, <3>1, <3>5
    <3>6. QED  BY <3>4, <3>5
  <2>4. CASE /\ pc[a] = "undo" /\ File(a) \in Files /\ disk' = [disk EXCEPT ![File(a)] = before[a]]
    <3>1. File(a) # NoPath
      BY <2>4, ContentFacts, ReachableFacts
    <3>2. req[s].path = File(a) => s \in Changes(before[a])
      BY <1>1, <1>3, <2>4, <3>1 DEF AppliedOK
    <3>3. QED  BY <1>1, <2>1, <2>4, <3>2
  <2>5. QED  BY <2>2, <2>3, <2>4, WriteEffectHolds DEF WriteEffect
<1>4. ASSUME NEW s \in Stages, NEW b \in Actors, Applies(b, s), IsWritten(s)
      PROVE  s \in Changes(disk'[req[s].path])
  <2>1. b = a
    BY <1>4 DEF Applies, SameCalls, SameCall
  <2>2. s = Stage(a) /\ req[s].path = File(a) /\ File(a) # NoPath /\ req[s].body # Empty
    BY <1>4, <2>1 DEF Applies, IsWritten, File
  <2>3. CASE pc[a] = "record" /\ pc'[a] = "reply"
    <3>1. Records(a)
      BY <2>3 DEF Moved, Begins, Creates, Nexts, Loads, Gives, Checks, BacksUp, Prepares, Renames,
         Loses, Saves, GivesUp, Settles, Undoes, Stops, IsCancelled
    <3>2. disk' = disk /\ job[a].kind = "tool"
      BY <1>1, <2>3, <3>1 DEF Records, writeVars, CallOK
    <3>3. QED  BY <1>1, <1>4, <2>2, <2>3, <3>2 DEF ToolOK
  <2>4. CASE pc[a] = "save" /\ pc'[a] = "settle"
    <3>1. Saves(a)
      BY <2>4 DEF Moved, Begins, Creates, Records, Nexts, Loads, Gives, Checks, BacksUp, Prepares,
         Renames, Loses, GivesUp, Settles, Undoes, Stops, IsCancelled
    <3>2. disk' = disk /\ disk[File(a)] = req[Stage(a)].body
      BY <1>1, <2>2, <2>4, <3>1 DEF Saves, writeVars, WriteOK
    <3>3. QED  BY <2>2, <2>4, <3>2, ResultKeeps
  <2>5. QED  BY <1>4, <2>1, <2>3, <2>4 DEF Applies
<1>5. ASSUME NEW s \in HasStatus(db', "applied"), IsWritten(s)'
      PROVE  s \in Changes(disk'[req'[s].path])
  <2>1. IsWritten(s) /\ s \in Stages
    BY <1>2, <1>5 DEF IsWritten, HasStatus
  <2>2. QED  BY <1>2, <1>3, <1>4, <1>5, <2>1, NewApplied
<1>6. AppliedOK(a)'
  <2>1. SUFFICES ASSUME pc'[a] \in {"save", "undo"}, File(a)' # NoPath,
                        NEW s \in HasStatus(db', "applied"), IsWritten(s)', req'[s].path = File(a)'
                 PROVE  s \in Changes(before'[a])
    BY DEF AppliedOK
  <2>2. Renames(a) \/ GivesUp(a)
    <3>1. ~(Begins(a) \/ Nexts(a) \/ Stops(a) \/ Creates(a) \/ Records(a) \/ Gives(a) \/ Undoes(a)
            \/ Loses(a) \/ BacksUp(a) \/ Prepares(a) \/ Saves(a) \/ IsCancelled(a) \/ Checks(a))
      BY <1>1, <2>1 DEF Begins, Nexts, Stops, Creates, Created, Records, Gives, Undoes, Loses, Fails,
         BacksUp, Prepares, Saves, IsCancelled, Checks
    <3>2. ~Loads(a)
      BY <2>1 DEF Loads, Steady
    <3>3. a \notin cancelled
      BY <1>1 DEF CallOK
    <3>4. ~Settles(a)
      BY <2>1, <3>3 DEF Settles, Succeeds
    <3>5. QED  BY <3>1, <3>2, <3>4 DEF Moved
  <2>3. db' = db /\ Steady(a)
    BY <2>2 DEF Renames, GivesUp
  <2>4. s \in HasStatus(db, "applied") /\ IsWritten(s) /\ req[s].path = File(a) /\ File(a) # NoPath
        /\ before'[a] = before[a]
    BY <1>2, <2>1, <2>3 DEF Steady, IsWritten
  <2>5. CASE Renames(a)
    <3>1. disk[File(a)] = before[a]
      BY <1>1, <2>5 DEF Renames, WriteOK
    <3>2. QED  BY <1>1, <2>4, <3>1
  <2>6. CASE GivesUp(a)
    BY <1>1, <2>4, <2>6 DEF GivesUp, AppliedOK
  <2>7. QED  BY <2>2, <2>5, <2>6
<1>7. QED  BY <1>5, <1>6

LEMMA AppliedStep ==
  ASSUME Reachable, AloneInv, ReqInv, WriteInv, EditInv, ToolInv, AppliedInv, CallInv', [Next]_sVars
  PROVE  AppliedInv'
<1>1. SUFFICES ASSUME Undisturbed', Without({"empty", "cancel"})'
               PROVE  /\ \A s \in HasStatus(db', "applied") :
                           IsWritten(s)' => s \in Changes(disk'[req'[s].path])
                      /\ \A a \in Actors : AppliedOK(a)'
  BY DEF AppliedInv
<1>2. /\ Undisturbed /\ Without({"empty", "cancel"})
      /\ \A s \in HasStatus(db, "applied") : IsWritten(s) => s \in Changes(disk[req[s].path])
      /\ \A a \in Actors : AppliedOK(a)
      /\ Without({"overlap"})' /\ Without({"race"})' /\ Without({"cleanup"})'
  BY <1>1, StillUndisturbed, MetGrows, ReachableFacts DEF AppliedInv, Without
<1>3. ASSUME NEW b \in Actors, pc'[b] = "idle" PROVE AppliedOK(b)'
  BY <1>3 DEF AppliedOK
<1>4. ASSUME NEW a \in Actors, ActorStep(a)
      PROVE  /\ \A s \in HasStatus(db', "applied") :
                  IsWritten(s)' => s \in Changes(disk'[req'[s].path])
             /\ \A b \in Actors : AppliedOK(b)'
  <2>1. Moved(a) /\ SameCalls(a)
    BY <1>4, ActorMoved, OthersStay, ReachableFacts DEF ActorStep
  <2>2. /\ \A s \in HasStatus(db', "applied") : IsWritten(s)' => s \in Changes(disk'[req'[s].path])
        /\ AppliedOK(a)'
    BY <1>1, <2>1, AppliedMoves
  <2>3. \A b \in Actors \ {a} : pc'[b] = "idle"
    BY <1>2, <1>4, Solo
  <2>4. QED  BY <1>3, <2>2, <2>3
<1>5. ASSUME NEW s \in HasStatus(db', "applied"), \A b \in Actors : ~Applies(b, s)
      PROVE  /\ s \in HasStatus(db, "applied") /\ req'[s] = req[s]
             /\ IsWritten(s)' = IsWritten(s) /\ (IsWritten(s) => req[s].path \in Files)
  <2>1. s \in HasStatus(db, "applied")
    BY <1>5, NewApplied
  <2>2. req'[s] = req[s] /\ (IsWritten(s) => req[s].path \in Files)
    BY <2>1, AppliedAsked
  <2>3. QED  BY <2>1, <2>2 DEF IsWritten
<1>6. CASE Tools
  <2>1. Server \in Actors /\ \A b \in Actors \ {Server} : pc[b] = "idle" /\ pc'[b] = "idle"
    BY <1>2, <1>6, Solo, ReachableFacts DEF StagingAssumptions
  <2>2. PICK s : Call(Server, "tool", <<s>>, "create")
    BY <1>6, ToolsEffect, ReachableFacts DEF ToolEffect
  <2>3. disk' = disk /\ pc[Server] = "idle" /\ pc'[Server] = "create"
    BY <2>1, <2>2, ReachableFacts DEF Call, Goto, CallTypes, writeVars
  <2>4. AppliedOK(Server)' /\ \A b \in Actors : \A t : ~Applies(b, t)
    BY <2>1, <2>3 DEF AppliedOK, Applies
  <2>5. QED  BY <1>2, <1>3, <1>5, <2>1, <2>3, <2>4
<1>7. CASE Passive
  <2>1. ASSUME NEW b \in Actors
        PROVE  /\ req' = req /\ SameCall(b)
               /\ Stage(b)' = Stage(b) /\ (pc[b] # "idle" => File(b)' = File(b))
               /\ pc[b] # "reply" => before'[b] = before[b]
    BY <1>2, <1>7, PassiveFiles
  <2>2. \A b \in Actors : \A t : ~Applies(b, t)
    BY <2>1 DEF SameCall, Applies
  <2>3. ASSUME NEW s \in HasStatus(db', "applied"), IsWritten(s)'
        PROVE  s \in Changes(disk'[req'[s].path])
    <3>1. /\ s \in HasStatus(db, "applied") /\ req'[s] = req[s] /\ IsWritten(s)
          /\ req[s].path \in Files /\ s \in Stages
      BY <1>5, <2>2, <2>3 DEF HasStatus
    <3>2. s \in Changes(disk[req[s].path])
      BY <1>2, <3>1
    <3>3. QED  BY <1>7, <3>1, <3>2, PassiveDisk
  <2>4. ASSUME NEW b \in Actors PROVE AppliedOK(b)'
    <3>1. SUFFICES ASSUME pc'[b] \in {"save", "undo"}, File(b)' # NoPath,
                          NEW s \in HasStatus(db', "applied"), IsWritten(s)', req'[s].path = File(b)'
                   PROVE  s \in Changes(before'[b])
      BY DEF AppliedOK
    <3>2. s \in HasStatus(db, "applied") /\ req'[s] = req[s] /\ IsWritten(s)
      BY <1>5, <2>2, <3>1
    <3>3. pc[b] \in {"save", "undo"} /\ File(b)' = File(b) /\ before'[b] = before[b]
      BY <2>1, <3>1 DEF SameCall
    <3>4. QED  BY <1>2, <3>1, <3>2, <3>3 DEF AppliedOK
  <2>5. QED  BY <2>3, <2>4
<1>8. QED  BY <1>4, <1>6, <1>7 DEF Next, Passive, ActorStep

-----------------------------------------------------------------------------
(* The theorems *)

\* What holds of every reachable state, those where a disturbance is too
\* much apart.
StagingHistory ==
  /\ StagingInductive
  /\ AloneInv /\ SeenInv /\ ReqInv /\ WriteInv /\ EditInv /\ ToolInv /\ AppliedInv

LEMMA InitHistory ==
  ASSUME StagingAssumptions, Init
  PROVE  StagingHistory
<1>1. PICK first \in [Files -> First] : WriteInit(Configs, first)
  BY DEF Init
<1>2. /\ job = [a \in Actors |-> NoJob] /\ pc = [a \in Actors |-> "idle"] /\ db = EmptyDb
      /\ req = [s \in Stages |-> NoRequest] /\ before = [a \in Actors |-> Unset]
      /\ made = [f \in Files |-> {}] /\ disk = first /\ bak = [f \in Files |-> Absent]
  BY <1>1 DEF Init, WriteInit
<1>3. /\ \A a \in Actors : pc[a] = "idle" /\ job[a].kind = "none"
      /\ \A s \in Stages : req[s].path = NoPath /\ req[s].body = {}
      /\ HasStatus(db, "applied") = {}
  BY <1>2 DEF NoJob, NoRequest, HasStatus, EmptyDb
<1>4. ASSUME NEW f \in Files
      PROVE  /\ disk[f] \in Contents /\ made[f] = {} /\ bak[f] = Absent
             /\ \A s \in Stages : s \notin Changes(disk[f]) /\ s \notin Changes(bak[f])
  <2>1. disk[f] \in Contents /\ (disk[f] = Empty \/ disk[f] \cap Stages = {})
    BY <1>2, StagingAssumptions DEF StagingAssumptions
  <2>2. made[f] = {} /\ bak[f] = Absent
    BY <1>2
  <2>3. QED  BY <2>1, <2>2, ContentFacts DEF Changes
<1>5. StagingInductive
  BY InitInductive
<1>6. AloneInv /\ SeenInv
  BY <1>3 DEF AloneInv, SeenInv
<1>7. ReqInv
  BY <1>3, <1>4 DEF ReqInv, Changes
<1>8. WriteInv
  BY <1>3, <1>4, ContentFacts DEF WriteInv, WriteOK
<1>9. EditInv
  BY <1>3, <1>4 DEF EditInv, EditOK
<1>10. ToolInv
  BY <1>3 DEF ToolInv, ToolOK
<1>11. AppliedInv
  BY <1>3 DEF AppliedInv, AppliedOK
<1>12. QED  BY <1>5, <1>6, <1>7, <1>8, <1>9, <1>10, <1>11 DEF StagingHistory

LEMMA StepHistory ==
  ASSUME StagingAssumptions, StagingHistory, [Next]_sVars
  PROVE  StagingHistory'
<1>1. /\ Reachable /\ AloneInv /\ SeenInv /\ ReqInv /\ WriteInv /\ EditInv /\ ToolInv /\ AppliedInv
  BY DEF StagingHistory, Reachable
<1>2. StagingInductive' /\ CallInv'
  <2>1. StagingInductive'
    BY StepInductive DEF StagingHistory
  <2>2. QED  BY <2>1 DEF StagingInductive
<1>3. AloneInv' /\ SeenInv' /\ ReqInv'
  BY <1>1, AloneStep, SeenStep, ReqStep
<1>4. WriteInv' /\ EditInv' /\ ToolInv' /\ AppliedInv'
  BY <1>1, <1>2, WriteStep, EditStep, ToolStep, AppliedStep
<1>5. QED  BY <1>2, <1>3, <1>4 DEF StagingHistory

LEMMA StagingHistoryHolds == Spec => []StagingHistory
<1>1. Init => StagingHistory
  BY InitHistory, StagingAssumptions
<1>2. StagingHistory /\ [Next]_sVars => StagingHistory'
  BY StepHistory, StagingAssumptions
<1>3. QED  BY <1>1, <1>2, PTL DEF Spec

\* With backups and the log, or when no database statement fails and no
\* context is cancelled, an apply that answers with an error has put the file
\* back: the rollback of prepareStageWrite's handle finds the backup of the
\* same write, because nobody else writes, edits or cleans up meanwhile.
THEOREM FailedApplyRestoresHolds == Spec => []FailedApplyRestores
<1>1. StagingHistory => FailedApplyRestores
  <2>1. SUFFICES ASSUME StagingHistory, NEW a \in Actors, pc[a] = "reply", reply[a] = "error",
                        job[a].kind = "apply", before[a] # Unset, CanRestore,
                        Without({"overlap", "race"})
                 PROVE  disk[File(a)] = before[a]
    BY DEF FailedApplyRestores
  <2>2. WriteOK(a)
    BY <2>1 DEF StagingHistory, WriteInv, Undisturbed
  <2>3. QED  BY <2>1, <2>2 DEF WriteOK
<1>2. QED  BY <1>1, StagingHistoryHolds, PTL

\* ValidateFileIntegrity refuses a file that has changed since the stage was
\* computed, and what a rollback puts back is what was compared: the changes
\* somebody else made stay in the file.
THEOREM EditsKeptHolds == Spec => []EditsKept
<1>1. StagingHistory => EditsKept
  <2>1. SUFFICES ASSUME StagingHistory, Without({"overlap", "race", "empty"}), CanRestore,
                        NEW f \in Files, made[f] # {}
                 PROVE  disk[f] # Absent /\ made[f] \subseteq disk[f]
    BY DEF EditsKept
  <2>2. made[f] \subseteq Changes(disk[f])
    BY <2>1 DEF StagingHistory, EditInv, Undisturbed, Without
  <2>3. QED  BY <2>1, <2>2 DEF Changes
<1>2. QED  BY <1>1, StagingHistoryHolds, PTL

\* The database never claims more than the disk: a stage ApplyStage or
\* FinalizeTransform has recorded as applied has its change in the file, and
\* no later write of another stage takes it out.
THEOREM AppliedIsWrittenHolds == Spec => []AppliedIsWritten
<1>1. StagingHistory => AppliedIsWritten
  <2>1. SUFFICES ASSUME StagingHistory, Without({"overlap", "race", "cancel", "empty"}), CanRestore,
                        NEW s \in HasStatus(db, "applied"), req[s].path # NoPath, req[s].body # Empty
                 PROVE  InFile(s)
    BY DEF AppliedIsWritten
  <2>2. IsWritten(s)
    BY <2>1 DEF IsWritten
  <2>3. s \in Changes(disk[req[s].path])
    BY <2>1, <2>2 DEF StagingHistory, AppliedInv, Undisturbed, Without
  <2>4. QED  BY <2>1, <2>3 DEF Changes, InFile
<1>2. QED  BY <1>1, StagingHistoryHolds, PTL

\* FinalizeTransform says "applied" of a stage with a file if and only if the
\* change is in the file, whichever of its steps failed.
THEOREM ResponseTrueHolds == Spec => []ResponseTrue
<1>1. StagingHistory => ResponseTrue
  <2>1. SUFFICES ASSUME StagingHistory, Without({"overlap", "race"}), NEW a \in Actors,
                        pc[a] = "reply", job[a].kind = "tool", File(a) # NoPath,
                        req[Stage(a)].body # Empty, disk[File(a)] # Absent
                 PROVE  reply[a] = "applied" <=> InFile(Stage(a))
    BY DEF ResponseTrue
  <2>2. ToolOK(a) /\ IsWritten(Stage(a))
    BY <2>1 DEF StagingHistory, ToolInv, IsWritten, File
  <2>3. Stage(a) \in Changes(disk[File(a)]) <=> InFile(Stage(a))
    BY <2>1 DEF Changes, InFile, File
  <2>4. QED  BY <2>1, <2>2, <2>3 DEF ToolOK
<1>2. QED  BY <1>1, StagingHistoryHolds, PTL
=============================================================================
