------------------------------- MODULE Staging -------------------------------
(***************************************************************************)
(* Staging of mcp/staging.go and mcp/transform_finalize.go, with the tools *)
(* that lead to it: the code tools of the server, its apply tool, and the  *)
(* apply command, a process of its own on the same database.               *)
(*                                                                         *)
(* A content is the set of the changes it has, those of stages and those   *)
(* somebody made from outside: two contents have the same digest when they *)
(* are equal.  A database transaction sees the database as it was   *)
(* when the transaction began and commits only if nothing has committed    *)
(* since (SQLite, external); a file write inside it is not part of it.     *)
(***************************************************************************)
EXTENDS WriteLog, Sequences, FiniteSets

CONSTANTS
  Server,      \* the actor that is the server; the others run the command
  Stages,
  NoPath,      \* instead of a file: a stage made from a source
  Outside,     \* the changes somebody else makes, by hand
  Empty,       \* the content of length zero
  First,       \* what files hold at first
  Unset,       \* no content
  Configs,     \* the values of SafetyConfig to look at
  MaxStages, MaxApplies,  \* the limits of a session
  MaxCalls,    \* bound: calls in progress at a time
  MaxMet,      \* bound: kinds of disturbance in one behaviour
  StagingFaults

StagingFaultKinds ==
  {"db",      \* a database statement, or a commit, fails
   "write",   \* the backup or the temporary file cannot be written
   "rename",  \* the rename fails
   "restore", \* the rollback of a write fails
   "cancel",  \* the context of a call is cancelled
   "crash"}   \* a process dies, and is started again

\* What else can disturb a call: another call at the same time; an edit
\* during its write; the delayed cleanup of an earlier write during it; the
\* digest of an empty source, which is not compared; the expiry of a stage.
Disturbances == StagingFaultKinds \union {"overlap", "race", "cleanup", "empty", "late"}

ASSUME StagingAssumptions ==
  /\ Server \in Actors
  /\ NoPath \notin Files
  /\ Contents = {Empty} \union SUBSET (Stages \union Outside)
  /\ Stages \cap Outside = {} /\ \A c \in SUBSET (Stages \union Outside) : c # Empty
  /\ First \subseteq Contents /\ \A c \in First : c = Empty \/ c \cap Stages = {}
  /\ {Absent, Unset} \cap Contents = {}
  /\ Configs \subseteq SafetyConfigs
  /\ {MaxStages, MaxApplies, MaxCalls, MaxMet} \subseteq Nat
  /\ StagingFaults \subseteq StagingFaultKinds

VARIABLES
  req,      \* req[s]: the request s comes from, and its row
  db,       \* the database: status[s], and the stages in order of creation
  late,     \* the stages whose expiry time has passed
  pc,
  job,      \* job[a]: what a is called for
  seen,     \* seen[a]: the database when a's transaction began
  cancelled,\* the calls whose context is cancelled
  reply,    \* reply[a]: the result of a's call
  before,   \* history: before[a]: the file when a's call began to write it
  made,     \* history: made[f]: the changes somebody else has made to f
  met       \* history: the disturbances so far

dbVars   == <<req, db, late>>
callVars == <<pc, job, seen, cancelled, reply>>
history  == <<before, made>>
sVars    == <<writeVars, dbVars, callVars, history, met>>

Statuses == {"none", "pending", "applied", "expired"}

\* Confidence: above the auto-apply threshold, between it and the threshold of
\* the safety manager, below both; or above both, and the result too large.
Confidences == {"auto", "review", "low", "large"}

PCs == {"idle", "create", "check", "backup", "temp", "rename", "record",
        "load", "save", "settle", "undo", "next", "reply"}

NoJob == [kind |-> "none", todo |-> <<>>, staged |-> FALSE, done |-> {}]

TypeOK ==
  /\ WriteTypeOK
  /\ req \in [Stages -> [path: Files \union {NoPath}, base: Contents, body: Contents,
                      conf: Confidences]]
  /\ db.status \in [Stages -> Statuses]
  /\ db.rows \in Seq(Stages)
  /\ late \subseteq Stages
  /\ pc \in [Actors -> PCs]
  /\ \A a \in Actors : /\ job[a].kind \in {"none", "tool", "apply", "applyAll"}
                       /\ job[a].todo \in Seq(Stages)
                       /\ job[a].done \subseteq Stages
  /\ cancelled \subseteq Actors
  /\ reply \in [Actors -> {"none", "completed", "staged", "applied", "error"}]
  /\ before \in [Actors -> Contents \union {Absent, Unset}]
  /\ made \in [Files -> SUBSET Outside]
  /\ met \subseteq Disturbances

NoRequest == [path |-> NoPath, base |-> {}, body |-> {}, conf |-> "review"]
EmptyDb   == [status |-> [s \in Stages |-> "none"], rows |-> <<>>]

Init ==
  /\ \E first \in [Files -> First] : WriteInit(Configs, first)
  /\ req = [s \in Stages |-> NoRequest]
  /\ db = EmptyDb
  /\ late = {}
  /\ pc = [a \in Actors |-> "idle"]
  /\ job = [a \in Actors |-> NoJob]
  /\ seen = [a \in Actors |-> db]
  /\ cancelled = {}
  /\ reply = [a \in Actors |-> "none"]
  /\ before = [a \in Actors |-> Unset]
  /\ made = [f \in Files |-> {}]
  /\ met = {}

-----------------------------------------------------------------------------

Goto(a, label) == pc' = [pc EXCEPT ![a] = label]
Stage(a) == Head(job[a].todo)
File(a) == req[Stage(a)].path

\* Something disturbs the calls, within the bound; or a fault happens.
Meet(kinds) == met' = met \union kinds /\ Cardinality(met') <= MaxMet
Fault(kind) == kind \in StagingFaults /\ Meet({kind})
Calm == UNCHANGED met

\* A content with one more change.
With(c, change) == IF c \in {Empty, Absent} THEN {change} ELSE c \union {change}

Reply(a, result) ==
  /\ reply' = [reply EXCEPT ![a] = result]
  /\ Goto(a, "reply")

HasStatus(d, status) == {s \in Stages : d.status[s] = status}
SetStage(d, s, status) == [d EXCEPT !.status[s] = status]

\* The last created first: NewestFirst says so of a list of stages.
NewestFirst(todo) ==
  \A i, j \in DOMAIN todo : i < j =>
    \E k, l \in DOMAIN db.rows : l < k /\ db.rows[k] = todo[i] /\ db.rows[l] = todo[j]

\* ListPendingStages, fetchPendingStageIDs: the pending stages, in the order
\* of NewestFirst; there is one such list.
ListPendingStages ==
  LET pending == HasStatus(db, "pending")
  IN  {todo \in [1 .. Cardinality(pending) -> pending] : NewestFirst(todo)}

\* A call begins: nothing of it is decided yet.
Call(a, kind, todo, label) ==
  /\ pc[a] = "idle"
  /\ Cardinality({b \in Actors : pc[b] # "idle"}) < MaxCalls
  /\ job' = [job EXCEPT ![a] = [NoJob EXCEPT !.kind = kind, !.todo = todo]]
  /\ cancelled' = cancelled \ {a}
  /\ reply' = [reply EXCEPT ![a] = "none"]
  /\ Goto(a, label)
  /\ before' = [before EXCEPT ![a] = Unset]
  /\ UNCHANGED <<writeVars, db, late, seen, made>>

\* Calls are disturbed by the calls they overlap with.
Overlap == {"overlap" : b \in {b \in Actors : pc[b] # "idle"}}

-----------------------------------------------------------------------------
(* The code tools, up to FinalizeTransform *)

\* The stage of a request: the source its digest is of, the result, and the
\* confidence in it.
BuildStage(path, source, body, conf) ==
  [path |-> path, base |-> source, body |-> body, conf |-> conf]

\* The source is a parameter or read from a file, and transformed.  A result
\* may be empty only when the operation can remove text.
CodeTool(s, canEmpty) == \E path \in Files \union {NoPath} :
  LET source == IF path = NoPath THEN {} ELSE disk[path]
  IN  /\ req[s] = NoRequest
      /\ source # Absent
      /\ Call(Server, "tool", <<s>>, "create")
      /\ \E conf \in Confidences,
            body \in {With(source, s)} \union {Empty : x \in {TRUE} \cap {canEmpty}} :
           req' = [req EXCEPT ![s] = BuildStage(path, source, body, conf)]
      /\ Meet(Overlap \union {"empty" : x \in {Empty} \cap {source}})

ReplaceTool(s)      == CodeTool(s, TRUE)
DeleteTool(s)       == CodeTool(s, TRUE)
InsertBeforeTool(s) == CodeTool(s, FALSE)
InsertAfterTool(s)  == CodeTool(s, FALSE)
AppendTool(s)       == CodeTool(s, FALSE)

-----------------------------------------------------------------------------
(* FinalizeTransform *)

ShouldAutoApply(s) == req[s].conf \in {"auto", "large"}

Room == Cardinality(HasStatus(db, "pending")) < MaxStages

Insert(s) == db' = [SetStage(db, s, "pending") EXCEPT !.rows = Append(@, s)]

\* Where FinalizeTransform goes with a stage or without: to the write, to
\* the record of a change without a file, or to the response.  Without
\* content writeFileDirect has nothing to do and returns no error.
AfterCreate(a, staged) ==
  LET s == Stage(a)
      writes == req[s].path # NoPath /\ ShouldAutoApply(s)
  IN  /\ job' = [job EXCEPT ![a].staged = staged]
      /\ IF writes /\ req[s].body # Empty
         THEN Goto(a, "check") /\ UNCHANGED reply
         ELSE IF staged /\ ShouldAutoApply(s)
         THEN Goto(a, "record") /\ UNCHANGED reply
         ELSE Reply(a, IF staged THEN "staged" ELSE IF writes THEN "applied" ELSE "completed")
      /\ UNCHANGED <<writeVars, req, late, seen, cancelled, history>>

CreateStage(a) ==
  /\ pc[a] = "create"
  /\ a \notin cancelled
  /\ Room
  /\ Insert(Stage(a))
  /\ AfterCreate(a, TRUE)
  /\ Calm

\* The limit, a database error, or a cancelled context: in the last case the
\* row may be there all the same.
CreateStageFails(a) ==
  /\ pc[a] = "create"
  /\ \/ (~Room \/ a \in cancelled) /\ UNCHANGED db /\ Calm
     \/ Fault("db") /\ UNCHANGED db
     \/ a \in cancelled /\ Room /\ Insert(Stage(a)) /\ Calm
  /\ AfterCreate(a, FALSE)

\* The checks of ApplyStage inside its transaction.
Applicable(s) ==
  /\ db.status[s] = "pending"
  /\ s \notin late
  /\ Cardinality(HasStatus(db, "applied")) < MaxApplies

\* ApplyStage with autoApplied: database statements only.
RecordApply(a) ==
  /\ pc[a] = "record"
  /\ a \notin cancelled
  /\ Applicable(Stage(a))
  /\ db' = SetStage(db, Stage(a), "applied")
  /\ Reply(a, "applied")
  /\ Calm
  /\ UNCHANGED <<writeVars, req, late, job, seen, cancelled, history>>

\* Mutant: the error is reported, as without a file.
RecordFailsStaged(a) ==
  /\ pc[a] = "record"
  /\ \/ (~Applicable(Stage(a)) \/ a \in cancelled) /\ Calm
     \/ Fault("db")
  /\ Reply(a, "staged")
  /\ UNCHANGED <<writeVars, dbVars, job, seen, cancelled, history>>

\* With a file the error is only logged.
RecordFails(a) ==
  /\ pc[a] = "record"
  /\ \/ (~Applicable(Stage(a)) \/ a \in cancelled) /\ Calm
     \/ Fault("db")
  /\ Reply(a, IF File(a) = NoPath THEN "staged" ELSE "applied")
  /\ UNCHANGED <<writeVars, dbVars, job, seen, cancelled, history>>

-----------------------------------------------------------------------------
(* The apply tool and the apply command *)

\* One stage by its id, or the latest.
ApplyOne(a, s) ==
  /\ \/ a # Server /\ db.status[s] # "none"
     \/ db.status[s] = "pending"
  /\ Call(a, "apply", <<s>>, "load")
  /\ Meet(Overlap)
  /\ UNCHANGED req

ApplyAll(a) ==
  /\ HasStatus(db, "pending") # {}
  /\ \E todo \in ListPendingStages : Call(a, "applyAll", todo, "load")
  /\ Meet(Overlap)
  /\ UNCHANGED req

\* The apply of one stage ends.
StageEnds(a, ok) ==
  /\ job' = [job EXCEPT ![a].done = IF ok THEN @ \union {Stage(a)} ELSE @]
  /\ IF job[a].kind = "applyAll" /\ Len(job[a].todo) > 1 /\ (ok \/ a = Server)
     THEN Goto(a, "next") /\ UNCHANGED reply
     ELSE Reply(a, IF ok \/ (a = Server /\ job[a].kind = "applyAll")
                   THEN "applied" ELSE "error")
  /\ UNCHANGED <<seen, cancelled>>

NextStage(a) ==
  /\ pc[a] = "next"
  /\ IF a \in cancelled
     THEN Reply(a, "error") /\ UNCHANGED job
     ELSE /\ job' = [job EXCEPT ![a].todo = Tail(@)]
          /\ Goto(a, "load") /\ UNCHANGED reply
  /\ Calm
  /\ UNCHANGED <<writeVars, dbVars, seen, cancelled, history>>

LoadStage(a) ==
  LET s == Stage(a)
  IN  /\ pc[a] = "load"
      /\ a \notin cancelled
      /\ Applicable(s)
      /\ req[s].path # NoPath => req[s].body # Empty
      /\ seen' = [seen EXCEPT ![a] = db]
      /\ Goto(a, IF req[s].path = NoPath THEN "save" ELSE "check")
      /\ Calm
      /\ UNCHANGED <<writeVars, dbVars, job, cancelled, reply, history>>

\* The stage is not applied.  The status "expired" is saved in the
\* transaction that this error rolls back.
LoadFails(a) ==
  LET s == Stage(a)
  IN  /\ pc[a] = "load"
      /\ \/ /\ \/ a \in cancelled
               \/ ~Applicable(s)
               \/ req[s].path # NoPath /\ req[s].body = Empty
            /\ Calm
         \/ Fault("db")
      /\ StageEnds(a, FALSE)
      /\ UNCHANGED <<writeVars, dbVars, history>>

\* CleanupExpiredStages; no part of the program calls it.
CleanupExpiredStages ==
  /\ \E s \in late : db.status[s] = "pending"
  /\ db' = [db EXCEPT !.status = [s \in Stages |->
              IF s \in late /\ db.status[s] = "pending" THEN "expired" ELSE db.status[s]]]
  /\ Meet(Overlap)
  /\ UNCHANGED <<writeVars, req, late, callVars, history>>

-----------------------------------------------------------------------------
(* The file: writeFileDirect and prepareStageWrite *)

\* The write has failed, and left nothing to roll back.
WriteFailed(a) ==
  IF job[a].kind = "tool"
  THEN /\ Reply(a, IF job[a].staged THEN "staged" ELSE "completed")
       /\ UNCHANGED <<job, seen, cancelled>>
  ELSE StageEnds(a, FALSE)

ValidateOperation(s) == req[s].conf \notin {"low", "large"}

\* ValidateFileIntegrity; a source of length zero has no digest to compare.
Unchanged(a) == req[Stage(a)].base = Empty \/ disk[File(a)] = req[Stage(a)].base

\* Mutant: ValidateFileIntegrity is not called.
CheckConfidence(a) ==
  /\ pc[a] = "check"
  /\ IF ValidateOperation(Stage(a))
     THEN /\ Goto(a, "backup")
          /\ before' = [before EXCEPT ![a] = disk[File(a)]]
          /\ UNCHANGED <<job, seen, cancelled, reply>>
     ELSE WriteFailed(a) /\ UNCHANGED before
  /\ Calm
  /\ UNCHANGED <<writeVars, dbVars, made>>

Check(a) ==
  /\ pc[a] = "check"
  /\ IF ValidateOperation(Stage(a)) /\ Unchanged(a)
     THEN /\ Goto(a, "backup")
          /\ before' = [before EXCEPT ![a] = disk[File(a)]]
          /\ UNCHANGED <<job, seen, cancelled, reply>>
     ELSE WriteFailed(a) /\ UNCHANGED before
  /\ Calm
  /\ UNCHANGED <<writeVars, dbVars, made>>

Backup(a) ==
  /\ pc[a] = "backup"
  /\ BackupPath(File(a))
  /\ Goto(a, "temp")
  /\ Calm
  /\ UNCHANGED <<safety, disk, temp, txs, handle, dbVars, job, seen, cancelled, reply,
                 history>>

Temp(a) ==
  /\ pc[a] = "temp"
  /\ WriteTemp(a, req[Stage(a)].body)
  /\ Goto(a, "rename")
  /\ Calm
  /\ UNCHANGED <<safety, disk, bak, txs, handle, dbVars, job, seen, cancelled, reply,
                 history>>

\* Mutant: the error of the write is not looked at.
TempFailsIgnored(a) ==
  /\ pc[a] = "temp" /\ job[a].kind # "tool"
  /\ Fault("write")
  /\ Goto(a, "save")
  /\ UNCHANGED <<writeVars, dbVars, job, seen, cancelled, reply, history>>

TempFails(a) ==
  /\ pc[a] \in {"backup", "temp"}
  /\ Fault("write")
  /\ IF pc[a] = "temp" THEN CleanupFailedWrite(a, File(a)) ELSE UNCHANGED <<temp, bak>>
  /\ WriteFailed(a)
  /\ UNCHANGED <<safety, disk, txs, handle, dbVars, history>>

\* In FinalizeTransform the handle is committed at once.
Rename(a) ==
  LET tool == job[a].kind = "tool"
  IN  /\ pc[a] = "rename"
      /\ RenameOver(a, File(a), IF tool THEN "completed" ELSE "pending")
      /\ Calm
      /\ IF ~tool THEN Goto(a, "save") /\ UNCHANGED reply
         ELSE IF job[a].staged THEN Goto(a, "record") /\ UNCHANGED reply
         ELSE Reply(a, "applied")
      /\ UNCHANGED <<safety, dbVars, job, seen, cancelled, history>>

RenameError(a) ==
  /\ pc[a] = "rename"
  /\ Fault("rename")
  /\ RenameFails(a, File(a))
  /\ WriteFailed(a)
  /\ UNCHANGED <<safety, dbVars, history>>

-----------------------------------------------------------------------------
(* The end of ApplyStage *)

SaveApply(a) ==
  /\ pc[a] = "save"
  /\ a \notin cancelled
  /\ db = seen[a]
  /\ db' = SetStage(db, Stage(a), "applied")
  /\ Goto(a, "settle")
  /\ Calm
  /\ UNCHANGED <<writeVars, req, late, job, seen, cancelled, reply, history>>

SaveFails(a) ==
  /\ pc[a] = "save"
  /\ \/ (a \in cancelled \/ db # seen[a]) /\ Calm
     \/ Fault("db")
  /\ Goto(a, "undo")
  /\ UNCHANGED <<writeVars, dbVars, job, seen, cancelled, reply, history>>

\* Mutant: the write is not committed.
SettleOpen(a) ==
  /\ pc[a] = "settle"
  /\ IF a \in cancelled
     THEN Goto(a, "undo") /\ UNCHANGED <<disk, bak, temp, txs, handle, job, seen, cancelled, reply>>
     ELSE StageEnds(a, TRUE) /\ UNCHANGED <<disk, bak, temp, txs, handle>>
  /\ Calm
  /\ UNCHANGED <<safety, dbVars, history>>

\* The context is looked at once more, after the commit.
Settle(a) ==
  /\ pc[a] = "settle"
  /\ IF a \in cancelled
     THEN Goto(a, "undo") /\ UNCHANGED <<disk, bak, temp, txs, handle, job, seen, cancelled, reply>>
     ELSE StageEnds(a, TRUE) /\ CommitHandle(a, File(a))
  /\ Calm
  /\ UNCHANGED <<safety, dbVars, history>>

\* Mutant: the error is returned without a rollback.
UndoNothing(a) ==
  /\ pc[a] = "undo"
  /\ StageEnds(a, FALSE)
  /\ Calm
  /\ UNCHANGED <<writeVars, dbVars, history>>

Undo(a) ==
  /\ pc[a] = "undo"
  /\ \/ RollbackHandle(a, File(a)) /\ Calm
     \/ RollbackFails(a) /\ Fault("restore")
  /\ StageEnds(a, FALSE)
  /\ UNCHANGED <<safety, dbVars, history>>

-----------------------------------------------------------------------------
(* The environment *)

Forget(a) ==
  /\ pc' = [pc EXCEPT ![a] = "idle"]
  /\ job' = [job EXCEPT ![a] = NoJob]
  /\ seen' = [seen EXCEPT ![a] = EmptyDb]
  /\ reply' = [reply EXCEPT ![a] = "none"]
  /\ before' = [before EXCEPT ![a] = Unset]
  /\ cancelled' = cancelled \ {a}

Return(a) ==
  /\ pc[a] = "reply"
  /\ Forget(a)
  /\ Calm
  /\ UNCHANGED <<writeVars, dbVars, made>>

\* Whoever called the StagingManager gives up.  The command never does; nor
\* does the client of the server, which reads no cancellation while it handles
\* a request.
Cancel(a) ==
  /\ Fault("cancel") /\ a = Server
  /\ pc[a] \notin {"idle", "reply"} /\ a \notin cancelled
  /\ cancelled' = cancelled \union {a}
  /\ UNCHANGED <<writeVars, dbVars, pc, job, seen, reply, history>>

Expire(s) ==
  /\ db.status[s] = "pending" /\ s \notin late
  /\ late' = late \union {s}
  /\ Meet({"late"})
  /\ UNCHANGED <<writeVars, req, db, callVars, history>>

\* A call is between its comparison of the digests and its end.
Writing(f) == \E a \in Actors :
  pc[a] \in {"backup", "temp", "rename", "save", "settle", "undo"} /\ File(a) = f

\* Somebody else changes the file.
Edit(f) ==
  \E e \in Outside :
    /\ \A g \in Files : e \notin made[g]
    /\ disk[f] # Absent
    /\ disk' = [disk EXCEPT ![f] = With(disk[f], e)]
    /\ made' = [made EXCEPT ![f] = @ \union {e}]
    /\ Meet({"race" : x \in {TRUE} \cap {Writing(f)}})
    /\ before' = [a \in Actors |-> IF pc[a] = "reply" THEN Unset ELSE before[a]]
    /\ UNCHANGED <<safety, bak, temp, txs, handle, dbVars, callVars>>

\* An open transaction of the database is gone; files stay as they are.
Crash(a) ==
  /\ Fault("crash")
  /\ pc[a] # "idle"
  /\ LogDies(a)
  /\ temp' = [temp EXCEPT ![a] = Absent]
  /\ Forget(a)
  /\ UNCHANGED <<safety, dbVars, made>>

Cleanup(tx) ==
  /\ CleanupTransaction(tx)
  /\ Meet({"cleanup" : x \in {TRUE} \cap {Writing(tx.file)}})
  /\ UNCHANGED <<dbVars, callVars, history>>

Tools ==
  \E s \in Stages : \/ ReplaceTool(s) \/ DeleteTool(s) \/ AppendTool(s)
                    \/ InsertBeforeTool(s) \/ InsertAfterTool(s)

Finalize(a) ==
  CreateStage(a) \/ CreateStageFails(a) \/ RecordApply(a) \/ RecordFails(a)

Apply(a) ==
  \/ \E s \in Stages : ApplyOne(a, s)
  \/ ApplyAll(a) \/ NextStage(a) \/ LoadStage(a) \/ LoadFails(a)
  \/ SaveApply(a) \/ SaveFails(a) \/ Settle(a) \/ Undo(a)

WriteFile(a) ==
  Check(a) \/ Backup(a) \/ Temp(a) \/ TempFails(a) \/ Rename(a) \/ RenameError(a)

Environment(a) == Return(a) \/ Cancel(a) \/ Crash(a)

Next ==
  \/ Tools
  \/ \E a \in Actors : Finalize(a) \/ Apply(a) \/ WriteFile(a) \/ Environment(a)
  \/ \E s \in Stages : Expire(s)
  \/ CleanupExpiredStages
  \/ \E f \in Files : Edit(f)
  \/ \E tx \in txs : Cleanup(tx)

Spec == Init /\ [][Next]_sVars

-----------------------------------------------------------------------------
(* Properties *)

\* None of these has happened.
Without(kinds) == met \cap kinds = {}

\* A rollback can put the file back, or is not needed.
CanRestore ==
  /\ Without({"rename", "restore", "cleanup"})
  /\ (safety.backups /\ safety.log) \/ Without({"db", "cancel"})

InFile(s) ==
  /\ req[s].path # NoPath
  /\ disk[req[s].path] \notin {Absent, Empty}
  /\ s \in disk[req[s].path]

\* The database never claims more than the disk: the change of an applied
\* stage is in its file, whatever crashed, failed or was edited since, as
\* long as failed writes can be rolled back, calls do not overlap, and no
\* context is cancelled after the commit.
AppliedIsWritten ==
  Without({"overlap", "race", "cancel", "empty"}) /\ CanRestore =>
    \A s \in HasStatus(db, "applied") :
      req[s].path # NoPath /\ req[s].body # Empty => InFile(s)

\* A stage is written again by nobody: the apply limit of a session holds
\* for the tool, the command and the auto-apply together, however their
\* transactions interleave.
ApplyLimit == Cardinality(HasStatus(db, "applied")) <= MaxApplies

\* A change somebody else made since the stage was computed is not lost to
\* the apply of the stage: ValidateFileIntegrity refuses it.  (It is lost
\* when it comes between the comparison and the rename, or when the source
\* was empty.)
EditsKept ==
  Without({"overlap", "race", "empty"}) /\ CanRestore =>
    \A f \in Files : made[f] # {} => disk[f] # Absent /\ made[f] \subseteq disk[f]

\* With backups and the log, an apply that answers with an error, a
\* cancelled one too, leaves the file as it found it.
FailedApplyRestores ==
  \A a \in Actors :
    pc[a] = "reply" /\ reply[a] = "error" /\ job[a].kind = "apply" /\ before[a] # Unset
      => (safety.backups /\ safety.log /\ CanRestore /\ Without({"overlap", "race"})
            => disk[File(a)] = before[a])

\* The response of a code tool tells what became of the file: the change is
\* in it if and only if the response says "applied".  (Not if the result is
\* empty: it is never written, and said to be applied.)
ResponseTrue ==
  Without({"overlap", "race"}) =>
    \A a \in Actors :
      pc[a] = "reply" /\ job[a].kind = "tool" /\ File(a) # NoPath
        /\ req[Stage(a)].body # Empty /\ disk[File(a)] # Absent
      => (reply[a] = "applied" <=> InFile(Stage(a)))

\* A call that returned has left no transaction pending, which RollbackAll
\* would later undo, and no temporary file.
NothingLeftOpen ==
  \A a \in Actors : pc[a] = "idle" =>
    /\ temp[a] = Absent
    /\ Without({"restore"}) =>
         \A tx \in txs : tx.by = a => tx.status # "pending"

\* Within the limits, and with nothing left behind.
StagingInv == TypeOK /\ ApplyLimit /\ NothingLeftOpen

\* "Rollback reverts the write using the recorded backup"
\* (mcp/safety.go:233): an apply that failed, alone, leaves its file.
RollbackReverts ==
  \A a \in Actors :
    pc[a] = "reply" /\ reply[a] = "error" /\ before[a] # Unset => disk[File(a)] = before[a]
=============================================================================
