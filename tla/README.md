# Formal models of morfx

morfx finds and rewrites code by syntax tree, for AI agents, as a command-line
tool and as an MCP server. This directory holds TLA+ modules that model its
core, the TLC runs that check them and the theorems TLAPS proves about them.
Every definition follows the Go source; `PROJECT.json` maps each one to its lines.

## 1. The system

| component | state | operations | who calls it |
|---|---|---|---|
| transaction manager, `core/transaction.go` | current transaction in memory, a JSON log and backup files per transaction on disk | begin, add and complete an operation, commit, roll back, load, list pending, clean up | file transform |
| file transform, `core/fileprocessor.go` | per call: options, results, a goroutine per file behind a semaphore | `TransformFiles`, `QueryFiles` | recipes, tools, CLI |
| atomic writer, `core/atomicwriter.go` | a map of in-process locks; per path a `.lock` file and a `.morfx.tmp` file | `WriteFile`, `Cleanup` | file transform, manager (restores) |
| file walker, `core/filewalker.go` | channels, a worker pool | `Walk` | file transform |
| recipes, `core/recipe.go` | none between calls | `ExecuteRecipe`: preflight and apply, step by step | CLI, MCP tool |
| query language, `core/dsl.go` | none | `ParseDSL` | tools |
| safety manager and write log, `mcp/safety.go`, `mcp/transaction_log.go` | lock map and lock files, an in-memory log of writes with backups | `AtomicWrite`, handle `Commit`/`Rollback`, `LockFile`, `ReleaseLock`, `RollbackAll` | staging, tools |
| staging, `mcp/staging.go`, `mcp/transform_finalize.go` | stages and applies in a database, files | create, list, apply, expire a stage | tools, CLI |
| asynchronous staging, `mcp/async_staging.go` | request and result channels, workers, a collector | `CreateStageAsync`, `Close` | tools |
| MCP server, `mcp/server.go` and its handlers | pending calls to the client, cancellations, subscriptions, session | one read loop; calls to the client; notifications | the client |
| session, registries, paging, `mcp/session_state.go`, `mcp/registry.go`, `mcp/pagination.go` | capabilities, log level, tool/prompt/resource tables | get, set, page | server |
| syntax-tree cache, `providers/base/cache.go` | entries with a tree and a time | `GetOrParse`, periodic prune | providers |
| providers, `providers/base/provider.go` | none | query; select targets, splice text, score confidence | file transform, tools |

How they interact: `TransformFiles` calls the walker, then starts one goroutine
per file; each calls a provider for the new text, the manager to register the
operation (under `tm.mu`), the atomic writer, and the manager again. The manager
restores files through the same writer. Recipes call `TransformFiles` once or
twice per step. The MCP side has its own writer (the safety manager) and its own
log, and connects them to database rows (stages).

What is hard, and what makes each component correct:

- **Manager and transform.** Goroutines interleave their operations on one log;
  any of them may fail late; the process may die anywhere. Correct: the files are
  all changed or all as before; nothing is changed before its log entry and backup
  are on disk; a recorded outcome is final.
- **Atomic writer.** Two kinds of lock, one of them a file other processes see;
  stale locks are stolen; the in-process lock is reference counted under two
  mutexes. Correct: one writer at a time, whole contents only, nothing left
  behind, nobody waits forever.
- **Walker and query pipeline.** Producers and consumers that stop early on
  cancellation, over links that make cycles. Correct: every matching file; a name
  once, if the scope's path is absolute; all goroutines end.
- **Recipes.** A step applied before the next one is looked at; a file that fails
  is no error of the step. Correct: a step that was tried is not applied below its
  minimum score (the documents say none is; see the disagreements).
- **Safety manager and write log.** Failure and rollback remove backups and
  targets. Correct: a failed or rolled-back write leaves the old file (it
  does with backups; see the disagreements).
- **Staging.** A file and a database row change in separate steps; cancellation
  and crashes fall between them. Correct: a stage is applied at most once and
  says so exactly when its file was written.
- **Asynchronous staging.** Cancellation of workers with requests in the queue;
  channels closed while somebody sends. Correct: every request has one owner and one answer.
- **Server.** One goroutine reads and handles. Correct: every call to the client
  ends once; every request is answered; pages cover a list once.
- **Cache.** Trees are closed by one goroutine and copied by another. Correct: no
  tree is closed twice or used after it was closed.
- **Providers, query language.** Pure functions. Correct: a selector finds what
  its grammar means; splicing equals simultaneous replacement for disjoint targets.

`PROJECT.json` lists the hazards with their lines and the properties that would
catch them.

## 2. The modules

```
TransactionManager         methods of the manager, as actions
  TransactionClient        driven by any disciplined caller      MCTransactionClient
  TransformFiles           driven by the one caller it has       MCTransformFiles
    AtomicBatch            what a transform promises (abstract)
    TransformFilesInv      the inductive invariants
AtomicWriter               WriteFile on one path                 MCAtomicWriter
WriteLog                   the safety manager's writes and log
  Staging                  stages, tools and the apply command   MCStaging
AsyncStaging               the channels in front of staging      MCAsyncStaging
Server                     the stdio server                      MCServer
CodeQuery                  selectors, targets, edits, scores
  EditCommand              the commands and recipes over one file MCEditCommand
SyntaxCache                the cache of syntax trees
  FileQuery                walker, query pipeline and cache      MCFileQuery

TransactionManagerProofs   lemmas about the manager's methods
  TransactionClientProofs, TransformFilesProofs
AtomicWriterProofs, StagingProofs
ServerProofs               Server and AsyncStaging
QueryProofs                FileQuery with its cache
EditProofs                 EditCommand with CodeQuery
```

**TransactionManager.** `tx` is `tm.currentTx`, `logs[t]` the file `<id>.json`,
`backups[t][i]` the backup of operation *i*, `disk` the files. Every method holds
`tm.mu` throughout, so it is two steps: its effect on memory, backups and files,
and the rewrite of the log that ends it (`EndCall`); `call` says which method is
between the two. The rewrite is an `os.WriteFile`, so a failure or a crash in it
may leave the old log or one that does not parse (`Torn`). The loop of
`RollbackTransaction` is one step per operation, last to first.
`CleanupOldTransactions` does not take the mutex and is enabled at any time; which
transactions are old enough is left open, so it may take any finished ones.

**TransactionClient** adds a caller: it touches a file only between a successful
`AddOperation` and `CompleteOperation`, and commits or rolls back when nothing is
under way. It has the operations (create, delete), the repeated files and the
several transactions `TransformFiles` never uses.

**TransformFiles.** `main` is the place of the calling goroutine, `pc[f]` that of
the goroutine of file *f*; a step is one call or one system call. What a provider
computes is abstracted to its outcome (an error, no change, a new content), a walk
to the set of files it found and whether it had errors, and the atomic writer to
the outcomes it has when nobody else holds the lock of the path: unchanged and an
error; changed; changed and an error (the deferred release of the lock failed).
`AtomicBatch` is the promise: at one instant all intended contents appear, or
none; a call that ends with an error, or dies, may leave each file old or new. The
mapping shows the files to the abstract batch only when the call is over.

**AtomicWriter.** Goroutines of several processes write one path. `entry` is
`aw.locks[path]`, `locks` the `FileLock` objects, `lockFile` the file
`<path>.lock` with its creator and whether it holds a process id yet; `tmp` and
`target` are names of inodes, so that a rename moves an inode other goroutines may
have open. A section under `lock.mu` is one step, except that `refCnt` is loaded
and stored in two steps: `acquireLock` increments it under `aw.mu` (line 135),
`releaseLock` decrements it under `lock.mu` (215), which is a data race.
`RaceFree` restricts an instance to the executions in which the two do not
overlap; `MaxInside` bounds the goroutines inside `WriteFile` at a time, and `Overlap` says
whether goroutines meet when two processes take part.

**WriteLog and Staging.** `disk`, `bak` and `temp` are a path, its backup (one name
per path, whoever makes it) and the temporary file of each process; `txs` is the
in-memory transaction log, `handle` who may still commit or roll back. Every file
operation of `AtomicWrite` is a step of its own. In `Staging`, `pc[a]` is where the
server or the apply command is: `create` and `record` are the two ends of
`FinalizeTransform`, `load`, `check`, `backup`, `temp`, `rename`, `save`, `settle`
and `undo` the statements of `ApplyStage` in their order, `next` the loop over all
stages. `db` is the database; a transaction works on the copy `seen[a]` and
commits only if `db` has not changed (SQLite, external). A content is the set of
changes made to the file, so that a lost edit or an undone stage shows. `met`
records which disturbances (faults, overlapping calls, outside edits, expiry) a
behaviour has had: each property names the ones it does not survive.

**AsyncStaging.** `queue` and `results` are the bounded channels, `caller[r]` and
`worker[w]` the goroutines, `closing` the place of `Close`. The two statements of
`CreateStage`, count and insert, are two steps, on a worker or in the fallback, and
either may fail. A send on a closed channel sets `panicked` and stops everything.

**Server.** `pc` and `cur` are the reading goroutine and its request, `wire` the
messages sent and `held` how many of them the decoder has read ahead; a client sends
one of `Scripts`. `calls[c]` is the goroutine of request `srv-c` to the client,
`chan[c]` its result channel, `pending` the map under `pendingMu`; `forward[i]` and
`subs` the forwarders and entries of resource subscriptions (an unsubscription takes
entries out under the lock and cancels their contexts after it, one by one),
`inflight` the cancellation keys, `pager` what a client paging through a list has.

**CodeQuery and EditCommand.** Source text is a sequence of symbols that open a
named function or class, close it, or are something else: enough to nest, to sit
side by side, to be broken. The parser repairs some broken texts with missing
tokens; which ones is the constant `Repairs`. `findErrors` looks for nodes of type
ERROR only (`providers/base/provider.go:1178`), so a repaired text is `Valid`. A
selector is a sequence of tokens. The parser, the search, the five edits and the
score are operators; `Means`, `Replaced` and `Inserted` are independent definitions
of what they should compute. Where the code recurses the models have recursive
functions, which can be proved about: of the parser by level and position
(`ParseFrom`), of the search and of `attachContains` by the path to a part of the
query (`Found`, `Attached`). `Supported` says which selectors the grammar accepts
and the code does not mean: a negation of more than a selector, or before `>`; `>>`
to more than a selector; and `>` or `>>` after parentheses that hold one of the
three, because `attachContains` gives the child to the last of a chain and to none
of a negation (`core/dsl.go:311-330`). `EditCommand` runs one command or one recipe
on a file somebody else may write; a command's write may fail and leave part of the
result (`torn`). `TransformFiles` reports a file that fails in its result and
returns no error, so a recipe goes on: from a trial that failed on the file to the
application of the step (the step is `untried`), and from an application that was
rolled back to the next step. Only an error of the call (the safety limits, the log,
a failing rollback or commit) ends the recipe, and then the step's change may be in
the file all the same.

**SyntaxCache and FileQuery.** `cache` is the map, `ast` every entry ever stored
with its age and whether its tree is closed; `GetOrParse` and `pruneExpired` are a
step per map or tree access. In `FileQuery`, `stack` is the recursion of
`scanDirectory`, `paths`, `results` and `matches` the channels, `walker[w]` and
`querier[q]` the goroutines, and each querier parses through the shared cache.
The scanner knows a directory by the string `EvalSymlinks` gives for the path it
came on. For a relative path that string is relative to the working directory, and
as many `..` higher as the highest absolute or upward link on the way leads
(`Climb`), so `visited` has keys of a directory and a height (`KeyOf`); for an
absolute scope path there is one height. The MCP tool passes a relative
`scope.path` on as it is.

## 3. The runs

| run | instance | shows |
|---|---|---|
| `transaction_client` | 2 files, 2 contents, 2 transactions of 2 operations, failing backups, writes and restores, crashes, cleanup at any time | `RollbackRestores`: a rollback that reports no error restores every file. `WriteAhead`: no file changes before log and backup are on disk. `OutcomeIsFinal`. `ClientInv`: a log that says committed lists no failure, and cleanup takes no backup a pending log points to |
| `transform_files` | 3 files, semaphore of 2, crashes and every fault but outside edits and a failing lock release, `FairSpec` | `CommitNeverRefused`, `CrashRecoverable`, the invariant `IInv`, the refinement `ImplementsBatch`, and `Returns` |
| `transform_edited` | 2 files, all 8 option combinations, outside edits, crashes, failing log writes | `AllOrNothing` for the files nobody else wrote, `PlainBackupFirst` without a transaction, and the invariant `CrashInv` |
| `writer_shared` | 2 goroutines of one process and 1 of another, all inside at once, crashes, `RaceFree` | `WriterInv`: however locks are stolen, no lock file of a live process and no map entry is left |
| `writer_faults` | the same three, two of one process inside together or different processes one after the other, every fault and crash, a lock file that cannot be removed, `FairSpec` | `WholeTarget`, and `Returns`: nobody sleeps for ever; the one exception, a stuck lock file, is named in the property |
| `staging` | the server and a command, 2 stages, 1 file, with and without backups, apply limit 1, one kind of disturbance per behaviour | `AppliedIsWritten`, `EditsKept`, `FailedApplyRestores`, `ResponseTrue`; `StagingInv`: the limit, nothing left open |
| `async_staging` | 3 requests (one nil), 2 workers, channels of 1, a limit of 1, `AsyncFairSpec` | `AsyncInv`: one owner per request. `LimitOvershoot`, `AnswerTrue`, `Answered`, `CloseEnds` |
| `server` | scripts of up to 4 messages, 2 calls to the client, 2 subscriptions, a list of 5 with pages of up to 4, `ServerFairSpec` | `ServerInv`: no panic, every call settled one way. `SubscriptionsForwarded`, `PagesCover`, `RequestsAnswered`, `WorkEnds` |
| `edit_command` | selectors of up to 2 tokens, the parsable ones of 3 and 5 and some longer, every method, trees of up to 3 nodes, a text with an error and two with a missing brace, recipes of 2 steps or none, failing reads, writes and steps, one outside edit | `SelectorsMean` and no target twice, `EditExact`, `BrokenNeverHigh`; `RecipeGate`: no step that was tried is applied below its minimum; `EditInv`: the response is true, and a file not said to be changed is not, but for a torn write |
| `file_query` | a tree of 3 directories with a link cycle, 3 files of one text in two languages, a walker, 2 queriers, channels of 1, an absolute and a relative link, scope paths of both kinds, an expiry, cancellation and failing reads, `FileQueryFairSpec` | `QueryComplete`, `TreesOpen`, `WalkEnds`; `FileQueryInv`: the limits hold, and nothing is sent twice on paths of one height |
| `writer_torn`, `staging_rollback` | the smallest instances that show it | a violation each, see below |

The invariants named after a module (`ClientInv`, `WriterInv`, `StagingInv`,
`AsyncInv`, `ServerInv`, `EditInv`, `FileQueryInv`) are the type invariant of the
module with the safety invariants named in the comment above each.

**Bounds.** Two contents tell an old content from a new one; contents and files
are only compared, so they are symmetric. Three files and a semaphore of two give a
file that waits, one that runs and one that is done at once, in every order. Two
operations per transaction include two on one file, where the order of the undo
matters. Two transactions let one be cleaned up while the other is under way. In
the writer, three goroutines give a holder, a thief and a waiter, and two processes
the case in which a lock file outlives its creator. In staging, two calls at a time
(`MaxCalls`) are an apply and whatever overlaps it, two stages on one file a second
write that may undo the first, an apply limit of one the second apply that must be
refused; stages are symmetric, the actors are not. `MaxMet` = 1 lets one kind of
disturbance happen, any number of times: the properties are about which kinds
break them, and a kind that a property excludes would hide the others. Channels of
one are full after one send; with two workers or queriers, somebody is inside while
somebody else blocks. `StageLimit` = 1 with two workers and the fallback lets three
creators pass the count. A list of five, a default page of three and a maximum of
four give first, middle and last pages, and every limit from zero to beyond the
list. Three nodes are two nested in or beside a third, the least on which
containment, its transitive form and nested targets differ. A recipe of two steps
has a step that fails before one that does not, and after. One link that climbs
gives the root two keys, the least with which a name is sent twice. `MaxOld` = 1 lets one
entry expire: that is enough for two goroutines to evict it and a third to store a
new one. The theorems have none of these bounds.

Deadlock is not checked where the system may come to rest: a client, server,
command or query that has nothing more to do.

**Fairness.** `TransformFiles!FairSpec` is weak fairness of the program as a
whole (not of each goroutine): the Go scheduler runs something that can run.
Crashes and edits are not fair. It suffices because the call is finite work, and
what the property excludes is everyone waiting for the semaphore or `tm.mu`.
`AtomicWriter!FairSpec` is weak fairness of each goroutine's steps, which the Go
scheduler gives (it is preemptive), and of the passing of each deadline. Mutexes
need no strong fairness there: the waiting goroutine rechecks a state that the
others, each calling once, stop disturbing. `AsyncFairSpec` and `FileQueryFairSpec`
are weak fairness of each goroutine, channel operations included: a goroutine that
can go on for ever does. Nobody has to call `Close`, cancel, or let time pass, and
a panic ends fairness with the process. `ServerFairSpec` has the reader, each call's
goroutine (whose five seconds do pass) and each forwarder; a resource ends the
stream of a context that is cancelled, which is its contract. Nothing is assumed of
the client: it may stop sending, or never answer.

**Disagreements found.** Two are runs (`PROJECT.json`, findings):

- `writer_torn`: a lock file that exists but does not hold its process id yet is
  judged stale and removed, so that two writers hold the lock and one may publish
  the other's empty temporary file. `WriteFile` is not atomic then.
- `staging_rollback`: the default configuration makes no backups, and the rollback
  of a write without a backup takes the file for a new one and removes it.

The others are stated as definitions that no run checks, because they do not hold.
Each fails within seconds (`GateBeforeChange` within a minute) as the invariant of
its module's run (the one about requests as a property) without symmetry and with
the constants named:

- `TransactionClient!AllPendingListed`: the log is rewritten in place, so that a
  crash in the rewrite hides a pending transaction from `ListPendingTransactions`
  (`Faults <- TornFaults`).
- `TransformFiles!ReportedFilesChanged`: a transform that was rolled back returns
  no error and still reports its files as modified (`Faults <- ReadFaults`).
- `TransformFiles!FailedModifyLeavesOriginal`: a write can fail after its rename,
  when the lock is released, and the rollback then takes the file for unchanged
  (`Faults <- ReleaseFaults`).
- `AtomicWriter!LockReleased`: without `RaceFree`, the race on `refCnt` can delete
  the map entry of a lock in use, whose release then does nothing (`RaceFree = FALSE`,
  `Threads = {t1, t2}`, `ProcOf <- Pair`, `WriterFaults <- NoFaults`).
- `Server!EveryRequestAnswered`: after a syntax error the new decoder lacks what
  the old one had read ahead; those requests are never answered
  (`Scripts <- BrokenScripts`).
- `EditCommand!GateBeforeChange`: the README of the repository says "Morfx only mutates
  files after the step meets its `min_confidence` gate" (lines 305-306; so do
  `cmd/recipe/main.go:44` and `docs/standalone-tools.md:230`). A dry run that fails on
  the file has no match and no error, passes `requireRecipeConfidence`
  (`core/recipe.go:224`), and the step is applied: TLC has a step with a score of 70
  change the file against a minimum of 85 (the constants of `EditCommand.cfg`).
- `EditCommand!PositionsPreserved`: with a target inside another, the inner edit
  moves the end of the outer one, and the outer edit uses the old offsets
  (`Texts <- NestedTexts`, `Selectors <- FewSelectors`, `Recipes <- NoRecipes`).
- `EditCommand!AppendAtTarget`: an append with a compound selector goes to the end
  of the file, whatever the selector finds (`Selectors <- CompoundSelectors`,
  `Recipes <- NoRecipes`).

Besides: `core/recipe.go:80` says every step is preflighted before any is applied,
but the loop tries and applies step by step, so a later step can fail with the
earlier ones applied, and a step that was rolled back counts as run and is followed
by the next. A text that the parser repairs with missing tokens has no error node,
so an edit that loses a brace may keep a high score. With links followed and a
relative scope path, an absolute link back into the tree is not recognised, and the
files behind it are sent twice (`FoundOnce` says how often). The digest of an empty
source is not compared. A stage with an empty result can never be applied, and a
tool reports it as applied without writing it. The status "expired" is saved in the
transaction that the error rolls back. The server handles requests on the goroutine
that reads, so a client's cancellation is read when the request it names is over.
`file_query` presents what it has after thirty seconds as complete. A query may be
answered from the tree of another language, because the cache's key is the text
alone. A tree that expires between being looked up and being copied is closed under
the copier. `Close` of the asynchronous manager leaves requests in the queue
unanswered, may make a sender panic, and may wait for a worker that waits for the
collector, which has left.

## 4. What is proved

Every theorem holds for all values of the constants that satisfy the named
assumptions of its module: any number of files, threads, actors, messages, and
none of the bounds of section 3. None of the properties is inductive; for each,
what follows says what the inductive invariant adds and why. TLC has checked the
invariants on the runs' instances before they were proved.

**Assumptions.** They give constants their types, and say that values with different
meanings are different (`NoFile` and `Old` in `AtomicWriter`; `Empty`, the places
and the sets of changes in `Staging`; files and the places of a goroutine in
`FileQuery`), which TLA+ leaves open and Go does not. `FileQuery` also assumes that
a name is an entry of one directory, and a directory neither a file nor a link:
names stand for paths (how high a path has climbed is kept beside them). Its pools
are finite and not empty (`runtime.NumCPU() * 2` walkers, `resolveWorkerCount`
queriers). Wherever a theorem has a hypothesis of its own, a disagreement of section
3 shows that it is needed, or the text below says why.

### Transactions

`TransactionManagerProofs` proves, per method, that `TMInv` is preserved and what
it changes; the others use these as lemmas.

`TransactionClientProofs`, for a disciplined caller and every fault:

- `RollbackRestoresHolds`, `ClientInvHolds`, `OutcomeIsFinalHolds`, from
  `ClientInductive`. A rollback undoes last to first, so of the operations on one
  file only what the first puts back stays (`FirstPutsBack`), and that is what the
  file held at the start, because no earlier operation would change it and the
  caller had not touched it (`UntouchedInv`, which also follows the loop).
  `StatusInv` ties the log to the transaction in memory, which is what makes a
  recorded outcome final.
- `WriteAheadHolds`, if `"log" \notin Faults`. It is needed: the caller goes on with
  one file when the rewrite of the log for another has failed and torn it.
  `AheadInv` says which entry of the log covers each file about to change.

`TransformFilesProofs`, for `Spec` of `TransformFiles`:

- `TypeCorrect`: `Spec => []TypeOK`, with every fault.
- `Inductive`, `AllOrNothingHolds`, `CommitNeverRefusedHolds`: `IInv`,
  `AllOrNothing` and `CommitNeverRefused` hold throughout, if
  `"release" \notin Faults`. The hypothesis is needed: with such a failure the
  code does leave a changed file behind after a rollback without an error, see
  `FailedModifyLeavesOriginal`.
- `PlainBackupFirstHolds`, with every fault: a call without a transaction has no
  log to lean on, so its invariant `PlainInv` follows each goroutine from the read
  over the backup to the write.
- `CrashInvHolds` and `CrashRecoverableHolds`, under the same hypothesis as `IInv`.
- `ImplementsBatchHolds`: `Spec => ImplementsBatch` if, besides, every option
  record asks for a transaction and nobody else writes the files (`Undisturbed`).
  Both are needed: a plain call has no such promise, and an edited file shows the
  abstract batch a change it never makes.

`AllOrNothing` speaks of the end, so the invariant has to say what each file holds
at every moment (`DiskInv`): the old content until the goroutine has written, and
during a rollback with the loop at *n* the new one exactly if one of the first *n*
operations changed the file. That needs each operation to agree with the place of
its goroutine and to have the original as its backup (`OpsInv`), at most one
operation per file, an operation for every file under way (`Registration`, which is
what makes a commit without failures acceptable), at most one goroutine inside the
manager (`FileInv`), and the places of the calling goroutine at which a transaction
exists (`ControlInv`). An outside edit removes its file from the claims, nothing
else. TLC checks `IInv` in `transform_files`; the proof has one lemma per action.

`CrashInv` is inductive relative to `IInv`. Its first part, `OldOrNew`, says at
every moment what `AllOrNothing` says at the end, without saying which of the two
contents a file holds; its second, `LogInv`, that a log which loads names every
file from before its write. The second has to survive log writes that fail: they
leave the old log, which named the files it had to name, or one that does not
load. In the refinement every step of a goroutine maps to the choice of an intent
or to a stutter, the return of the call to `Publish`, `Discard` or `Abandon`, and a
crash to `Abandon`; `DiskInv` and `OldOrNew` say that the files then are what these
steps require.

### Atomic writer

- `WholeTargetHolds`, without a hypothesis: every fault, crash and schedule,
  `RaceFree` or not. The property is about behaviours in which one writer is inside
  at a time (`~met`); `TargetInv` says that a thread that has not opened its
  temporary file yet has no inode under either name, and that the one that writes
  has the one `<path>.morfx.tmp` names.
- `WriterInvHolds`, if `RaceFree` and `"remove" \notin WriterFaults`: a lock file
  that cannot be removed stays, and the race on `refCnt` loses the map entry of a
  lock in use (`LockReleased`). `EntryInv` says that a process's threads all use
  the object in its map, `CountInv` that `refCnt` is the number of those that have
  counted themselves and not uncounted, with the value loaded but not stored,
  `LockInv` that a locked object and the lock file of a live process have a thread
  that will still release them. A stolen lock file needs no clause: whoever's it
  was, the next one is another thread's.

### Staging

`StagingProofs`, for any actors, stages, files and limits:

- `StagingInvHolds`, from `StagingInductive`, which holds under every disturbance:
  where a call can be and what it holds there (`CallInv`), that a pending
  transaction of the log is that of a call under way (`LogInv`), and that an apply
  which is under way saw room when its transaction began (`LimitInv`): the commit
  compares the database with what it saw.
- `FailedApplyRestoresHolds`, `EditsKeptHolds`, `AppliedIsWrittenHolds` and
  `ResponseTrueHolds`, from `StagingHistory`. Each is about behaviours without the
  disturbances its definition names; so are its parts. While calls do not overlap a
  call is alone (`AloneInv`) and the database is as it saw it (`SeenInv`); `WriteInv`
  says step by step what the file and its backup hold, `EditInv` that what others
  made is in the file and in what a rollback would put back, `AppliedInv` the same
  for applied stages, `ToolInv` when a tool's own change is in the file. `ReqInv`
  is where a change comes from: one request only.

### Asynchronous staging

`ServerProofs` too, for any callers, workers and capacities:

- `OneOwnerHolds` and `AnswerTrueHolds`. `OneOwner` counts the places a request
  is at; the invariant `OwnerInv` says without counting that they exclude each
  other. `AnswerInv` adds that no row is there before its creator answers.
- `LimitOvershootHolds`: `LimitInv` bounds rows and creators together by the limit
  and the most that were ever between count and insert.

### Server

`ServerProofs`, for any scripts, calls, subscriptions and lists:

- `ServerInvHolds`. The result channel of a call has one owner who may still send
  on it or close it: whoever took the entry out of `pending` (`CallInv`). Numbers of
  messages grow along the wire (`WireInv`, `CurInv`), so that no request is
  answered twice.
- `SubscriptionsForwardedHolds` (`WatchInv`: between the watch and its forwarder,
  and between the removal of an entry and its cancellation, the reader does nothing
  else) and `PagesCoverHolds` (`Covers`: what the client has
  is the list as far as its cursor).

### File query and cache

`QueryProofs`, for any directories, links, pools and scopes:

- `TreesOpenHolds`, from `CacheInv`. Only the goroutine that has deleted an entry from
  the map closes its tree (`Closer`): it has seen the entry expired, so nobody can be
  handed the tree any more, and the entry had one key, so no second goroutine can find
  it. An entry that is overwritten by another store loses its place in the map, and
  is not closed.
- `FileQueryInvHolds`, from `WalkInv`. The keys on the stack of `scanDirectory`
  differ and have been visited when links are followed, and everything sent lies
  behind the scanner's place in its directory (`Passed`); so a key is entered once
  and gives each of its names once. Absolute paths have one height, 0, and relative
  ones the heights of the links (`Heights`). `MatchTypes` says that a querier that parses
  has a file, which is the one its match is about.
- `QueryCompleteHolds`, from `CompleteInv`, which is inductive relative to the
  invariants above. It has four parts, the last three only while nothing has gone
  wrong. `LangInv`: a tree in the cache, or handed out, is of the language of some
  file in the scope with its text, so that a file that is not `Ambiguous` gets the
  right tree. `FlowInv`: a stage leaves only when those before it have left and its
  channel is empty, so at the end nothing is under way. `CountInv`: until then each
  name sent for a file that matches is in exactly one place, a channel, a walker, a
  querier or the answer, counted. `ScanInv`: every entry the scanner is past is
  excluded, sent, too deep, or leads to a directory it has left or is in.
  What the scope leads to (`ReachedDirs`) is stated as what lies in every set that
  covers it (`Covers`), not by steps: at the end the directories the scanner has left
  are such a set, and no induction over depths is needed. Limits on the number of
  files, and following links within a depth, are outside the last part, as in the
  property: there the walk does leave files out.

### Commands and recipes

`EditProofs`, for any texts, selectors, contents and recipes:

- `EditInvHolds` and `RecipeGateHolds`, from `EditInductive`. Between the trial of a
  step and the step the trial's score is that of the file (`TrialInv`), and a command
  transforms what is in the file (`SourceInv`), until somebody else writes it; a
  step whose trial failed on the file is `untried`, and the gate says nothing of it.
  `theirs`, what others left in the file, is what a command that has applied nothing
  still finds there, also when it was refused (`PlaceInv`, `DoneInv`).
- `BrokenNeverHighHolds`: the result a command has is the one `Transform` gives for
  what it has read, and `TransformScore` bounds the score of a text with an error
  node, whatever the selector found and the edit did. It holds for any `Repairs`.
- `EditExactHolds`: an edit has the text that was meant, and nothing else changes.
  `Transform` sorts the targets, the last first, and splices each into what the
  splices before it have left; `Meant` is a text made from its end, in one pass. They
  agree because a splice leaves the text before it as it was, so that each is made at
  the place its target had in the text that was read (`SpliceAllIs`). That needs the
  targets in order, so that there is an order to choose (`CanSort`), inside the text
  (`FindTyped`, over the parts of a query), and different from each other. A query
  has parts at all because the parser returns queries (`ParseTyped`).
- `SelectorsMeanHolds`: what a supported selector finds is what its grammar says, and
  nothing is found twice. The parser and the search are put together from recursions
  that do not match that of `Means`: the parser takes tokens from the left and goes
  through the levels, the search goes through the parts of a query, and `Means`
  splits a selector at its first loosest operator. The proof says each without
  recursion first:
  - what a query selects is known from what its parts select (`SelectsBy`), and what
    `attachContains` makes of it from what it makes of the parts (`AttachBy`);
  - what a part of a selector means is known from the sides of an operator in it
    that no parentheses enclose (`MeansSplit`), and from what a pair of parentheses
    encloses (`MeansGroup`).

  Then a parser reads what it takes as what it means (`Reads`), if the parsers it calls
  do. A level takes its operands from the left and `Means` puts them together from the
  right; union and intersection associate, and so does a chain, (a > b) > c being
  a > (b > c) (`AttachAssociates`). So while operands are taken, what is kept is that
  with any further operand the query will select what is meant (`Continues`). For a
  chain this holds if the child reaches every part of the parent (`Plain`), which is
  so of | and & of selectors and not of ! and of chains in parentheses; it is here that
  the proof uses the premise `Supported` of the property.
  `FoundInv` carries the result through a command's steps: what has been found is what
  the parsed selector finds in the text that was read.

These rest on `TextInv`: what is in the file, what was read and what comes out are
texts, whoever wrote them. Recursion is over what gets lower, tokens left or the
level of the grammar in the parser, the height of a query in the search; that a
recursive function has the values its definition says is proved once
(`RecursionDefines`, `RecursionTypes`; `RankedDefines` for `Means`, whose selectors
have no common bound) from `WFDefOnThm`. Induction is over the set of
the numbers a statement holds of (`Induct`), which needs no operator as a parameter.

### Only model-checked

- Liveness: `Returns`, `Answered`, `CloseEnds`, `RequestsAnswered`, `WorkEnds`,
  `WalkEnds`. The prover has no rules for fairness of actions (ENABLED).
  Every safety property of the passing runs is a theorem.

## 5. What the models leave out

Code that no program of the repository reaches, only its tests:
`AtomicWriter.Cleanup`; `LockFile`, `RollbackAll` and the listing of pending
transactions of the safety manager; `DeleteStage` and `DeleteAppliedStages`;
`ApplyStage` without a safety manager; `FastScan` and `GetLanguageStats` of the
walker. `NewAsyncStagingManager` and `CleanupExpiredStages` are not called by a
program either, and are modelled all the same: they are where the concurrency is.

Details the properties do not depend on:

- Recovery after a crash: `LoadTransaction` and `ListPendingTransactions` are
  there as the predicates `Loadable` and `PendingTransactions`, but nothing in
  the program calls them to recover; `CrashRecoverable` says what a recovery would
  find. It does not hold for a torn log.
- A transaction id never repeats (random in the code). Times are dropped; deadlines
  and expiries are steps that may happen. The checksums of the core's log are
  stored and never compared; the digest of a stage is its source.
- `WriteAhead` is not checked with failing log writes: `TransformFiles` goes on
  with the other files after one, so their writes may happen with a torn log.
- Fsync: the models have process crashes, not power failures. `BackupOriginal` of
  the writer's own configuration is part of the failure outcome `BodyFails` only.
- The characters of the query language: names are matched exactly or by `*`;
  attributes, captures, `SmartAppend`'s places, glob patterns and language tables
  are data.
- Sampling and elicitation requests go through the same `callClient` as the
  roots request that is modelled. Log notifications, prompts and resources say
  something and change nothing. Frames are written whole, under `writeMu`.
- `file_replace` and `file_delete` are `TransformFiles` with a time limit; recipes
  over several files are `TransformFiles` per step.
- A response can always be marshalled: it is made of maps and strings.
- Somebody else writes the file of a command once, and not while the command or a
  step of a recipe writes it; `transform_edited` has edits in the middle of
  `TransformFiles`.
- Command-line parsing, formatting, the grammars and the release
  tooling.

## 6. Plan

All modules of the plan are there, and every safety property of the runs is a
theorem. What is left needs more of the code than is modelled: the languages'
grammars, which would replace the tree of `Nodes`, and selectors with attributes,
for which `Candidate` and `Means` would be extended together.
