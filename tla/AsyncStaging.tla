----------------------------- MODULE AsyncStaging -----------------------------
(***************************************************************************)
(* AsyncStagingManager of mcp/async_staging.go: callers put requests on a  *)
(* bounded channel, workers take them, create the stage and answer on the  *)
(* request's own channel, and report to a collector on a second bounded    *)
(* channel.  Close cancels the context, closes the channels and waits.     *)
(*                                                                         *)
(* CreateStage counts the pending stages and inserts one in two statements.*)
(***************************************************************************)
EXTENDS Naturals, Sequences, FiniteSets

CONSTANTS
  Requests,   \* one caller each
  NilStages,  \* the requests whose stage is nil
  Workers,
  QueueCap,   \* capacity of stageChan
  ResultCap,  \* capacity of resultChan
  StageLimit  \* MaxStagesPerSession

ASSUME AsyncAssumptions ==
  /\ NilStages \subseteq Requests
  /\ {QueueCap, ResultCap, StageLimit} \subseteq Nat
  /\ Requests \cap Workers = {}

VARIABLES
  caller,   \* caller[r]: where the goroutine that asks for r is
  queue,    \* stageChan
  worker,   \* worker[w]: what w does, and for which request
  results,  \* how many results resultChan holds
  collector,\* the collector runs
  closing,  \* where Close is
  cancelled,\* the requests whose context is cancelled
  rows,     \* the requests whose stage is in the database
  answer,   \* answer[r]: what was sent on r's channel
  panicked, \* somebody sent on a closed channel: the process is gone
  peak      \* history: how many were between the count and the insert at once

asyncVars == <<caller, queue, worker, results, collector, closing, cancelled, rows,
               answer, panicked, peak>>

Idle == [at |-> "idle", on |-> {}]
Closing == {"no", "cancel", "wait", "closed"}

AsyncTypeOK ==
  /\ caller \in [Requests -> {"new", "send", "sent", "count", "insert"}]
  /\ queue \in Seq(Requests) /\ Len(queue) <= QueueCap
  /\ worker \in [Workers -> [at: {"idle", "count", "insert", "report", "exited"},
                             on: SUBSET Requests]]
  /\ results \in 0 .. ResultCap
  /\ closing \in Closing
  /\ cancelled \subseteq Requests /\ rows \subseteq Requests
  /\ answer \in [Requests -> {"none", "ok", "error"}]

AsyncInit ==
  /\ caller = [r \in Requests |-> "new"]
  /\ queue = <<>>
  /\ worker = [w \in Workers |-> Idle]
  /\ results = 0
  /\ collector = TRUE
  /\ closing = "no"
  /\ cancelled = {}
  /\ rows = {}
  /\ answer = [r \in Requests |-> "none"]
  /\ panicked = FALSE
  /\ peak = 0

Done == closing # "no"          \* <-asm.ctx.Done()
ChannelClosed == closing \in {"wait", "closed"}
At(r, place) == caller' = [caller EXCEPT ![r] = place]
WorkerAt(w, place, on) == worker' = [worker EXCEPT ![w] = [at |-> place, on |-> on]]
Answer(r, a) == answer' = [answer EXCEPT ![r] = a]

-----------------------------------------------------------------------------
(* CreateStage, on a worker or on a goroutine of the fallback *)

\* Who has counted and not inserted yet.
Inserting == {w \in Workers : worker[w].at = "insert"} \union
             {r \in Requests : caller[r] = "insert"}

\* Mutant: one more is let in.
HasRoomPlusOne == Cardinality(rows) <= StageLimit

HasRoom == Cardinality(rows) < StageLimit

\* The insert, and the context looked at after it; or the insert fails.
Inserted(r) ==
  \/ r \notin cancelled /\ rows' = rows \union {r} /\ Answer(r, "ok")
  \/ r \in cancelled /\ rows' = rows \union {r} /\ Answer(r, "error")
  \/ UNCHANGED rows /\ Answer(r, "error")

Entered == peak' = IF Cardinality(Inserting) + 1 > peak
                   THEN Cardinality(Inserting) + 1 ELSE peak

-----------------------------------------------------------------------------
(* CreateStageAsyncWithContext *)

\* The first select: a closed manager and a cancelled context may both be
\* ready.
Enter(r) ==
  /\ caller[r] = "new"
  /\ \/ Done /\ At(r, "count") /\ UNCHANGED answer
     \/ r \in cancelled /\ At(r, "sent") /\ Answer(r, "error")
     \/ ~Done /\ r \notin cancelled /\ At(r, "send") /\ UNCHANGED answer
  /\ UNCHANGED <<queue, worker, results, collector, closing, cancelled, rows, panicked, peak>>

\* Mutant: the fallback runs although the request was queued.
SendTwice(r) ==
  /\ caller[r] = "send"
  /\ ~ChannelClosed
  /\ IF Len(queue) < QueueCap THEN queue' = Append(queue, r) ELSE UNCHANGED queue
  /\ At(r, "count")
  /\ UNCHANGED <<worker, results, collector, closing, cancelled, rows, answer, panicked, peak>>

\* The second select.  Its default case is taken when the channel is full:
\* the wait of 100 ms never happens.
Send(r) ==
  /\ caller[r] = "send"
  /\ ~ChannelClosed
  /\ IF Len(queue) < QueueCap
     THEN queue' = Append(queue, r) /\ At(r, "sent")
     ELSE UNCHANGED queue /\ At(r, "count")
  /\ UNCHANGED <<worker, results, collector, closing, cancelled, rows, answer, panicked, peak>>

\* The check came before Close, the send after it.
SendPanics(r) ==
  /\ caller[r] = "send"
  /\ ChannelClosed
  /\ panicked' = TRUE
  /\ UNCHANGED <<caller, queue, worker, results, collector, closing, cancelled, rows,
                 answer, peak>>

\* The goroutine of the fallback: CreateStage in line.  The count may fail.
SyncCount(r) ==
  /\ caller[r] = "count"
  /\ \/ /\ r \notin NilStages /\ r \notin cancelled /\ HasRoom
        /\ At(r, "insert") /\ Entered /\ UNCHANGED answer
     \/ At(r, "sent") /\ Answer(r, "error") /\ UNCHANGED peak
  /\ UNCHANGED <<queue, worker, results, collector, closing, cancelled, rows, panicked>>

SyncInsert(r) ==
  /\ caller[r] = "insert"
  /\ Inserted(r)
  /\ At(r, "sent")
  /\ UNCHANGED <<queue, worker, results, collector, closing, cancelled, panicked, peak>>

Cancel(r) ==
  /\ answer[r] = "none" /\ r \notin cancelled
  /\ cancelled' = cancelled \union {r}
  /\ UNCHANGED <<caller, queue, worker, results, collector, closing, rows, answer,
                 panicked, peak>>

-----------------------------------------------------------------------------
(* stageWorker *)

\* Mutant: a nil stage is skipped without an answer.
TakeSilent(w) ==
  LET r == Head(queue)
  IN  /\ worker[w].at = "idle"
      /\ queue # <<>>
      /\ queue' = Tail(queue)
      /\ IF r \in NilStages THEN UNCHANGED <<worker, answer>>
         ELSE IF r \in cancelled THEN Answer(r, "error") /\ UNCHANGED worker
         ELSE WorkerAt(w, "count", {r}) /\ UNCHANGED answer
      /\ UNCHANGED <<caller, results, collector, closing, cancelled, rows, panicked, peak>>

\* A closed channel still yields the requests in it.
Take(w) ==
  LET r == Head(queue)
  IN  /\ worker[w].at = "idle"
      /\ queue # <<>>
      /\ queue' = Tail(queue)
      /\ IF r \in NilStages \union cancelled
         THEN Answer(r, "error") /\ UNCHANGED worker
         ELSE WorkerAt(w, "count", {r}) /\ UNCHANGED answer
      /\ UNCHANGED <<caller, results, collector, closing, cancelled, rows, panicked, peak>>

\* <-asm.ctx.Done(), also when there are requests: the select is fair to none.
ExitDone(w) ==
  /\ worker[w].at = "idle"
  /\ Done
  /\ WorkerAt(w, "exited", {})
  /\ UNCHANGED <<caller, queue, results, collector, closing, cancelled, rows, answer,
                 panicked, peak>>

\* Mutant: a session over its limit is answered "ok".
CountForgives(w) ==
  /\ worker[w].at = "count"
  /\ \E r \in worker[w].on :
       IF r \notin cancelled /\ HasRoom
       THEN WorkerAt(w, "insert", {r}) /\ Entered /\ UNCHANGED answer
       ELSE WorkerAt(w, "report", {r}) /\ Answer(r, "ok") /\ UNCHANGED peak
  /\ UNCHANGED <<caller, queue, results, collector, closing, cancelled, rows, panicked>>

\* No room, a cancelled context and a count that fails are all errors.
Count(w) ==
  /\ worker[w].at = "count"
  /\ \E r \in worker[w].on :
       \/ /\ r \notin cancelled /\ HasRoom
          /\ WorkerAt(w, "insert", {r}) /\ Entered /\ UNCHANGED answer
       \/ WorkerAt(w, "report", {r}) /\ Answer(r, "error") /\ UNCHANGED peak
  /\ UNCHANGED <<caller, queue, results, collector, closing, cancelled, rows, panicked>>

Insert(w) ==
  /\ worker[w].at = "insert"
  /\ \E r \in worker[w].on : Inserted(r) /\ WorkerAt(w, "report", {r})
  /\ UNCHANGED <<caller, queue, results, collector, closing, cancelled, panicked, peak>>

\* resultChan <- result blocks while the channel is full.
Report(w) ==
  /\ worker[w].at = "report"
  /\ results < ResultCap
  /\ results' = results + 1
  /\ WorkerAt(w, "idle", {})
  /\ UNCHANGED <<caller, queue, collector, closing, cancelled, rows, answer, panicked, peak>>

-----------------------------------------------------------------------------
(* resultCollector, Close *)

Collect ==
  /\ collector
  /\ results > 0
  /\ results' = results - 1
  /\ UNCHANGED <<caller, queue, worker, collector, closing, cancelled, rows, answer,
                 panicked, peak>>

CollectorExits ==
  /\ collector
  /\ Done
  /\ collector' = FALSE
  /\ UNCHANGED <<caller, queue, worker, results, closing, cancelled, rows, answer,
                 panicked, peak>>

CloseTo(from, to) ==
  /\ closing = from
  /\ closing' = to
  /\ UNCHANGED <<caller, queue, worker, results, collector, cancelled, rows, answer,
                 panicked, peak>>

CloseCancels == CloseTo("no", "cancel")
CloseChannel == CloseTo("cancel", "wait")

\* Mutant: Close waits for the collector to take every result.
CloseDrains ==
  /\ \A w \in Workers : worker[w].at = "exited"
  /\ results = 0
  /\ CloseTo("wait", "closed")

CloseReturns ==
  /\ \A w \in Workers : worker[w].at = "exited"
  /\ CloseTo("wait", "closed")

CallerStep(r) == Enter(r) \/ Send(r) \/ SendPanics(r) \/ SyncCount(r) \/ SyncInsert(r)
WorkerStep(w) == Take(w) \/ ExitDone(w) \/ Count(w) \/ Insert(w) \/ Report(w)
CollectorStep == Collect \/ CollectorExits
CloseStep     == CloseChannel \/ CloseReturns

AsyncNext ==
  /\ ~panicked
  /\ \/ \E r \in Requests : CallerStep(r) \/ Cancel(r)
     \/ \E w \in Workers : WorkerStep(w)
     \/ CollectorStep
     \/ CloseCancels \/ CloseStep

AsyncSpec == AsyncInit /\ [][AsyncNext]_asyncVars

\* The scheduler runs every goroutine that can run; nobody has to call Close.
AsyncFairSpec ==
  /\ AsyncSpec
  /\ \A r \in Requests : WF_asyncVars(~panicked /\ CallerStep(r))
  /\ \A w \in Workers : WF_asyncVars(~panicked /\ WorkerStep(w))
  /\ WF_asyncVars(~panicked /\ CollectorStep)
  /\ WF_asyncVars(~panicked /\ CloseStep)

-----------------------------------------------------------------------------
(* Properties *)

\* The limit of a session is exceeded by no more than the number of creators
\* that were ever between the count and the insert together, less one.
LimitOvershoot == Cardinality(rows) <= StageLimit + (IF peak = 0 THEN 0 ELSE peak - 1)

\* A request has one owner: the caller, its fallback, the queue or a worker;
\* or it has its answer.  So nobody creates a stage twice, answers twice, or
\* closes a channel twice.
Owners(r) ==
  Cardinality({i \in DOMAIN queue : queue[i] = r})
  + Cardinality({w \in Workers : worker[w].at \in {"count", "insert"} /\ r \in worker[w].on})
  + (IF caller[r] = "sent" THEN 0 ELSE 1)
  + (IF answer[r] = "none" THEN 0 ELSE 1)

OneOwner == \A r \in Requests : Owners(r) = 1

\* No request is lost or doubled between the callers, the queue and the workers.
AsyncInv == AsyncTypeOK /\ OneOwner

\* A caller told "ok" has its stage; one told of an error has none, unless
\* its context was cancelled after the insert.
AnswerTrue ==
  \A r \in Requests : /\ answer[r] = "ok" => r \in rows
                      /\ answer[r] = "error" /\ r \in rows => r \in cancelled

\* Every request is answered, unless Close is called.  (Then those left in
\* the queue never are.)
Answered ==
  \A r \in Requests : caller[r] # "new" ~> answer[r] # "none" \/ Done

\* Close returns, unless a caller's send has panicked or a worker is stuck:
\* the collector has gone and resultChan is full.
Stuck == ~collector /\ results = ResultCap /\ \E w \in Workers : worker[w].at = "report"
CloseEnds == Done ~> closing = "closed" \/ panicked \/ Stuck
=============================================================================
