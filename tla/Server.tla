-------------------------------- MODULE Server --------------------------------
(***************************************************************************)
(* The stdio server of mcp/server.go and its handlers (handlers.go,        *)
(* router.go, session_state.go, pagination.go, logging.go).                *)
(*                                                                         *)
(* One goroutine reads the input and runs every request's handler before   *)
(* it reads on.  The others are a goroutine for each roots/list request    *)
(* the server sends to the client, which waits for the answer that the     *)
(* reader delivers or for its five seconds to pass, and a forwarder for    *)
(* each watched resource.  A frame is written under writeMu in one piece.  *)
(*                                                                         *)
(* A message is its kind and its number.  What else it carries is chosen   *)
(* where it is handled.  "ping" stands for the handlers that only compute  *)
(* an answer (ping, prompts, resources, log level).                        *)
(***************************************************************************)
EXTENDS Naturals, Sequences, FiniteSets

CONSTANTS
  Scripts,    \* what the client sends, in order: sequences of kinds
  MaxFrames,  \* bound on a script's length
  Calls,      \* the server's requests to the client: 1 for srv-1, ...
  Watches,    \* the resource subscriptions: res-sub-1, ...
  Items,      \* length of the list that tools/list pages through
  DefaultLimit, MaxLimit   \* defaultListLimit, maxListLimit

RequestKinds == {"initialize", "initialized", "ping", "tools/list", "tools/call",
                 "subscribe", "unsubscribe", "unknown"}
NoteKinds    == {"notifications/initialized", "notifications/cancelled"}
AnswerKinds  == {"response", "refusal"}
OtherKinds   == {"malformed", "invalid"}
Frames == 1 .. MaxFrames

ASSUME ServerAssumptions ==
  /\ \A s \in Scripts : /\ s \in Seq(RequestKinds \union NoteKinds \union OtherKinds)
                        /\ Len(s) <= MaxFrames
  /\ {MaxFrames, Items, DefaultLimit, MaxLimit} \subseteq Nat
  /\ DefaultLimit > 0 /\ MaxLimit > 0
  /\ Calls \subseteq Nat \ {0} /\ IsFiniteSet(Calls) /\ IsFiniteSet(Watches)

VARIABLES
  script, sent, \* what the client has still to send, and how much it has sent
  stream,       \* the client's end: "open", "closed", or "cut" inside a message
  wire, held,   \* the messages not handled yet; the first held are in the decoder
  pc, cur,      \* where the reading goroutine is, and its message
  answers,      \* answers[n]: what request n was answered
  status,       \* the answer the handler of cur returns
  progress,     \* the last progress notification of cur
  lost,         \* history: requests dropped with a decoder
  inflight,     \* the keys of inflightCancels: request numbers, 0 for a token
  calls, chan,  \* calls[c], chan[c]: the goroutine and result channel of srv-c
  pending,      \* the keys of s.pending
  asked, told,  \* client: requests to answer, requests it was told are cancelled
  session,      \* sessionState: how often it was opened, whose roots it holds
  subs,         \* the keys of resourceSubs
  forward,      \* forward[i]: the forwarder of subscription i
  stopped,      \* the subscriptions whose context is cancelled
  source,       \* source[i]: its update channel, and the updates in it
  pager         \* client: the next cursor and the items it was given

clientVars == <<script, sent, stream>>
inputVars  == <<wire, held>>
replyVars  == <<answers, status, progress, lost, inflight>>
callVars   == <<calls, chan, pending, asked, told>>
watchVars  == <<subs, forward, stopped, source>>
serverVars == <<clientVars, inputVars, pc, cur, replyVars, callVars, session, watchVars, pager>>

NoFrame == [kind |-> "none", n |-> 0]
NoCall  == 0
Alive   == pc \notin {"stopped", "panicked"}

ServerTypeOK ==
  /\ sent \in 0 .. MaxFrames /\ stream \in {"open", "closed", "cut"}
  /\ held \in 0 .. Len(wire)
  /\ pc \in {"read", "handle", "watch", "forward", "unwatch", "reply", "deliver", "spin", "stopped"}
  /\ answers \in [Frames -> {"none", "result", "error"}]
  /\ status \in {"none", "result", "error"}
  /\ progress \in {"none", "queued", "completed", "cancelled", "failed"}
  /\ lost \subseteq Frames /\ inflight \subseteq 0 .. MaxFrames
  /\ calls \in [Calls -> {"none", "register", "ask", "wait", "leave", "notify", "done"}]
  /\ chan \in [Calls -> {"empty", "response", "refusal", "closed", "taken"}]
  /\ pending \subseteq Calls /\ asked \subseteq Calls /\ told \subseteq Calls
  /\ session.opened \in 0 .. MaxFrames /\ session.roots \in Calls \union {NoCall}
  /\ subs \subseteq Watches /\ stopped \subseteq Watches
  /\ forward \in [Watches -> {"none", "watched", "running", "done"}]
  /\ source \in [Watches -> [open: BOOLEAN, updates: 0 .. 1]]
  /\ pager.next \in 0 .. Items /\ pager.got \in Seq(1 .. Items)

ServerInit ==
  /\ script \in Scripts /\ sent = 0 /\ stream = "open"
  /\ wire = <<>> /\ held = 0 /\ pc = "read" /\ cur = NoFrame
  /\ answers = [n \in Frames |-> "none"] /\ status = "none" /\ progress = "none"
  /\ lost = {} /\ inflight = {}
  /\ calls = [c \in Calls |-> "none"] /\ chan = [c \in Calls |-> "empty"]
  /\ pending = {} /\ asked = {} /\ told = {}
  /\ session = [opened |-> 0, roots |-> NoCall]
  /\ subs = {} /\ forward = [i \in Watches |-> "none"] /\ stopped = {}
  /\ source = [i \in Watches |-> [open |-> TRUE, updates |-> 0]]
  /\ pager = [next |-> 0, got |-> <<>>]

-----------------------------------------------------------------------------
(* The client *)

ClientSends ==
  /\ stream = "open" /\ script # <<>>
  /\ wire' = Append(wire, [kind |-> Head(script), n |-> sent + 1])
  /\ script' = Tail(script) /\ sent' = sent + 1
  /\ UNCHANGED <<stream, held, pc, cur, replyVars, callVars, session, watchVars, pager>>

\* It may answer late, after it was told not to.
ClientAnswers(c) ==
  /\ stream = "open" /\ c \in asked
  /\ \E k \in AnswerKinds : wire' = Append(wire, [kind |-> k, n |-> c])
  /\ asked' = asked \ {c}
  /\ UNCHANGED <<clientVars, held, pc, cur, replyVars, calls, chan, pending, told, session,
                 watchVars, pager>>

ClientCloses ==
  /\ stream = "open" /\ script = <<>>
  /\ stream' \in {"closed", "cut"}
  /\ UNCHANGED <<script, sent, inputVars, pc, cur, replyVars, callVars, session, watchVars, pager>>

-----------------------------------------------------------------------------
(* Start: the loop that reads *)

\* The decoder reads whatever the pipe holds, whole messages.
Refill ==
  /\ pc = "read" /\ held = 0 /\ wire # <<>>
  /\ held' \in 1 .. Len(wire)
  /\ UNCHANGED <<clientVars, wire, pc, cur, replyVars, callVars, session, watchVars, pager>>

\* The decoder keeps the error of a message cut short, so that the loop runs
\* on it for ever.
ReadEnd ==
  /\ pc = "read" /\ wire = <<>> /\ stream # "open"
  /\ pc' = IF stream = "closed" THEN "stopped" ELSE "spin"
  /\ UNCHANGED <<clientVars, inputVars, cur, replyVars, callVars, session, watchVars, pager>>

Reads(kinds) == pc = "read" /\ held > 0 /\ Head(wire).kind \in kinds
Consume == wire' = Tail(wire) /\ held' = held - 1

\* A syntax error: the new decoder does not have what the old one had read.
ReadMalformed ==
  /\ Reads({"malformed"})
  /\ wire' = SubSeq(wire, held + 1, Len(wire)) /\ held' = 0
  /\ lost' = lost \union {wire[i].n : i \in {j \in 2 .. held : wire[j].kind \in RequestKinds}}
  /\ UNCHANGED <<clientVars, pc, cur, answers, status, progress, inflight, callVars, session,
                 watchVars, pager>>

\* A JSON value that is not a message is answered without an id.
ReadInvalid ==
  /\ Reads({"invalid"}) /\ Consume
  /\ UNCHANGED <<clientVars, pc, cur, replyVars, callVars, session, watchVars, pager>>

\* resolvePendingResponse takes the entry under pendingMu and delivers after.
ReadAnswer ==
  /\ Reads(AnswerKinds) /\ Consume
  /\ IF Head(wire).n \in pending
     THEN pending' = pending \ {Head(wire).n} /\ cur' = Head(wire) /\ pc' = "deliver"
     ELSE UNCHANGED <<pending, cur, pc>>
  /\ UNCHANGED <<clientVars, replyVars, calls, chan, asked, told, session, watchVars, pager>>

\* Mutant: the channel has no room, and nobody may be waiting any more.
DeliverUnbuffered ==
  /\ pc = "deliver" /\ chan[cur.n] = "empty" /\ calls[cur.n] = "wait"
  /\ pc' = "read" /\ chan' = [chan EXCEPT ![cur.n] = cur.kind]
  /\ UNCHANGED <<clientVars, inputVars, cur, replyVars, calls, pending, asked, told, session,
                 watchVars, pager>>

\* The channel holds one; a send on a closed channel panics.
Deliver ==
  /\ pc = "deliver" /\ chan[cur.n] \in {"empty", "closed"}
  /\ IF chan[cur.n] = "closed"
     THEN pc' = "panicked" /\ UNCHANGED chan
     ELSE pc' = "read" /\ chan' = [chan EXCEPT ![cur.n] = cur.kind]
  /\ UNCHANGED <<clientVars, inputVars, cur, replyVars, calls, pending, asked, told, session,
                 watchVars, pager>>

\* DispatchRequest and wrapRequestHandler: the request's keys, its number and
\* the progress token if it has one, are registered for cancellation.
ReadRequest ==
  /\ Reads(RequestKinds) /\ Consume
  /\ cur' = Head(wire) /\ progress' = "none"
  /\ IF Head(wire).kind = "unknown"
     THEN pc' = "reply" /\ status' = "error" /\ UNCHANGED inflight
     ELSE /\ pc' = "handle" /\ status' = "none"
          /\ inflight' \in {inflight \union {Head(wire).n}, inflight \union {Head(wire).n, 0}}
  /\ UNCHANGED <<clientVars, answers, lost, callVars, session, watchVars, pager>>

\* The goroutine of handleInitialized.
Spawn == \E c \in {c \in Calls : calls[c] = "none"} : calls' = [calls EXCEPT ![c] = "register"]

\* DispatchNotification; handleCancelledNotification's cancelByKey.
ReadNotification ==
  /\ Reads(NoteKinds) /\ Consume
  /\ IF Head(wire).kind = "notifications/initialized"
     THEN Spawn /\ UNCHANGED inflight
     ELSE (\E key \in 0 .. sent : inflight' = inflight \ {key}) /\ UNCHANGED calls
  /\ UNCHANGED <<clientVars, pc, cur, answers, status, progress, lost, chan, pending, asked, told,
                 session, watchVars, pager>>

\* The handler returns: clearCancellation, then the answer is written (it can
\* always be marshalled).
Reply ==
  /\ pc = "reply" /\ pc' = "read"
  /\ answers' = [answers EXCEPT ![cur.n] = status]
  /\ inflight' = inflight \ {cur.n, 0}
  /\ UNCHANGED <<clientVars, inputVars, cur, status, progress, lost, callVars, session, watchVars,
                 pager>>

-----------------------------------------------------------------------------
(* The handlers *)

Handles(kind) == pc = "handle" /\ cur.kind = kind
Returns(s)    == pc' = "reply" /\ status' = s
HandlerFrame  == UNCHANGED <<clientVars, inputVars, cur, answers, lost, inflight, chan, pending,
                             asked, told>>

\* MarkInitialized forgets the roots of the session before.
HandleInitialize ==
  /\ Handles("initialize")
  /\ \/ Returns("error") /\ UNCHANGED session
     \/ Returns("result") /\ session' = [opened |-> session.opened + 1, roots |-> NoCall]
  /\ HandlerFrame /\ UNCHANGED <<progress, calls, watchVars, pager>>

HandleInitialized ==
  /\ Handles("initialized") /\ Returns("result") /\ Spawn
  /\ HandlerFrame /\ UNCHANGED <<progress, session, watchVars, pager>>

HandlePing ==
  /\ Handles("ping") /\ (Returns("result") \/ Returns("error"))
  /\ HandlerFrame /\ UNCHANGED <<progress, calls, session, watchVars, pager>>

\* applyPagination, of a list of that many items.
PageSize(limit) ==
  LET asked0 == IF limit > 0 THEN limit
                ELSE IF Items < DefaultLimit THEN Items ELSE DefaultLimit
  IN  IF asked0 > MaxLimit THEN MaxLimit ELSE asked0

\* Mutant: the cursor is the last item given.
PageOverlaps(start, limit) ==
  LET end == IF start + PageSize(limit) > Items THEN Items ELSE start + PageSize(limit)
  IN  [items |-> [k \in 1 .. end - start |-> start + k],
       next  |-> IF end >= Items THEN 0 ELSE end - 1]

\* The page from start on, and its cursor: 0 for none.
Page(start, limit) ==
  LET end == IF start + PageSize(limit) > Items THEN Items ELSE start + PageSize(limit)
  IN  [items |-> [k \in 1 .. end - start |-> start + k],
       next  |-> IF end >= Items THEN 0 ELSE end]

\* The client starts a list again or goes on from its cursor; a cursor that
\* is no number, or beyond the list, is refused.
HandleList ==
  /\ Handles("tools/list")
  /\ \/ Returns("error") /\ UNCHANGED pager
     \/ /\ Returns("result")
        /\ \E limit \in 0 .. Items + 1, again \in BOOLEAN :
             LET page == Page(IF again THEN 0 ELSE pager.next, limit)
             IN  pager' = [next |-> page.next,
                           got  |-> IF again \/ pager.next = 0 THEN page.items
                                    ELSE pager.got \o page.items]
  /\ HandlerFrame /\ UNCHANGED <<progress, calls, session, watchVars>>

\* A tool's own error is a result that says isError, and so is a cancelled
\* context; bad parameters, an unknown tool and an unexpected error are error
\* responses.  With a token, progress is notified once the parameters are read
\* and when the handler returns.
HandleCallTool ==
  /\ Handles("tools/call")
  /\ \/ progress = "none" /\ Returns("error") /\ UNCHANGED progress
     \/ 0 \in inflight /\ progress = "none"
        /\ progress' = "queued" /\ UNCHANGED <<pc, status>>
     \/ 0 \notin inflight /\ (Returns("result") \/ Returns("error")) /\ UNCHANGED progress
     \/ /\ progress = "queued"
        /\ \/ Returns("result") /\ progress' \in {"completed", "cancelled", "failed"}
           \/ Returns("error") /\ progress' = "failed"
  /\ HandlerFrame /\ UNCHANGED <<calls, session, watchVars, pager>>

\* An invalid, static, unwatchable or unknown resource is answered at once.
HandleSubscribe ==
  /\ Handles("subscribe")
  /\ \/ Returns("result") /\ UNCHANGED forward
     \/ Returns("error") /\ UNCHANGED forward
     \/ \E i \in {i \in Watches : forward[i] = "none"} :
          /\ forward' = [forward EXCEPT ![i] = "watched"]
          /\ pc' = "watch" /\ UNCHANGED status
  /\ HandlerFrame /\ UNCHANGED <<progress, calls, session, subs, stopped, source, pager>>

AddSubscription ==
  /\ pc = "watch" /\ pc' = "forward"
  /\ subs' = subs \union {i \in Watches : forward[i] = "watched"}
  /\ HandlerFrame
  /\ UNCHANGED <<status, progress, calls, session, forward, stopped, source, pager>>

\* go s.forwardResourceUpdates(...)
StartForwarder ==
  /\ pc = "forward" /\ Returns("result")
  /\ forward' = [i \in Watches |-> IF forward[i] = "watched" THEN "running" ELSE forward[i]]
  /\ HandlerFrame /\ UNCHANGED <<progress, calls, session, subs, stopped, source, pager>>

\* Mutant: the entry goes, its context is not cancelled.
UnsubscribeForgets ==
  /\ Handles("unsubscribe") /\ Returns("result")
  /\ \E gone \in {subs} \union {{i} : i \in Watches} :
       subs' = subs \ gone /\ UNCHANGED stopped
  /\ HandlerFrame /\ UNCHANGED <<progress, calls, session, forward, source, pager>>

\* cancelResourceSubscription or cancelAllResourceSubscriptions: the entries go
\* under resourceSubsMu.
HandleUnsubscribe ==
  /\ Handles("unsubscribe")
  /\ \/ Returns("error") /\ UNCHANGED subs
     \/ /\ pc' = "unwatch" /\ UNCHANGED status
        /\ \E gone \in {subs} \union {{i} : i \in Watches} : subs' = subs \ gone
  /\ HandlerFrame /\ UNCHANGED <<progress, calls, session, forward, stopped, source, pager>>

\* Their contexts are cancelled after it, one by one.
Removed == {i \in Watches : forward[i] = "running" /\ i \notin subs \union stopped}
CancelRemoved ==
  /\ pc = "unwatch"
  /\ \/ Removed = {} /\ Returns("result") /\ UNCHANGED stopped
     \/ (\E i \in Removed : stopped' = stopped \union {i}) /\ UNCHANGED <<pc, status>>
  /\ HandlerFrame /\ UNCHANGED <<progress, calls, session, subs, forward, source, pager>>

-----------------------------------------------------------------------------
(* forwardResourceUpdates, and the resource at the other end *)

WatchFrame == UNCHANGED <<clientVars, inputVars, pc, cur, replyVars, callVars, session, pager>>

Publish(i) ==
  /\ Alive /\ forward[i] # "none" /\ source[i].open /\ i \notin stopped /\ source[i].updates = 0
  /\ source' = [source EXCEPT ![i].updates = 1]
  /\ WatchFrame /\ UNCHANGED <<subs, forward, stopped>>

\* The resource ends the stream: it must when the context is cancelled.
CloseSource(i) ==
  /\ Alive /\ forward[i] # "none" /\ source[i].open
  /\ source' = [source EXCEPT ![i].open = FALSE]
  /\ WatchFrame /\ UNCHANGED <<subs, forward, stopped>>

ForwardUpdate(i) ==
  /\ Alive /\ forward[i] = "running" /\ source[i].updates > 0
  /\ source' = [source EXCEPT ![i].updates = 0]
  /\ WatchFrame /\ UNCHANGED <<subs, forward, stopped>>

EndForward(i) ==
  /\ Alive /\ forward[i] = "running" /\ ~source[i].open /\ source[i].updates = 0
  /\ forward' = [forward EXCEPT ![i] = "done"]
  /\ stopped' = stopped \union {i} /\ subs' = subs \ {i}
  /\ WatchFrame /\ UNCHANGED source

-----------------------------------------------------------------------------
(* callClient, on the goroutine of handleInitialized *)

CallAt(c, place) == calls' = [calls EXCEPT ![c] = place]
CallFrame == UNCHANGED <<clientVars, inputVars, cur, replyVars, watchVars, pager>>

RegisterCall(c) ==
  /\ Alive /\ calls[c] = "register" /\ CallAt(c, "ask") /\ pending' = pending \union {c}
  /\ CallFrame /\ UNCHANGED <<chan, asked, told, session, pc>>

AskClient(c) ==
  /\ Alive /\ calls[c] = "ask" /\ CallAt(c, "wait") /\ asked' = asked \union {c}
  /\ CallFrame /\ UNCHANGED <<chan, pending, told, session, pc>>

\* The first branch of the select; SetClientRoots when there are roots.
ReceiveAnswer(c) ==
  /\ Alive /\ calls[c] = "wait" /\ chan[c] \in AnswerKinds
  /\ CallAt(c, "done") /\ chan' = [chan EXCEPT ![c] = "taken"]
  /\ session' = IF chan[c] = "response" THEN [session EXCEPT !.roots = c] ELSE session
  /\ CallFrame /\ UNCHANGED <<pending, asked, told, pc>>

\* Mutant: the select has no second branch.
WaitsForever(c) ==
  /\ Alive /\ calls[c] = "wait" /\ chan[c] = "closed" /\ CallAt(c, "leave")
  /\ CallFrame /\ UNCHANGED <<chan, pending, asked, told, session, pc>>

\* Five seconds have passed; the answer may be there too.
TimesOut(c) ==
  /\ Alive /\ calls[c] = "wait" /\ CallAt(c, "leave")
  /\ CallFrame /\ UNCHANGED <<chan, pending, asked, told, session, pc>>

\* Mutant: the channel is closed whether or not the entry is still there.
LeaveCloses(c) ==
  /\ Alive /\ calls[c] = "leave" /\ CallAt(c, "notify")
  /\ pending' = pending \ {c}
  /\ IF chan[c] = "empty" THEN chan' = [chan EXCEPT ![c] = "closed"] /\ UNCHANGED pc
     ELSE pc' = "panicked" /\ UNCHANGED chan
  /\ CallFrame /\ UNCHANGED <<asked, told, session>>

\* Under pendingMu: whoever deletes the entry owns the channel.
LeaveCall(c) ==
  /\ Alive /\ calls[c] = "leave" /\ CallAt(c, "notify")
  /\ pending' = pending \ {c}
  /\ IF c \notin pending THEN UNCHANGED <<chan, pc>>
     ELSE IF chan[c] = "empty" THEN chan' = [chan EXCEPT ![c] = "closed"] /\ UNCHANGED pc
     ELSE pc' = "panicked" /\ UNCHANGED chan
  /\ CallFrame /\ UNCHANGED <<asked, told, session>>

\* sendCancelledNotification
TellCancelled(c) ==
  /\ Alive /\ calls[c] = "notify" /\ CallAt(c, "done") /\ told' = told \union {c}
  /\ CallFrame /\ UNCHANGED <<chan, pending, asked, session, pc>>

-----------------------------------------------------------------------------
Reader ==
  \/ Refill \/ ReadEnd \/ ReadMalformed \/ ReadInvalid \/ ReadAnswer \/ Deliver
  \/ ReadRequest \/ ReadNotification \/ Reply
  \/ HandleInitialize \/ HandleInitialized \/ HandlePing \/ HandleList \/ HandleCallTool
  \/ HandleSubscribe \/ AddSubscription \/ StartForwarder
  \/ HandleUnsubscribe \/ CancelRemoved

Caller(c) == RegisterCall(c) \/ AskClient(c) \/ ReceiveAnswer(c) \/ TimesOut(c)
             \/ LeaveCall(c) \/ TellCancelled(c)
Forwarder(i) == ForwardUpdate(i) \/ EndForward(i)

ServerNext ==
  \/ ClientSends \/ ClientCloses \/ \E c \in Calls : ClientAnswers(c)
  \/ Reader
  \/ \E c \in Calls : Caller(c)
  \/ \E i \in Watches : Forwarder(i) \/ Publish(i) \/ CloseSource(i)

ServerSpec == ServerInit /\ [][ServerNext]_serverVars

\* The goroutines run and the five seconds pass; a resource ends the stream
\* of a cancelled context.  Nothing is assumed of the client.
ServerFairSpec ==
  /\ ServerSpec /\ WF_serverVars(Reader)
  /\ \A c \in Calls : WF_serverVars(Caller(c))
  /\ \A i \in Watches : /\ WF_serverVars(Forwarder(i))
                        /\ WF_serverVars(i \in stopped /\ CloseSource(i))

-----------------------------------------------------------------------------
(* Properties *)

\* A result channel is sent to and closed by whoever took its entry out of
\* s.pending, once: no answer, timely or late, panics the server.
NoPanic == pc # "panicked"

\* A request to the client ends in one of two ways: its answer is taken, or
\* the client is told that it is cancelled; either way its entry is gone, and
\* only an answer that was taken sets the session's roots.
CallSettled ==
  /\ \A c \in Calls :
       calls[c] = "done" => c \notin pending /\ (c \in told) # (chan[c] = "taken")
  /\ session.roots \in {NoCall} \union (Calls \ told)

\* No answer, timely or late, breaks a call or the server.
ServerInv == ServerTypeOK /\ NoPanic /\ CallSettled

\* A subscription has its forwarder; a forwarder that runs without one has been
\* told to end, once the unsubscription that took it has returned.
SubscriptionsForwarded ==
  \A i \in Watches :
    /\ i \in subs => forward[i] \in {"watched", "running"}
    /\ forward[i] = "running" => i \in subs \union stopped \/ pc = "unwatch"

\* Following the cursors gives every item once and in order, whatever limits
\* the pages are asked with; the last page has no cursor.
PagesCover ==
  /\ \A k \in DOMAIN pager.got : pager.got[k] = k
  /\ pager.got # <<>> => pager.next = IF Len(pager.got) = Items THEN 0 ELSE Len(pager.got)

InWire(n) == \E k \in DOMAIN wire : wire[k].n = n /\ wire[k].kind \in RequestKinds

\* Every request is answered, unless it was dropped with a decoder that met
\* a syntax error: no handler waits for the client on the goroutine that
\* reads, and no answer of the client blocks it.
RequestsAnswered ==
  \A n \in Frames : InWire(n) ~> (answers[n] # "none" \/ n \in lost)

CallsEnd   == \A c \in Calls : calls[c] = "wait" ~> (calls[c] = "done" \/ ~Alive)
StopsAtEnd == (stream = "closed") ~> (pc = "stopped")

ForwardersEnd ==
  \A i \in Watches : (forward[i] = "running" /\ i \notin subs) ~> (forward[i] = "done" \/ ~Alive)

\* A request to the client does not wait for ever, and what it leaves behind
\* does not keep the server from ending with its input; a forwarder whose
\* subscription is gone ends.
WorkEnds == CallsEnd /\ StopsAtEnd /\ ForwardersEnd

\* TestServerStart_InvalidJSON: "Should handle invalid JSON gracefully and
\* continue".  The code drops the requests it had read together with it.
EveryRequestAnswered == \A n \in Frames : InWire(n) ~> (answers[n] # "none")
=============================================================================
