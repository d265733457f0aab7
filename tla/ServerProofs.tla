----------------------------- MODULE ServerProofs -----------------------------
(***************************************************************************)
(* Proofs about what runs concurrently in the MCP server: the calls to the *)
(* client and its messages (Server), and the requests to stage a change,   *)
(* with their batches and workers (AsyncStaging).  The two models share no *)
(* variable, and each part below is about one of them.                     *)
(*                                                                         *)
(* Server: no answer, timely or late, breaks a request to the client or    *)
(* the server; a subscription has its forwarder; following the cursors     *)
(* gives every item once.                                                  *)
(* The result channel of a call has an owner who may still use it: whoever *)
(* takes the entry out of s.pending, the reader to deliver or the caller   *)
(* to close.  While the entry is there the channel is empty.               *)
(*                                                                         *)
(* AsyncStaging: every step moves one request from one place to another:   *)
(* from its caller to the queue, from the queue to a worker, from whoever  *)
(* creates its stage to an answer.  The inductive invariant says so        *)
(* without counting, the numbers of OneOwner follow from it; the limit     *)
(* follows from what a creator adds to the rows it still had room for when *)
(* it counted.                                                             *)
(***************************************************************************)
EXTENDS Server, AsyncStaging, SequenceTheorems, FiniteSetTheorems, TLAPS

-----------------------------------------------------------------------------
(* Calls to the client, and its messages *)

ScriptKinds == RequestKinds \union NoteKinds \union OtherKinds
Messages    == [kind: ScriptKinds \union AnswerKinds, n: Nat]

\* What the client has sent, in the order in which it was sent; an answer is
\* to a call.  A session is opened by a message that was read before those
\* that are left.
WireInv ==
  /\ script \in Seq(ScriptKinds) /\ sent + Len(script) <= MaxFrames
  /\ wire \in Seq(Messages)
  /\ session.opened <= sent
  /\ \A i \in DOMAIN wire :
       IF wire[i].kind \in AnswerKinds THEN wire[i].n \in Calls
       ELSE wire[i].n \in session.opened + 1 .. sent
  /\ \A i, j \in DOMAIN wire :
       i < j /\ wire[i].kind \notin AnswerKinds /\ wire[j].kind \notin AnswerKinds
         => wire[i].n < wire[j].n

\* The message of the goroutine that reads.
CurInv ==
  /\ pc \in {"handle", "watch", "forward", "unwatch", "reply"} =>
       cur.kind \in RequestKinds /\ cur.n \in 1 .. sent
  /\ pc = "handle" =>
       /\ session.opened < cur.n
       /\ \A i \in DOMAIN wire : wire[i].kind \notin AnswerKinds => cur.n < wire[i].n
  /\ pc = "deliver" => cur.kind \in AnswerKinds /\ cur.n \in Calls

SessionType == session \in [opened : Nat, roots : Nat]

Delivering(c) == pc = "deliver" /\ cur.n = c

\* Who owns the channel of c, and what that says of the call.
CallOK(c) ==
  /\ calls[c] \in {"none", "register"} => c \notin pending /\ chan[c] = "empty"
  /\ c \in pending => chan[c] = "empty" /\ calls[c] \in {"ask", "wait", "leave"}
  /\ Delivering(c) => /\ c \notin pending /\ chan[c] = "empty"
                      /\ calls[c] \notin {"none", "register"}
  /\ chan[c] = "taken" <=> calls[c] = "done" /\ c \notin told
  /\ c \in told => calls[c] = "done"

CallInv ==
  /\ \A c \in Calls : CallOK(c)
  /\ session.roots # NoCall => session.roots \in Calls /\ chan[session.roots] = "taken"

\* Between the watch and its forwarder the goroutine that reads does nothing
\* else.
WatchInv ==
  /\ SubscriptionsForwarded
  /\ \A i \in Watches : forward[i] = "watched" =>
       pc = "watch" \/ (pc = "forward" /\ i \in subs)

\* What the client has after a page is the list as far as its cursor.
Covers(next, got) ==
  /\ next \in 0 .. Items /\ got \in Seq(1 .. Items)
  /\ \A k \in DOMAIN got : got[k] = k
  /\ got # <<>> => next = IF Len(got) = Items THEN 0 ELSE Len(got)
  /\ next # 0 => got # <<>>

PageInv == pager = [next |-> pager.next, got |-> pager.got] /\ Covers(pager.next, pager.got)

ServerInductive ==
  ServerTypeOK /\ SessionType /\ WireInv /\ CurInv /\ CallInv /\ WatchInv /\ PageInv

-----------------------------------------------------------------------------
(* The pages of tools/list *)

\* A page is where it was asked to start, ends within the list, and is not
\* empty before the end of it.
LEMMA PageShape ==
  ASSUME ServerAssumptions, NEW start \in 0 .. Items, NEW limit \in Nat
  PROVE  \E end \in start .. Items :
           /\ Page(start, limit).items = [k \in 1 .. end - start |-> start + k]
           /\ Page(start, limit).next = IF end = Items THEN 0 ELSE end
           /\ start < Items => start < end
<1> DEFINE end == IF start + PageSize(limit) > Items THEN Items ELSE start + PageSize(limit)
<1>1. Items \in Nat /\ DefaultLimit \in Nat \ {0} /\ MaxLimit \in Nat \ {0}
  BY DEF ServerAssumptions
<1>2. PageSize(limit) \in Nat /\ (Items > 0 => PageSize(limit) > 0)
  BY <1>1 DEF PageSize
<1>3. end \in start .. Items /\ (start < Items => start < end)
  BY <1>1, <1>2
<1>4. Page(start, limit) = [items |-> [k \in 1 .. end - start |-> start + k],
                           next  |-> IF end >= Items THEN 0 ELSE end]
  BY DEF Page
<1>5. (end >= Items) = (end = Items)
  BY <1>1, <1>3
<1> HIDE DEF end
<1>6. QED  BY <1>3, <1>4, <1>5

\* The client that goes on from its cursor has the list up to the page's end.
LEMMA PageFollows ==
  ASSUME ServerAssumptions, NEW next, NEW got, Covers(next, got),
         NEW limit \in Nat, NEW again \in BOOLEAN
  PROVE  LET page == Page(IF again THEN 0 ELSE next, limit)
         IN  Covers(page.next, IF again \/ next = 0 THEN page.items ELSE got \o page.items)
<1>1. Items \in Nat
  BY DEF ServerAssumptions
<1>2. next \in 0 .. Items /\ got \in Seq(1 .. Items)
  BY DEF Covers
<1>3. PICK start \in 0 .. Items : start = IF again THEN 0 ELSE next
  BY <1>1, <1>2
<1>4. PICK end \in start .. Items :
        /\ Page(start, limit).items = [k \in 1 .. end - start |-> start + k]
        /\ Page(start, limit).next = IF end = Items THEN 0 ELSE end
        /\ start < Items => start < end
  BY PageShape
<1>5. PICK items : items = [k \in 1 .. end - start |-> start + k]
  OBVIOUS
<1>6. /\ items \in Seq(1 .. Items) /\ Len(items) = end - start
      /\ DOMAIN items = 1 .. end - start
      /\ \A k \in 1 .. end - start : items[k] = start + k
  <2>1. end - start \in Nat /\ \A k \in 1 .. end - start : start + k \in 1 .. Items
    BY <1>1
  <2>2. QED  BY <1>5, <2>1
<1>7. PICK given : given = IF again \/ next = 0 THEN items ELSE got \o items
  OBVIOUS
<1>8. given \in Seq(1 .. Items) /\ Len(given) = end /\ \A k \in 1 .. end : given[k] = k
  <2>1. CASE again \/ next = 0
    <3>1. start = 0 /\ given = items
      BY <2>1, <1>3, <1>7
    <3>2. QED  BY <1>1, <3>1, <1>6
  <2>2. CASE ~(again \/ next = 0)
    <3>1. start = next /\ given = got \o items
      BY <2>2, <1>3, <1>7
    <3>2. Len(got) = start /\ \A k \in 1 .. start : got[k] = k
      BY <2>2, <1>1, <1>2, <3>1 DEF Covers
    <3>3. given \in Seq(1 .. Items) /\ Len(given) = end
      BY <1>1, <1>2, <1>6, <3>1, <3>2
    <3>4. ASSUME NEW k \in 1 .. end PROVE given[k] = k
      <4>1. given[k] = IF k <= start THEN got[k] ELSE items[k - start]
        BY <1>1, <1>2, <1>6, <3>1, <3>2
      <4>2. QED  BY <4>1, <3>2, <1>6, <1>1
    <3>5. QED  BY <1>1, <3>3, <3>4
  <2>3. QED  BY <2>1, <2>2
<1>9. Covers(IF end = Items THEN 0 ELSE end, given)
  BY <1>1, <1>8 DEF Covers
<1>10. QED  BY <1>3, <1>4, <1>5, <1>7, <1>9

LEMMA PageStep ==
  ASSUME ServerAssumptions, PageInv, [ServerNext]_serverVars
  PROVE  PageInv'
<1>1. CASE HandleList
  <2>1. CASE UNCHANGED pager
    BY <2>1 DEF PageInv
  <2>2. CASE ~UNCHANGED pager
    <3>1. PICK limit \in 0 .. Items + 1, again \in BOOLEAN :
            LET page == Page(IF again THEN 0 ELSE pager.next, limit)
            IN  pager' = [next |-> page.next,
                          got  |-> IF again \/ pager.next = 0 THEN page.items
                                   ELSE pager.got \o page.items]
      BY <1>1, <2>2 DEF HandleList
    <3>2. limit \in Nat
      BY DEF ServerAssumptions
    <3>3. PICK next, got : /\ next = pager.next /\ got = pager.got
                           /\ Covers(next, got)
      BY DEF PageInv
    <3>4. PICK page : page = Page(IF again THEN 0 ELSE next, limit)
      OBVIOUS
    <3>5. PICK given : given = IF again \/ next = 0 THEN page.items ELSE got \o page.items
      OBVIOUS
    <3>6. Covers(page.next, given)
      BY <3>2, <3>3, <3>4, <3>5, PageFollows
    <3>7. pager' = [next |-> page.next, got |-> given]
      BY <3>1, <3>3, <3>4, <3>5
    <3>8. QED  BY <3>6, <3>7 DEF PageInv
  <2>3. QED  BY <2>1, <2>2
<1>2. CASE ~HandleList
  <2>1. UNCHANGED pager
    BY <1>2 DEF serverVars, ServerNext, Reader, Caller, Forwarder, ClientSends,
       ClientCloses, Refill, ReadEnd, ReadMalformed, ReadInvalid, ReadAnswer, Deliver,
       ReadRequest, ReadNotification, Reply, HandleInitialize, HandleInitialized,
       HandlePing, HandleCallTool, HandleSubscribe, AddSubscription, StartForwarder,
       HandleUnsubscribe, CancelRemoved, ClientAnswers, RegisterCall, AskClient, ReceiveAnswer,
       TimesOut, LeaveCall, TellCancelled, ForwardUpdate, EndForward, Publish,
       CloseSource, Alive, CallAt, CallFrame, Consume, HandlerFrame, Handles, Reads,
       Returns, Spawn, WatchFrame, callVars, clientVars, inputVars, replyVars,
       watchVars
  <2>2. QED  BY <2>1 DEF PageInv
<1>3. QED  BY <1>1, <1>2

-----------------------------------------------------------------------------
(* Subscriptions *)

LEMMA WatchStep ==
  ASSUME ServerTypeOK, ServerTypeOK', WatchInv, [ServerNext]_serverVars
  PROVE  WatchInv'
<1>1. /\ forward \in [Watches -> {"none", "watched", "running", "done"}]
      /\ subs \subseteq Watches
      /\ pc' # "panicked"
  BY DEF ServerTypeOK
<1>2. CASE HandleSubscribe
  <2>1. pc = "handle" /\ UNCHANGED <<subs, stopped>>
    BY <1>2 DEF HandleSubscribe, Handles, Returns, HandlerFrame, clientVars, inputVars
  <2>2. \A i \in Watches : forward[i] # "watched"
    BY <2>1 DEF WatchInv
  <2>3. CASE UNCHANGED forward
    BY <2>1, <2>2, <2>3 DEF WatchInv, SubscriptionsForwarded
  <2>4. CASE ~UNCHANGED forward
    <3>1. PICK i \in Watches : /\ forward[i] = "none" /\ pc' = "watch"
                              /\ forward' = [forward EXCEPT ![i] = "watched"]
      BY <1>2, <2>4 DEF HandleSubscribe
    <3>2. QED  BY <1>1, <2>1, <2>2, <3>1 DEF WatchInv, SubscriptionsForwarded
  <2>5. QED  BY <2>3, <2>4
<1>3. CASE AddSubscription
  <2>1. /\ pc = "watch" /\ pc' = "forward" /\ UNCHANGED <<forward, stopped>>
        /\ subs' = subs \union {i \in Watches : forward[i] = "watched"}
    BY <1>3 DEF AddSubscription
  <2>2. QED  BY <1>1, <2>1 DEF WatchInv, SubscriptionsForwarded
<1>4. CASE StartForwarder
  <2>1. /\ pc = "forward" /\ UNCHANGED <<subs, stopped>>
        /\ forward' = [i \in Watches |-> IF forward[i] = "watched" THEN "running" ELSE forward[i]]
    BY <1>4 DEF StartForwarder
  <2>2. QED  BY <1>1, <2>1 DEF WatchInv, SubscriptionsForwarded
<1>5. CASE HandleUnsubscribe
  <2>1. pc = "handle" /\ UNCHANGED <<forward, stopped>>
    BY <1>5 DEF HandleUnsubscribe, Handles
  <2>2. UNCHANGED subs \/ (pc' = "unwatch" /\ \E gone : subs' = subs \ gone)
    BY <1>5 DEF HandleUnsubscribe
  <2>3. QED  BY <1>1, <2>1, <2>2 DEF WatchInv, SubscriptionsForwarded
<1>6. ASSUME NEW i \in Watches, EndForward(i) PROVE WatchInv'
  <2>1. /\ forward[i] = "running" /\ forward' = [forward EXCEPT ![i] = "done"]
        /\ stopped' = stopped \union {i} /\ subs' = subs \ {i} /\ UNCHANGED pc
    BY <1>6 DEF EndForward, WatchFrame
  <2>2. QED  BY <1>1, <2>1 DEF WatchInv, SubscriptionsForwarded
<1>7. CASE /\ ~(HandleSubscribe \/ AddSubscription \/ StartForwarder \/ HandleUnsubscribe)
           /\ ~CancelRemoved /\ ~\E i \in Watches : EndForward(i)
  <2>1. /\ UNCHANGED <<subs, forward, stopped>>
        /\ pc' = pc \/ pc \notin {"watch", "forward", "unwatch"}
    BY <1>1, <1>7 DEF serverVars, ServerNext, Reader, Caller, Forwarder, ClientSends,
       ClientCloses, Refill, ReadEnd, ReadMalformed, ReadInvalid, ReadAnswer, Deliver,
       ReadRequest, ReadNotification, Reply, HandleInitialize, HandleInitialized,
       HandlePing, HandleList, HandleCallTool, ClientAnswers, RegisterCall, AskClient,
       ReceiveAnswer, TimesOut, LeaveCall, TellCancelled, ForwardUpdate, Publish,
       CloseSource, Alive, CallAt, CallFrame, Consume, HandlerFrame, Handles, Reads,
       Returns, Spawn, WatchFrame, callVars, clientVars, inputVars, replyVars,
       watchVars
  <2>2. QED  BY <2>1 DEF WatchInv, SubscriptionsForwarded
<1>8. CASE CancelRemoved
  <2>1. pc = "unwatch" /\ UNCHANGED <<subs, forward>> /\ stopped \subseteq stopped'
    BY <1>8 DEF CancelRemoved
  <2>2. pc' = "unwatch" \/ \A i \in Watches : forward[i] = "running" => i \in subs \union stopped
    <3>1. Removed = {} \/ UNCHANGED pc
      BY <1>8 DEF CancelRemoved
    <3>2. QED  BY <2>1, <3>1 DEF Removed
  <2>3. QED  BY <1>1, <2>1, <2>2 DEF WatchInv, SubscriptionsForwarded
<1>9. QED  BY <1>2, <1>3, <1>4, <1>5, <1>6, <1>7, <1>8

-----------------------------------------------------------------------------
(* Requests to the client *)

CallTypes ==
  /\ calls \in [Calls -> {"none", "register", "ask", "wait", "leave", "notify", "done"}]
  /\ chan \in [Calls -> {"empty", "response", "refusal", "closed", "taken"}]
  /\ pending \subseteq Calls /\ told \subseteq Calls
  /\ session \in [opened : Nat, roots : Nat]
  /\ 0 \notin Calls /\ Calls \subseteq Nat

\* A step that leaves the calls and the session's roots alone, and delivers
\* nothing, keeps the invariant.
LEMMA SameCalls ==
  ASSUME CallInv, UNCHANGED <<calls, chan, pending, told, session>>,
         UNCHANGED <<pc, cur>> \/ pc' # "deliver"
  PROVE  CallInv'
BY DEF CallInv, CallOK, Delivering

\* handleInitialized starts a call that nobody knows of yet.
LEMMA SpawnKeepsCalls ==
  ASSUME CallTypes, CallInv, Spawn, UNCHANGED <<chan, pending, told, session>>, pc' # "deliver"
  PROVE  CallInv'
<1>1. PICK c \in Calls : calls[c] = "none" /\ calls' = [calls EXCEPT ![c] = "register"]
  BY DEF Spawn
<1>2. QED  BY <1>1 DEF CallTypes, CallInv, CallOK, Delivering

LEMMA CallerKeepsCalls ==
  ASSUME ServerTypeOK, CallTypes, CallInv, CurInv, NEW c \in Calls, Caller(c)
  PROVE  CallInv' /\ UNCHANGED cur /\ pc' = pc
<1>1. CASE RegisterCall(c)
  <2>1. /\ calls[c] = "register" /\ calls' = [calls EXCEPT ![c] = "ask"]
        /\ pending' = pending \union {c}
        /\ UNCHANGED <<chan, told, session, pc, cur>>
    BY <1>1 DEF RegisterCall, CallAt, CallFrame
  <2>2. QED  BY <2>1 DEF CallTypes, CallInv, CallOK, Delivering
<1>2. CASE AskClient(c)
  <2>1. /\ calls[c] = "ask" /\ calls' = [calls EXCEPT ![c] = "wait"]
        /\ UNCHANGED <<chan, pending, told, session, pc, cur>>
    BY <1>2 DEF AskClient, CallAt, CallFrame
  <2>2. QED  BY <2>1 DEF CallTypes, CallInv, CallOK, Delivering
<1>3. CASE ReceiveAnswer(c)
  <2>1. /\ calls[c] = "wait" /\ calls' = [calls EXCEPT ![c] = "done"]
        /\ chan[c] \in AnswerKinds /\ chan' = [chan EXCEPT ![c] = "taken"]
        /\ UNCHANGED <<pending, told, pc, cur>>
    BY <1>3 DEF ReceiveAnswer, CallAt, CallFrame
  <2>2. session' = session \/ session' = [session EXCEPT !.roots = c]
    BY <1>3 DEF ReceiveAnswer
  <2>3. \A d \in Calls : CallOK(d)'
    BY <2>1 DEF CallTypes, CallInv, CallOK, Delivering, AnswerKinds
  <2>4. session'.roots # NoCall => session'.roots \in Calls /\ chan'[session'.roots] = "taken"
    BY <2>1, <2>2 DEF CallTypes, CallInv
  <2>5. QED  BY <2>1, <2>3, <2>4 DEF CallInv
<1>4. CASE TimesOut(c)
  <2>1. /\ calls[c] = "wait" /\ calls' = [calls EXCEPT ![c] = "leave"]
        /\ UNCHANGED <<chan, pending, told, session, pc, cur>>
    BY <1>4 DEF TimesOut, CallAt, CallFrame
  <2>2. QED  BY <2>1 DEF CallTypes, CallInv, CallOK, Delivering
<1>5. CASE LeaveCall(c)
  <2>1. /\ calls[c] = "leave" /\ calls' = [calls EXCEPT ![c] = "notify"]
        /\ pending' = pending \ {c}
        /\ UNCHANGED <<told, session, cur>>
    BY <1>5 DEF LeaveCall, CallAt, CallFrame
  <2>2. IF c \in pending THEN chan' = [chan EXCEPT ![c] = "closed"] /\ UNCHANGED pc
        ELSE UNCHANGED <<chan, pc>>
    BY <1>5 DEF LeaveCall, CallInv, CallOK
  <2>3. QED  BY <2>1, <2>2 DEF CallTypes, CallInv, CallOK, Delivering
<1>6. CASE TellCancelled(c)
  <2>1. /\ calls[c] = "notify" /\ calls' = [calls EXCEPT ![c] = "done"]
        /\ told' = told \union {c}
        /\ UNCHANGED <<chan, pending, session, pc, cur>>
    BY <1>6 DEF TellCancelled, CallAt, CallFrame
  <2>2. QED  BY <2>1 DEF CallTypes, CallInv, CallOK, Delivering
<1>7. QED  BY <1>1, <1>2, <1>3, <1>4, <1>5, <1>6 DEF Caller

LEMMA CallStep ==
  ASSUME ServerAssumptions, ServerTypeOK, SessionType, CallInv, CurInv, [ServerNext]_serverVars
  PROVE  CallInv'
<1>1. CallTypes
  BY DEF CallTypes, ServerAssumptions, ServerTypeOK, SessionType
<1>2. CASE ReadAnswer
  <2>1. pc = "read" /\ UNCHANGED <<calls, chan, told, session>>
    BY <1>2 DEF ReadAnswer, Reads, Consume, clientVars, replyVars, watchVars
  <2>2. CASE Head(wire).n \in pending
    <3>1. pending' = pending \ {Head(wire).n} /\ cur' = Head(wire) /\ pc' = "deliver"
      BY <1>2, <2>2 DEF ReadAnswer
    <3>2. QED  BY <1>1, <2>1, <2>2, <3>1 DEF CallTypes, CallInv, CallOK, Delivering
  <2>3. CASE Head(wire).n \notin pending
    <3>1. UNCHANGED <<pending, cur, pc>>
      BY <1>2, <2>3 DEF ReadAnswer
    <3>2. QED  BY <2>1, <3>1, SameCalls
  <2>4. QED  BY <2>2, <2>3
<1>3. CASE Deliver
  <2>1. PICK c \in Calls : c = cur.n /\ Delivering(c) /\ cur.kind \in AnswerKinds
    BY <1>3 DEF Deliver, Delivering, CurInv
  <2>2. chan[c] = "empty"
    BY <2>1 DEF CallInv, CallOK
  <2>3. /\ pc' = "read" /\ chan' = [chan EXCEPT ![c] = cur.kind]
        /\ UNCHANGED <<calls, pending, told, session>>
    BY <1>3, <2>1, <2>2 DEF Deliver
  <2>4. QED  BY <1>1, <2>1, <2>2, <2>3 DEF CallTypes, CallInv, CallOK, Delivering, AnswerKinds
<1>4. CASE ReadNotification
  <2>1. pc = "read" /\ UNCHANGED <<pc, cur, chan, pending, told, session>>
    BY <1>4 DEF ReadNotification, Reads
  <2>2. Spawn \/ UNCHANGED calls
    BY <1>4 DEF ReadNotification
  <2>3. QED  BY <1>1, <2>1, <2>2, SameCalls, SpawnKeepsCalls
<1>5. CASE HandleInitialized
  <2>1. Spawn /\ pc' = "reply" /\ UNCHANGED <<chan, pending, told, session>>
    BY <1>5 DEF HandleInitialized, Returns, HandlerFrame
  <2>2. QED  BY <1>1, <2>1, SpawnKeepsCalls
<1>6. CASE HandleInitialize
  <2>1. pc' = "reply" /\ UNCHANGED <<calls, chan, pending, told>>
    BY <1>6 DEF HandleInitialize, Returns, HandlerFrame
  <2>2. session' = session \/ session'.roots = NoCall
    BY <1>6 DEF HandleInitialize
  <2>3. QED  BY <2>1, <2>2 DEF CallInv, CallOK, Delivering
<1>7. ASSUME NEW c \in Calls, Caller(c) PROVE CallInv'
  BY <1>1, <1>7, CallerKeepsCalls
<1>8. CASE /\ ~(ReadAnswer \/ Deliver \/ ReadNotification \/ HandleInitialized \/ HandleInitialize)
           /\ ~\E c \in Calls : Caller(c)
  <2>1. /\ UNCHANGED <<calls, chan, pending, told, session>>
        /\ UNCHANGED <<pc, cur>> \/ pc' # "deliver"
    BY <1>8 DEF serverVars, ServerNext, Reader, Forwarder, ClientSends, ClientCloses,
       Refill, ReadEnd, ReadMalformed, ReadInvalid, ReadRequest, Reply, HandlePing,
       HandleList, HandleCallTool, HandleSubscribe, AddSubscription, StartForwarder,
       HandleUnsubscribe, CancelRemoved, ClientAnswers, ForwardUpdate, EndForward, Publish,
       CloseSource, Alive, Consume, HandlerFrame, Handles, Reads, Returns, WatchFrame,
       callVars, clientVars, inputVars, replyVars, watchVars
  <2>2. QED  BY <2>1, SameCalls
<1>9. QED  BY <1>2, <1>3, <1>4, <1>5, <1>6, <1>7, <1>8

-----------------------------------------------------------------------------
(* The input *)

\* What is left of the input when the front of it is gone is as it was.
LEMMA WireSuffix ==
  ASSUME WireInv, NEW m \in 1 .. Len(wire) + 1, wire' = SubSeq(wire, m, Len(wire)),
         UNCHANGED <<script, sent, session>>
  PROVE  /\ WireInv' /\ Len(wire') = Len(wire) - m + 1
         /\ \A i \in DOMAIN wire' : i + m - 1 \in DOMAIN wire /\ wire'[i] = wire[i + m - 1]
<1>1. wire \in Seq(Messages)
  BY DEF WireInv
<1>2. PICK rest : rest = SubSeq(wire, m, Len(wire))
  OBVIOUS
<1>3. /\ rest \in Seq(Messages) /\ Len(rest) = Len(wire) - m + 1
      /\ \A i \in 1 .. Len(rest) : i + m - 1 \in 1 .. Len(wire) /\ rest[i] = wire[i + m - 1]
  BY <1>1, <1>2
<1>4. wire' = rest
  BY <1>2
<1>5. /\ \A i \in 1 .. Len(rest) :
           IF rest[i].kind \in AnswerKinds THEN rest[i].n \in Calls
           ELSE rest[i].n \in session.opened + 1 .. sent
      /\ \A i, j \in 1 .. Len(rest) :
           i < j /\ rest[i].kind \notin AnswerKinds /\ rest[j].kind \notin AnswerKinds
             => rest[i].n < rest[j].n
  <2>1. ASSUME NEW i \in 1 .. Len(rest)
        PROVE  IF rest[i].kind \in AnswerKinds THEN rest[i].n \in Calls
               ELSE rest[i].n \in session.opened + 1 .. sent
    BY <1>1, <1>3 DEF WireInv
  <2>2. ASSUME NEW i \in 1 .. Len(rest), NEW j \in 1 .. Len(rest), i < j,
               rest[i].kind \notin AnswerKinds, rest[j].kind \notin AnswerKinds
        PROVE  rest[i].n < rest[j].n
    <3>1. PICK k \in 1 .. Len(wire), l \in 1 .. Len(wire) :
            k < l /\ rest[i] = wire[k] /\ rest[j] = wire[l]
      <4>1. i + m - 1 < j + m - 1
        BY <1>1, <1>3, <2>2
      <4>2. QED  BY <1>3, <4>1
    <3>2. k \in DOMAIN wire /\ l \in DOMAIN wire
      BY <1>1
    <3>3. QED  BY <3>1, <3>2, <2>2 DEF WireInv
  <2>3. QED  BY <2>1, <2>2
<1>6. DOMAIN rest = 1 .. Len(rest) /\ DOMAIN wire = 1 .. Len(wire)
  BY <1>1, <1>3
<1>7. WireInv'
  BY <1>3, <1>4, <1>5, <1>6 DEF WireInv
<1>8. QED  BY <1>3, <1>4, <1>6, <1>7

LEMMA ConsumeIsSuffix ==
  ASSUME ServerTypeOK, WireInv, held > 0, Consume
  PROVE  /\ wire # <<>> /\ Head(wire) = wire[1] /\ 1 \in DOMAIN wire
         /\ 2 \in 1 .. Len(wire) + 1 /\ wire' = SubSeq(wire, 2, Len(wire))
         /\ held' \in 0 .. Len(wire) - 1
<1>1. wire \in Seq(Messages) /\ held \in 0 .. Len(wire)
  BY DEF ServerTypeOK, WireInv
<1>2. QED  BY <1>1, TailIsSubSeq DEF Consume

\* A message the reader has consumed was one of the client's, before those
\* that are left.
LEMMA ReadKeepsInput ==
  ASSUME ServerTypeOK, WireInv, CurInv,
         ReadInvalid \/ ReadAnswer \/ ReadRequest \/ ReadNotification
  PROVE  WireInv' /\ CurInv'
<1>1. held > 0 /\ Consume /\ UNCHANGED <<script, sent, session>>
  BY DEF ReadInvalid, ReadAnswer, ReadRequest, ReadNotification, Reads, clientVars
<1>2. /\ Head(wire) = wire[1] /\ 1 \in DOMAIN wire
      /\ 2 \in 1 .. Len(wire) + 1 /\ wire' = SubSeq(wire, 2, Len(wire))
  BY <1>1, ConsumeIsSuffix
<1>3. /\ WireInv'
      /\ \A i \in DOMAIN wire' : i + 2 - 1 \in DOMAIN wire /\ wire'[i] = wire[i + 2 - 1]
  BY <1>1, <1>2, WireSuffix
<1>4. CASE ReadInvalid \/ ReadNotification
  <2>1. pc' = "read"
    BY <1>4 DEF ReadInvalid, ReadNotification, Reads
  <2>2. QED  BY <2>1, <1>3 DEF CurInv
<1>5. CASE ReadAnswer
  <2>1. pc = "read" /\ wire[1].kind \in AnswerKinds
    BY <1>2, <1>5 DEF ReadAnswer, Reads
  <2>2. \/ pc' = "read"
        \/ pc' = "deliver" /\ cur' = wire[1] /\ wire[1].n \in pending
    BY <1>2, <1>5, <2>1 DEF ReadAnswer
  <2>3. pending \subseteq Calls
    BY DEF ServerTypeOK
  <2>4. QED  BY <1>3, <2>1, <2>2, <2>3 DEF CurInv
<1>6. CASE ReadRequest
  <2>1. wire[1].kind \in RequestKinds /\ cur' = wire[1] /\ pc' \in {"handle", "reply"}
    BY <1>2, <1>6 DEF ReadRequest, Reads
  <2>2. wire[1].kind \notin AnswerKinds
    BY <2>1 DEF RequestKinds, AnswerKinds
  <2>3. wire[1].n \in session.opened + 1 .. sent /\ wire \in Seq(Messages)
    BY <1>2, <2>2 DEF WireInv
  <2>4. session.opened \in Nat /\ sent \in Nat
    BY DEF ServerTypeOK
  <2>5. session.opened < wire[1].n /\ wire[1].n \in 1 .. sent
    BY <2>3, <2>4
  <2>6. ASSUME NEW i \in DOMAIN wire', wire'[i].kind \notin AnswerKinds
        PROVE  wire[1].n < wire'[i].n
    <3>1. i \in Nat \ {0}
      BY <1>3 DEF WireInv
    <3>2. i + 1 \in DOMAIN wire /\ wire'[i] = wire[i + 1] /\ 1 < i + 1
      BY <1>3, <3>1
    <3>3. QED  BY <1>2, <2>2, <2>6, <3>2 DEF WireInv
  <2>7. QED  BY <1>1, <1>3, <2>1, <2>5, <2>6 DEF CurInv
<1>7. QED  BY <1>4, <1>5, <1>6

LEMMA TailShortens ==
  ASSUME NEW S, NEW s \in Seq(S), NEW n \in Nat, NEW max \in Nat, n + Len(s) <= max, s # <<>>
  PROVE  Tail(s) \in Seq(S) /\ n + 1 + Len(Tail(s)) <= max
<1>1. Tail(s) \in Seq(S) /\ Len(Tail(s)) = Len(s) - 1 /\ Len(s) \in Nat
  BY HeadTailProperties
<1>2. QED  BY <1>1

\* What the client sends is last: a request after all it has sent, or an
\* answer.
LEMMA SendKeepsInput ==
  ASSUME ServerAssumptions, ServerTypeOK, WireInv, CurInv, NEW m \in Messages, wire' = Append(wire, m),
         UNCHANGED <<pc, cur, session>>,
         \/ m.kind \in AnswerKinds /\ m.n \in Calls /\ UNCHANGED <<script, sent>>
         \/ /\ m.kind \notin AnswerKinds /\ m.n = sent + 1
            /\ script # <<>> /\ script' = Tail(script) /\ sent' = sent + 1
  PROVE  WireInv' /\ CurInv'
<1>1. wire \in Seq(Messages) /\ session.opened \in Nat /\ sent \in Nat
  BY DEF WireInv, ServerTypeOK
<1>2. PICK more : more = Append(wire, m)
  OBVIOUS
<1>3. /\ more \in Seq(Messages) /\ Len(more) = Len(wire) + 1
      /\ \A i \in 1 .. Len(more) : more[i] = IF i <= Len(wire) THEN wire[i] ELSE m
  BY <1>1, <1>2
<1>4. /\ script' \in Seq(ScriptKinds) /\ sent' + Len(script') <= MaxFrames
      /\ sent' \in {sent, sent + 1}
  <2>1. script \in Seq(ScriptKinds) /\ sent + Len(script) <= MaxFrames /\ MaxFrames \in Nat
    BY DEF WireInv, ServerAssumptions
  <2>2. CASE script' = script /\ sent' = sent
    BY <2>1, <2>2
  <2>3. CASE script # <<>> /\ script' = Tail(script) /\ sent' = sent + 1
    BY <1>1, <2>1, <2>3, TailShortens
  <2>4. QED  BY <2>2, <2>3
<1>5. \A i \in 1 .. Len(more) :
        IF more[i].kind \in AnswerKinds THEN more[i].n \in Calls
        ELSE more[i].n \in session.opened + 1 .. sent'
  <2>1. ASSUME NEW i \in 1 .. Len(more), i <= Len(wire)
        PROVE  IF more[i].kind \in AnswerKinds THEN more[i].n \in Calls
               ELSE more[i].n \in session.opened + 1 .. sent'
    <3>1. i \in DOMAIN wire /\ more[i] = wire[i]
      BY <1>1, <1>3, <2>1
    <3>2. IF wire[i].kind \in AnswerKinds THEN wire[i].n \in Calls
          ELSE wire[i].n \in session.opened + 1 .. sent
      BY <3>1 DEF WireInv
    <3>3. QED  BY <1>1, <1>4, <3>1, <3>2
  <2>2. session.opened <= sent
    BY DEF WireInv
  <2>3. ASSUME NEW i \in 1 .. Len(more), i > Len(wire)
        PROVE  IF more[i].kind \in AnswerKinds THEN more[i].n \in Calls
               ELSE more[i].n \in session.opened + 1 .. sent'
    <3>1. more[i] = m
      BY <1>1, <1>3, <2>3
    <3>2. m.kind \in AnswerKinds => m.n \in Calls
      OBVIOUS
    <3>3. m.kind \notin AnswerKinds => m.n = sent + 1 /\ sent' = sent + 1
      OBVIOUS
    <3>4. QED  BY <1>1, <2>2, <3>1, <3>2, <3>3
  <2>4. QED  BY <1>1, <1>3, <2>1, <2>3
<1>6. \A i, j \in 1 .. Len(more) :
        i < j /\ more[i].kind \notin AnswerKinds /\ more[j].kind \notin AnswerKinds
          => more[i].n < more[j].n
  <2>1. ASSUME NEW i \in 1 .. Len(more), NEW j \in 1 .. Len(more), i < j,
               more[i].kind \notin AnswerKinds, more[j].kind \notin AnswerKinds
        PROVE  more[i].n < more[j].n
    <3>1. i \in DOMAIN wire /\ more[i] = wire[i]
      BY <1>1, <1>3, <2>1
    <3>2. CASE j <= Len(wire)
      <4>1. j \in DOMAIN wire /\ more[j] = wire[j]
        BY <1>1, <1>3, <3>2
      <4>2. QED  BY <2>1, <3>1, <4>1 DEF WireInv
    <3>3. CASE j > Len(wire)
      <4>1. more[j] = m
        BY <1>1, <1>3, <3>3
      <4>2. m.n = sent + 1
        BY <2>1, <4>1
      <4>3. wire[i].n \in session.opened + 1 .. sent
        BY <2>1, <3>1 DEF WireInv
      <4>4. QED  BY <1>1, <3>1, <4>1, <4>2, <4>3
    <3>4. QED  BY <1>1, <3>2, <3>3
  <2>2. QED  BY <2>1
<1>7. wire' = more
  BY <1>2
<1>8. WireInv'
  <2>1. DOMAIN more = 1 .. Len(more)
    BY <1>3
  <2>2. session.opened <= sent'
    BY <1>1, <1>4 DEF WireInv
  <2>3. QED  BY <1>3, <1>4, <1>5, <1>6, <1>7, <2>1, <2>2 DEF WireInv
<1>9. CurInv'
  <2>1. ASSUME pc = "handle", NEW i \in 1 .. Len(more), more[i].kind \notin AnswerKinds
        PROVE  cur.n < more[i].n
    BY <1>1, <1>3, <2>1 DEF CurInv
  <2>2. QED  BY <1>1, <1>3, <1>4, <1>7, <2>1 DEF CurInv
<1>10. QED  BY <1>8, <1>9

LEMMA InputStep ==
  ASSUME ServerAssumptions, ServerTypeOK, SessionType, WireInv, CurInv, [ServerNext]_serverVars
  PROVE  WireInv' /\ CurInv'
<1>1. CASE ClientSends
  <2>1. script \in Seq(ScriptKinds) /\ script # <<>> /\ sent \in Nat
    BY <1>1 DEF ClientSends, WireInv, ServerTypeOK
  <2>2. Head(script) \in ScriptKinds
    BY <2>1, HeadTailProperties
  <2>3. PICK kind \in ScriptKinds, n \in Nat : kind = Head(script) /\ n = sent + 1
    BY <2>1, <2>2
  <2>. PICK m \in Messages : m = [kind |-> kind, n |-> n]
    BY DEF Messages
  <2>4. m.kind \notin AnswerKinds /\ m.n = sent + 1
    BY <2>2, <2>3 DEF ScriptKinds, RequestKinds, NoteKinds, OtherKinds, AnswerKinds
  <2>5. /\ wire' = Append(wire, m) /\ script' = Tail(script) /\ sent' = sent + 1
        /\ UNCHANGED <<pc, cur, session>>
    BY <1>1, <2>3 DEF ClientSends
  <2>6. QED  BY <2>1, <2>4, <2>5, SendKeepsInput
<1>2. ASSUME NEW c \in Calls, ClientAnswers(c) PROVE WireInv' /\ CurInv'
  <2>1. PICK k \in AnswerKinds : wire' = Append(wire, [kind |-> k, n |-> c])
    BY <1>2 DEF ClientAnswers
  <2>2. c \in Nat
    BY DEF ServerAssumptions
  <2>3. PICK m \in Messages : m = [kind |-> k, n |-> c]
    BY <2>2 DEF Messages
  <2>4. m.kind \in AnswerKinds /\ m.n \in Calls
    BY <2>3
  <2>5. wire' = Append(wire, m) /\ UNCHANGED <<script, sent, pc, cur, session>>
    BY <1>2, <2>1, <2>3 DEF ClientAnswers, clientVars
  <2>6. QED  BY <2>4, <2>5, SendKeepsInput
<1>3. CASE ReadInvalid \/ ReadAnswer \/ ReadRequest \/ ReadNotification
  BY <1>3, ReadKeepsInput
<1>4. CASE ReadMalformed
  <2>1. /\ pc = "read" /\ pc' = "read" /\ wire' = SubSeq(wire, held + 1, Len(wire))
        /\ UNCHANGED <<script, sent, session>>
    BY <1>4 DEF ReadMalformed, Reads, clientVars
  <2>2. held + 1 \in 1 .. Len(wire) + 1
    BY DEF ServerTypeOK, WireInv
  <2>3. WireInv'
    BY <2>1, <2>2, WireSuffix
  <2>4. QED  BY <2>1, <2>3 DEF CurInv
<1>5. CASE HandleInitialize
  <2>1. /\ pc = "handle" /\ pc' = "reply" /\ UNCHANGED <<script, sent, wire, cur>>
        /\ session' = session \/ session' = [opened |-> session.opened + 1, roots |-> NoCall]
    BY <1>5 DEF HandleInitialize, Handles, Returns, HandlerFrame, clientVars, inputVars
  <2>2. session'.opened \in {session.opened, session.opened + 1}
    BY <2>1
  <2>3. /\ session.opened < cur.n /\ cur.n \in 1 .. sent /\ sent \in Nat
        /\ \A i \in DOMAIN wire : wire[i].kind \notin AnswerKinds => cur.n < wire[i].n
    BY <2>1 DEF CurInv, ServerTypeOK
  <2>4. session.opened \in Nat
    BY DEF ServerTypeOK
  <2>5. ASSUME NEW i \in DOMAIN wire, wire[i].kind \notin AnswerKinds
        PROVE  wire[i].n \in session'.opened + 1 .. sent
    <3>1. wire[i].n \in session.opened + 1 .. sent /\ cur.n < wire[i].n
      BY <2>3, <2>5 DEF WireInv
    <3>2. QED  BY <2>2, <2>3, <2>4, <3>1
  <2>6. session'.opened <= sent
    BY <2>2, <2>3, <2>4
  <2>7. WireInv'
    BY <2>1, <2>5, <2>6 DEF WireInv
  <2>8. QED  BY <2>1, <2>7 DEF CurInv
<1>6. CASE /\ ~(\/ ClientSends \/ ReadInvalid \/ ReadAnswer \/ ReadRequest \/ ReadNotification
                \/ ReadMalformed \/ HandleInitialize)
           /\ ~\E c \in Calls : ClientAnswers(c)
  <2>1. /\ UNCHANGED <<script, sent, wire, cur>>
        /\ \/ pc' = pc
           \/ /\ pc' \in {"watch", "forward", "unwatch", "reply"}
              /\ pc \in {"handle", "watch", "forward", "unwatch"}
           \/ pc' \in {"read", "spin", "stopped", "panicked"}
        /\ session' = session \/ \E c \in Calls : session' = [session EXCEPT !.roots = c]
    BY <1>6 DEF serverVars, ServerNext, Reader, Caller, Forwarder, ClientCloses,
       Refill, ReadEnd, Deliver, Reply, HandleInitialized, HandlePing, HandleList,
       HandleCallTool, HandleSubscribe, AddSubscription, StartForwarder,
       HandleUnsubscribe, CancelRemoved, RegisterCall, AskClient, ReceiveAnswer, TimesOut, LeaveCall,
       TellCancelled, ForwardUpdate, EndForward, Publish, CloseSource, Alive, CallAt,
       CallFrame, HandlerFrame, Handles, Returns, Spawn, WatchFrame, callVars,
       clientVars, inputVars, replyVars, watchVars
  <2>2. session'.opened = session.opened
    BY <2>1 DEF SessionType
  <2>3. WireInv'
    BY <2>1, <2>2 DEF WireInv
  <2>4. QED  BY <2>1, <2>2, <2>3 DEF CurInv
<1>7. QED  BY <1>1, <1>2, <1>3, <1>4, <1>5, <1>6

-----------------------------------------------------------------------------
(* Types *)

LEMMA SessionStep ==
  ASSUME ServerAssumptions, SessionType, [ServerNext]_serverVars
  PROVE  SessionType'
<1>1. \/ session' = session \/ \E c \in Calls : session' = [session EXCEPT !.roots = c]
      \/ session' = [opened |-> session.opened + 1, roots |-> NoCall]
  BY DEF serverVars, ServerNext, Reader, Caller, Forwarder, ClientSends, ClientCloses,
     Refill, ReadEnd, ReadMalformed, ReadInvalid, ReadAnswer, Deliver, ReadRequest,
     ReadNotification, Reply, HandleInitialize, HandleInitialized, HandlePing,
     HandleList, HandleCallTool, HandleSubscribe, AddSubscription, StartForwarder,
     HandleUnsubscribe, CancelRemoved, ClientAnswers, RegisterCall, AskClient, ReceiveAnswer,
     TimesOut, LeaveCall, TellCancelled, ForwardUpdate, EndForward, Publish,
     CloseSource, Alive, CallAt, CallFrame, Consume, HandlerFrame, Handles, Reads,
     Returns, Spawn, WatchFrame, callVars, clientVars, inputVars, replyVars, watchVars
<1>2. Calls \subseteq Nat
  BY DEF ServerAssumptions
<1>3. QED  BY <1>1, <1>2 DEF SessionType, NoCall

LEMMA TypeStep ==
  ASSUME ServerAssumptions, ServerTypeOK, SessionType, WireInv, CurInv, CallInv,
         SessionType', WireInv', CallInv', PageInv', [ServerNext]_serverVars
  PROVE  ServerTypeOK'
<1>1. sent' \in 0 .. MaxFrames
  <2>1. sent \in Nat
    BY DEF ServerTypeOK
  <2>2. sent' \in {sent, sent + 1}
    BY DEF serverVars, ServerNext, Reader, Caller, Forwarder, ClientSends,
       ClientCloses, Refill, ReadEnd, ReadMalformed, ReadInvalid, ReadAnswer, Deliver,
       ReadRequest, ReadNotification, Reply, HandleInitialize, HandleInitialized,
       HandlePing, HandleList, HandleCallTool, HandleSubscribe, AddSubscription,
       StartForwarder, HandleUnsubscribe, CancelRemoved, ClientAnswers, RegisterCall, AskClient,
       ReceiveAnswer, TimesOut, LeaveCall, TellCancelled, ForwardUpdate, EndForward,
       Publish, CloseSource, Alive, CallAt, CallFrame, Consume, HandlerFrame, Handles,
       Reads, Returns, Spawn, WatchFrame, callVars, clientVars, inputVars, replyVars,
       watchVars
  <2>3. script' \in Seq(ScriptKinds) /\ sent' + Len(script') <= MaxFrames /\ MaxFrames \in Nat
    BY DEF WireInv, ServerAssumptions
  <2>4. Len(script') \in Nat
    BY <2>3
  <2>5. QED  BY <2>1, <2>2, <2>3, <2>4
<1>2. session'.opened \in 0 .. MaxFrames /\ session'.roots \in Calls \union {NoCall}
  BY <1>1 DEF SessionType, WireInv, CallInv, ServerAssumptions
<1>3. pager'.next \in 0 .. Items /\ pager'.got \in Seq(1 .. Items)
  BY DEF PageInv, Covers
<1>4. /\ stream' \in {"open", "closed", "cut"} /\ status' \in {"none", "result", "error"}
      /\ progress' \in {"none", "queued", "completed", "cancelled", "failed"}
      /\ answers' \in [Frames -> {"none", "result", "error"}]
      /\ calls' \in [Calls -> {"none", "register", "ask", "wait", "leave", "notify", "done"}]
      /\ pending' \subseteq Calls /\ asked' \subseteq Calls /\ told' \subseteq Calls
      /\ subs' \subseteq Watches /\ stopped' \subseteq Watches
      /\ forward' \in [Watches -> {"none", "watched", "running", "done"}]
      /\ \/ source' = source
         \/ \E i \in Watches : \/ source' = [source EXCEPT ![i].updates = 0]
                              \/ source' = [source EXCEPT ![i].updates = 1]
                              \/ source' = [source EXCEPT ![i].open = FALSE]
  <2> USE DEF ServerTypeOK
  <2> USE DEF serverVars, ServerNext, Reader, Caller, Forwarder, ClientSends,
     ClientCloses, Refill, ReadEnd, ReadMalformed, ReadInvalid, ReadAnswer, Deliver,
     ReadRequest, ReadNotification, Reply, HandleInitialize, HandleInitialized,
     HandlePing, HandleList, HandleCallTool, HandleSubscribe, AddSubscription,
     StartForwarder, HandleUnsubscribe, CancelRemoved, ClientAnswers, RegisterCall, AskClient,
     ReceiveAnswer, TimesOut, LeaveCall, TellCancelled, ForwardUpdate, EndForward,
     Publish, CloseSource, Alive, CallAt, CallFrame, Consume, HandlerFrame, Handles,
     Reads, Returns, Spawn, WatchFrame, callVars, clientVars, inputVars, replyVars,
     watchVars
  <2>1. stream' \in {"open", "closed", "cut"} /\ status' \in {"none", "result", "error"}
    OBVIOUS
  <2>2. progress' \in {"none", "queued", "completed", "cancelled", "failed"}
    OBVIOUS
  <2>3. answers' \in [Frames -> {"none", "result", "error"}]
    OBVIOUS
  <2>4. calls' \in [Calls -> {"none", "register", "ask", "wait", "leave", "notify", "done"}]
    OBVIOUS
  <2>5. pending' \subseteq Calls /\ asked' \subseteq Calls /\ told' \subseteq Calls
    OBVIOUS
  <2>6. subs' \subseteq Watches /\ stopped' \subseteq Watches
    BY DEF Removed
  <2>7. forward' \in [Watches -> {"none", "watched", "running", "done"}]
    OBVIOUS
  <2>8. \/ source' = source
        \/ \E i \in Watches : \/ source' = [source EXCEPT ![i].updates = 0]
                             \/ source' = [source EXCEPT ![i].updates = 1]
                             \/ source' = [source EXCEPT ![i].open = FALSE]
    OBVIOUS
  <2>9. QED  BY <2>1, <2>2, <2>3, <2>4, <2>5, <2>6, <2>7, <2>8
<1>5. source' \in [Watches -> [open : BOOLEAN, updates : 0 .. 1]]
  <2>1. source \in [Watches -> [open : BOOLEAN, updates : 0 .. 1]]
    BY DEF ServerTypeOK
  <2>2. ASSUME NEW s \in [open : BOOLEAN, updates : 0 .. 1]
        PROVE  /\ [s EXCEPT !.updates = 0] \in [open : BOOLEAN, updates : 0 .. 1]
               /\ [s EXCEPT !.updates = 1] \in [open : BOOLEAN, updates : 0 .. 1]
               /\ [s EXCEPT !.open = FALSE] \in [open : BOOLEAN, updates : 0 .. 1]
    <3>1. [s EXCEPT !.updates = 0] \in [open : BOOLEAN, updates : 0 .. 1]
      OBVIOUS
    <3>2. [s EXCEPT !.updates = 1] \in [open : BOOLEAN, updates : 0 .. 1]
      OBVIOUS
    <3>3. [s EXCEPT !.open = FALSE] \in [open : BOOLEAN, updates : 0 .. 1]
      OBVIOUS
    <3>4. QED  BY <3>1, <3>2, <3>3
  <2>3. ASSUME NEW i \in Watches
        PROVE  /\ [source[i] EXCEPT !.updates = 0] \in [open : BOOLEAN, updates : 0 .. 1]
               /\ [source[i] EXCEPT !.updates = 1] \in [open : BOOLEAN, updates : 0 .. 1]
               /\ [source[i] EXCEPT !.open = FALSE] \in [open : BOOLEAN, updates : 0 .. 1]
    BY <2>1, <2>2, Zenon
  <2>4. source' = source \/ \E i \in Watches, s \in [open : BOOLEAN, updates : 0 .. 1] :
                               source' = [source EXCEPT ![i] = s]
    BY <1>4, <2>3, Zenon
  <2>5. QED  BY <2>1, <2>4
<1>6. held' \in 0 .. Len(wire')
  <2>1. wire \in Seq(Messages) /\ wire' \in Seq(Messages) /\ held \in 0 .. Len(wire)
    BY DEF WireInv, ServerTypeOK
  <2>2. CASE ReadInvalid \/ ReadAnswer \/ ReadRequest \/ ReadNotification
    <3>1. held > 0 /\ Consume
      BY <2>2 DEF ReadInvalid, ReadAnswer, ReadRequest, ReadNotification, Reads
    <3>2. wire # <<>> /\ wire' = Tail(wire) /\ held' \in 0 .. Len(wire) - 1
      BY <3>1, ConsumeIsSuffix DEF Consume
    <3>3. Len(Tail(wire)) = Len(wire) - 1
      BY <2>1, <3>2, HeadTailProperties
    <3>4. QED  BY <3>2, <3>3
  <2>3. CASE ReadMalformed
    BY <2>1, <2>3 DEF ReadMalformed
  <2>4. CASE Refill
    BY <2>1, <2>4 DEF Refill
  <2>5. ASSUME NEW m, wire' = Append(wire, m), held' = held PROVE held' \in 0 .. Len(wire')
    <3>1. Len(wire') = Len(wire) + 1
      BY <2>1, <2>5
    <3>2. QED  BY <2>1, <2>5, <3>1
  <2>6. CASE ClientSends \/ \E c \in Calls : ClientAnswers(c)
    BY <2>5, <2>6 DEF ClientSends, ClientAnswers
  <2>7. CASE /\ ~(ReadInvalid \/ ReadAnswer \/ ReadRequest \/ ReadNotification \/ ReadMalformed)
             /\ ~(Refill \/ ClientSends \/ \E c \in Calls : ClientAnswers(c))
    <3>1. UNCHANGED <<wire, held>>
      BY <2>7 DEF serverVars, ServerNext, Reader, Caller, Forwarder, ClientCloses,
         ReadEnd, Deliver, Reply, HandleInitialize, HandleInitialized, HandlePing,
         HandleList, HandleCallTool, HandleSubscribe, AddSubscription, StartForwarder,
         HandleUnsubscribe, CancelRemoved, RegisterCall, AskClient, ReceiveAnswer, TimesOut,
         LeaveCall, TellCancelled, ForwardUpdate, EndForward, Publish, CloseSource,
         Alive, CallAt, CallFrame, HandlerFrame, Handles, Returns, Spawn, WatchFrame,
         callVars, clientVars, inputVars, replyVars, watchVars
    <3>2. QED  BY <2>1, <3>1
  <2>8. QED  BY <2>2, <2>3, <2>4, <2>6, <2>7
<1>7. /\ chan' \in [Calls -> {"empty", "response", "refusal", "closed", "taken"}]
      /\ pc' \in {"read", "handle", "watch", "forward", "unwatch", "reply", "deliver", "spin", "stopped"}
  <2>1. /\ chan \in [Calls -> {"empty", "response", "refusal", "closed", "taken"}]
        /\ pc \in {"read", "handle", "watch", "forward", "unwatch", "reply", "deliver", "spin", "stopped"}
    BY DEF ServerTypeOK
  <2>2. CASE Deliver
    <3>1. cur.n \in Calls /\ Delivering(cur.n) /\ cur.kind \in AnswerKinds
      BY <2>2 DEF Deliver, Delivering, CurInv
    <3>2. chan[cur.n] = "empty"
      BY <3>1 DEF CallInv, CallOK
    <3>3. pc' = "read" /\ chan' = [chan EXCEPT ![cur.n] = cur.kind]
      BY <2>2, <3>2 DEF Deliver
    <3>4. QED  BY <2>1, <3>1, <3>3 DEF AnswerKinds
  <2>3. ASSUME NEW c \in Calls, Caller(c)
        PROVE  /\ chan' \in [Calls -> {"empty", "response", "refusal", "closed", "taken"}]
               /\ pc' = pc
    <3>1. CallTypes
      BY DEF CallTypes, ServerAssumptions, ServerTypeOK, SessionType
    <3>2. \/ chan' = chan \/ chan' = [chan EXCEPT ![c] = "taken"]
          \/ chan' = [chan EXCEPT ![c] = "closed"]
      BY <2>3 DEF Caller, RegisterCall, AskClient, ReceiveAnswer, TimesOut, LeaveCall, TellCancelled
    <3>3. QED  BY <2>1, <2>3, <3>1, <3>2, CallerKeepsCalls
  <2>4. CASE ~Deliver /\ ~\E c \in Calls : Caller(c)
    <3>1. chan' = chan
      BY <2>4 DEF serverVars, ServerNext, Reader, Forwarder, ClientSends, ClientCloses,
         Refill, ReadEnd, ReadMalformed, ReadInvalid, ReadAnswer, ReadRequest,
         ReadNotification, Reply, HandleInitialize, HandleInitialized, HandlePing,
         HandleList, HandleCallTool, HandleSubscribe, AddSubscription, StartForwarder,
         HandleUnsubscribe, CancelRemoved, ClientAnswers, ForwardUpdate, EndForward, Publish,
         CloseSource, Alive, Consume, HandlerFrame, Handles, Reads, Returns, Spawn,
         WatchFrame, callVars, clientVars, inputVars, replyVars, watchVars
    <3>2. \/ pc' = pc
          \/ pc' \in {"read", "handle", "watch", "forward", "unwatch", "reply", "deliver", "spin", "stopped"}
      BY <2>4 DEF serverVars, ServerNext, Reader, Forwarder, ClientSends, ClientCloses,
         Refill, ReadEnd, ReadMalformed, ReadInvalid, ReadAnswer, ReadRequest,
         ReadNotification, Reply, HandleInitialize, HandleInitialized, HandlePing,
         HandleList, HandleCallTool, HandleSubscribe, AddSubscription, StartForwarder,
         HandleUnsubscribe, CancelRemoved, ClientAnswers, ForwardUpdate, EndForward, Publish,
         CloseSource, Alive, Consume, HandlerFrame, Handles, Reads, Returns, Spawn,
         WatchFrame, callVars, clientVars, inputVars, replyVars, watchVars
    <3>3. QED  BY <2>1, <3>1, <3>2
  <2>5. QED  BY <2>1, <2>2, <2>3, <2>4
<1>8. lost' \subseteq Frames /\ inflight' \subseteq 0 .. MaxFrames
  <2>1. lost \subseteq Frames /\ inflight \subseteq 0 .. MaxFrames /\ MaxFrames \in Nat
    BY DEF ServerTypeOK, ServerAssumptions
  <2>2. ASSUME NEW i \in DOMAIN wire, wire[i].kind \in RequestKinds PROVE wire[i].n \in Frames
    <3>1. wire[i].n \in session.opened + 1 .. sent
      BY <2>2 DEF WireInv, RequestKinds, AnswerKinds
    <3>2. QED  BY <2>1, <3>1 DEF ServerTypeOK, Frames
  <2>3. CASE ReadMalformed
    <3>1. /\ lost' = lost \union {wire[i].n : i \in {j \in 2 .. held : wire[j].kind \in RequestKinds}}
          /\ inflight' = inflight
      BY <2>3 DEF ReadMalformed
    <3>2. 2 .. held \subseteq DOMAIN wire
      BY DEF ServerTypeOK, WireInv
    <3>3. QED  BY <2>1, <2>2, <3>1, <3>2
  <2>4. CASE ReadRequest
    <3>1. held > 0 /\ Consume /\ Head(wire).kind \in RequestKinds /\ lost' = lost
      BY <2>4 DEF ReadRequest, Reads
    <3>2. PICK n \in Frames : n = Head(wire).n
      BY <2>2, <3>1, ConsumeIsSuffix
    <3>3. \/ inflight' = inflight \/ inflight' = inflight \union {n}
          \/ inflight' = inflight \union {n, 0}
      BY <2>4, <3>2 DEF ReadRequest
    <3>4. n \in 0 .. MaxFrames /\ 0 \in 0 .. MaxFrames
      BY <2>1 DEF Frames
    <3>5. inflight' \subseteq 0 .. MaxFrames
      BY <2>1, <3>3, <3>4
    <3>6. QED  BY <2>1, <3>1, <3>5
  <2>5. CASE ~ReadMalformed /\ ~ReadRequest
    <3>1. lost' = lost
      BY <2>5 DEF serverVars, ServerNext, Reader, Caller, Forwarder, ClientSends,
         ClientCloses, Refill, ReadEnd, ReadInvalid, ReadAnswer, Deliver,
         ReadNotification, Reply, HandleInitialize, HandleInitialized, HandlePing,
         HandleList, HandleCallTool, HandleSubscribe, AddSubscription, StartForwarder,
         HandleUnsubscribe, CancelRemoved, ClientAnswers, RegisterCall, AskClient, ReceiveAnswer,
         TimesOut, LeaveCall, TellCancelled, ForwardUpdate, EndForward, Publish,
         CloseSource, Alive, CallAt, CallFrame, Consume, HandlerFrame, Handles, Reads,
         Returns, Spawn, WatchFrame, callVars, clientVars, inputVars, replyVars,
         watchVars
    <3>2. inflight' = inflight \/ \E gone : inflight' = inflight \ gone
      BY <2>5 DEF serverVars, ServerNext, Reader, Caller, Forwarder, ClientSends,
         ClientCloses, Refill, ReadEnd, ReadInvalid, ReadAnswer, Deliver,
         ReadNotification, Reply, HandleInitialize, HandleInitialized, HandlePing,
         HandleList, HandleCallTool, HandleSubscribe, AddSubscription, StartForwarder,
         HandleUnsubscribe, CancelRemoved, ClientAnswers, RegisterCall, AskClient, ReceiveAnswer,
         TimesOut, LeaveCall, TellCancelled, ForwardUpdate, EndForward, Publish,
         CloseSource, Alive, CallAt, CallFrame, Consume, HandlerFrame, Handles, Reads,
         Returns, Spawn, WatchFrame, callVars, clientVars, inputVars, replyVars,
         watchVars
    <3>3. QED  BY <2>1, <3>1, <3>2
  <2>6. QED  BY <2>3, <2>4, <2>5
<1>9. QED  BY <1>1, <1>2, <1>3, <1>4, <1>5, <1>6, <1>7, <1>8 DEF ServerTypeOK

-----------------------------------------------------------------------------
(* The theorems *)

LEMMA InitInductive == ServerAssumptions /\ ServerInit => ServerInductive
<1> SUFFICES ASSUME ServerAssumptions, ServerInit PROVE ServerInductive
  OBVIOUS
<1> USE DEF ServerInit
<1>1. {MaxFrames, Items} \subseteq Nat
  BY DEF ServerAssumptions
<1>2. ServerTypeOK
  <2>1. <<>> \in Seq(1 .. Items) /\ held \in 0 .. Len(wire)
    OBVIOUS
  <2>2. QED  BY <1>1, <2>1 DEF ServerTypeOK
<1>3. SessionType
  BY DEF SessionType, NoCall
<1>4. WireInv
  <2>1. script \in Seq(ScriptKinds) /\ sent + Len(script) <= MaxFrames
    BY <1>1 DEF ServerAssumptions, ScriptKinds
  <2>2. wire \in Seq(Messages) /\ DOMAIN wire = {}
    OBVIOUS
  <2>3. QED  BY <2>1, <2>2 DEF WireInv
<1>5. CurInv
  BY DEF CurInv
<1>6. CallInv
  BY DEF CallInv, CallOK, Delivering
<1>7. WatchInv
  BY DEF WatchInv, SubscriptionsForwarded
<1>8. PageInv
  <2>1. <<>> \in Seq(1 .. Items) /\ 0 \in 0 .. Items
    BY <1>1
  <2>2. QED  BY <2>1 DEF PageInv, Covers
<1>9. QED  BY <1>2, <1>3, <1>4, <1>5, <1>6, <1>7, <1>8 DEF ServerInductive

LEMMA StepInductive ==
  ServerAssumptions /\ ServerInductive /\ [ServerNext]_serverVars => ServerInductive'
<1> SUFFICES ASSUME ServerAssumptions, ServerInductive, [ServerNext]_serverVars
             PROVE  ServerInductive'
  OBVIOUS
<1> USE DEF ServerInductive
<1>1. WireInv' /\ CurInv'
  BY InputStep
<1>2. CallInv'
  BY CallStep
<1>3. PageInv'
  BY PageStep
<1>4. SessionType'
  BY SessionStep
<1>5. ServerTypeOK'
  BY <1>1, <1>2, <1>3, <1>4, TypeStep
<1>6. WatchInv'
  BY <1>5, WatchStep
<1>7. QED  BY <1>1, <1>2, <1>3, <1>4, <1>5, <1>6

LEMMA ServerInductiveHolds == ServerSpec => []ServerInductive
BY ServerAssumptions, InitInductive, StepInductive, PTL DEF ServerSpec

\* Whoever takes the entry of a request out of s.pending, the reader that
\* delivers or the caller that gives up, is alone with its result channel: no
\* interleaving of the answer with the five seconds panics the server, and a
\* request ends with its answer taken or with the client told, not both; the
\* session's roots are those of an answer taken (callClient,
\* resolvePendingResponse).
THEOREM ServerInvHolds == ServerSpec => []ServerInv
<1>1. ServerAssumptions /\ ServerInductive => ServerInv
  <2> SUFFICES ASSUME ServerAssumptions, ServerInductive PROVE ServerInv
    OBVIOUS
  <2>1. NoPanic
    BY DEF ServerInductive, ServerTypeOK, NoPanic
  <2>2. CallSettled
    BY DEF ServerInductive, CallInv, CallOK, CallSettled
  <2>3. QED  BY <2>1, <2>2 DEF ServerInv, ServerInductive
<1>2. QED  BY <1>1, ServerAssumptions, ServerInductiveHolds, PTL

\* In every state, between two steps of a handler too, a subscription in
\* resourceSubs has its forwarder, and a forwarder without one has had its
\* context cancelled, or will have it before the unsubscription returns
\* (handleSubscribeResource, cancelResourceSubscription, forwardResourceUpdates).
THEOREM SubscriptionsForwardedHolds == ServerSpec => []SubscriptionsForwarded
<1>1. ServerInductive => SubscriptionsForwarded
  BY DEF ServerInductive, WatchInv
<1>2. QED  BY <1>1, ServerInductiveHolds, PTL

\* For a list of any length, any default and maximum of the page size and any
\* limits asked for, following the cursors gives every item once and in order
\* (applyPagination).
THEOREM PagesCoverHolds == ServerSpec => []PagesCover
<1>1. ServerInductive => PagesCover
  BY DEF ServerInductive, PageInv, Covers, PagesCover
<1>2. QED  BY <1>1, ServerInductiveHolds, PTL

-----------------------------------------------------------------------------
(* Requests to stage a change, and their workers *)

InSeq(s, r) == \E i \in DOMAIN s : s[i] = r
Once(s)     == \A i, j \in DOMAIN s : s[i] = s[j] => i = j

Creates(w, r) == worker[w].at \in {"count", "insert"} /\ r \in worker[w].on
Created(r)    == \E w \in Workers : Creates(w, r)

\* A worker that creates a stage has one request.
OneEach ==
  \A w \in Workers : worker[w].at \in {"count", "insert"} =>
    \E r \in Requests : worker[w].on = {r}

\* What OneOwner says: the four places exclude each other, r is at most once
\* in each, and it is in one of them.
Exclusive(r) ==
  /\ caller[r] # "sent" => ~InSeq(queue, r) /\ ~Created(r) /\ answer[r] = "none"
  /\ InSeq(queue, r) => ~Created(r) /\ answer[r] = "none"
  /\ Created(r) => answer[r] = "none"
  /\ \A v, w \in Workers : Creates(v, r) /\ Creates(w, r) => v = w
  /\ caller[r] = "sent" => InSeq(queue, r) \/ Created(r) \/ answer[r] # "none"

OwnerInv == Once(queue) /\ OneEach /\ \A r \in Requests : Exclusive(r)

\* A row is there because its creator has answered.
AnswerInv == AnswerTrue /\ \A r \in rows : answer[r] # "none"

\* The creators that have counted leave a trace in peak, and when the last
\* of them counted there was room.
LimitInv ==
  /\ peak \in Nat /\ IsFiniteSet(rows) /\ IsFiniteSet(Inserting)
  /\ Cardinality(Inserting) <= peak
  /\ IF peak = 0 THEN rows = {}
     ELSE Cardinality(rows) + Cardinality(Inserting) <= StageLimit + peak - 1

AsyncInductive == AsyncTypeOK /\ OwnerInv /\ AnswerInv

-----------------------------------------------------------------------------
(* The queue *)

LEMMA AppendEffect ==
  ASSUME NEW S, NEW s \in Seq(S), NEW e \in S
  PROVE  /\ Append(s, e) \in Seq(S) /\ Len(Append(s, e)) = Len(s) + 1
         /\ \A r : InSeq(Append(s, e), r) <=> InSeq(s, r) \/ r = e
         /\ Once(s) /\ ~InSeq(s, e) => Once(Append(s, e))
  <1> DEFINE t == Append(s, e)
  <1>1. /\ t \in Seq(S) /\ Len(t) = Len(s) + 1 /\ Len(s) \in Nat
        /\ DOMAIN t = 1 .. Len(s) + 1 /\ DOMAIN s = 1 .. Len(s)
        /\ \A i \in DOMAIN s : t[i] = s[i]
        /\ t[Len(s) + 1] = e
    OBVIOUS
  <1>2. ASSUME NEW i \in DOMAIN t
        PROVE  i \in DOMAIN s \/ i = Len(s) + 1
    BY <1>1
  <1>3. DOMAIN s \subseteq DOMAIN t /\ Len(s) + 1 \in DOMAIN t
    BY <1>1
  <1> HIDE DEF t
  <1>4. \A r : InSeq(t, r) <=> InSeq(s, r) \/ r = e
    BY <1>1, <1>2, <1>3 DEF InSeq
  <1>5. Once(s) /\ ~InSeq(s, e) => Once(t)
    BY <1>1, <1>2 DEF Once, InSeq
  <1> QED
    BY <1>1, <1>4, <1>5 DEF t

LEMMA TailEffect ==
  ASSUME NEW S, NEW s \in Seq(S), s # <<>>
  PROVE  /\ Tail(s) \in Seq(S) /\ Len(Tail(s)) <= Len(s) /\ Head(s) \in S
         /\ InSeq(s, Head(s))
         /\ \A r : InSeq(s, r) <=> InSeq(Tail(s), r) \/ r = Head(s)
         /\ Once(s) => Once(Tail(s)) /\ ~InSeq(Tail(s), Head(s))
  <1> DEFINE t == Tail(s)
  <1>1. /\ t \in Seq(S) /\ Len(s) \in Nat \ {0} /\ Len(t) = Len(s) - 1
        /\ DOMAIN t = 1 .. Len(s) - 1 /\ DOMAIN s = 1 .. Len(s)
        /\ \A i \in DOMAIN t : t[i] = s[i + 1]
        /\ Head(s) = s[1] /\ Head(s) \in S
    OBVIOUS
  <1>2. ASSUME NEW i \in DOMAIN t
        PROVE  i + 1 \in DOMAIN s /\ i + 1 # 1 /\ i \in Nat
    BY <1>1
  <1>3. ASSUME NEW i \in DOMAIN s, i # 1
        PROVE  i - 1 \in DOMAIN t /\ t[i - 1] = s[i]
    BY <1>1, <1>3
  <1>4. 1 \in DOMAIN s
    BY <1>1
  <1>5. \A r : InSeq(s, r) <=> InSeq(t, r) \/ r = Head(s)
    <2> HIDE DEF t
    <2> QED
      BY <1>1, <1>2, <1>3, <1>4 DEF InSeq
  <1>6. Once(s) => Once(t) /\ ~InSeq(t, Head(s))
    <2> SUFFICES ASSUME Once(s)
                 PROVE  Once(t) /\ ~InSeq(t, Head(s))
      OBVIOUS
    <2>1. ASSUME NEW i \in DOMAIN t, NEW j \in DOMAIN t, t[i] = t[j]
          PROVE  i = j
      <3>1. i + 1 = j + 1
        BY <1>1, <1>2, <2>1 DEF Once
      <3> QED
        BY <1>2, <3>1
    <2>2. ASSUME NEW i \in DOMAIN t, t[i] = Head(s)
          PROVE  FALSE
      BY <1>1, <1>2, <1>4, <2>2 DEF Once
    <2> QED
      BY <2>1, <2>2 DEF Once, InSeq
  <1> QED
    BY <1>1, <1>4, <1>5, <1>6 DEF InSeq, t

-----------------------------------------------------------------------------
(* The shape of a step *)

CloseMoves == CloseCancels \/ CloseChannel \/ CloseReturns

\* The steps that create nothing and answer nobody.
Others ==
  \/ \E r \in Requests : SendPanics(r) \/ Cancel(r)
  \/ CollectorStep \/ CloseMoves

LEMMA StepCases ==
  ASSUME AsyncNext
  PROVE  \/ \E r \in Requests : Enter(r) \/ Send(r) \/ SyncCount(r) \/ SyncInsert(r)
         \/ \E w \in Workers : WorkerStep(w)
         \/ Others
  BY DEF AsyncNext, CallerStep, CloseStep, Others, CloseMoves

\* The places of a request do not change in the other steps.
LEMMA OthersEffect ==
  ASSUME Others
  PROVE  /\ UNCHANGED <<caller, queue, worker, rows, answer, peak>>
         /\ cancelled \subseteq cancelled'
  BY DEF Others, SendPanics, Cancel, CollectorStep, Collect, CollectorExits,
     CloseMoves, CloseCancels, CloseChannel, CloseReturns, CloseTo

LEMMA TypeInit ==
  ASSUME AsyncInit
  PROVE  AsyncTypeOK
  <1>1. QueueCap \in Nat /\ ResultCap \in Nat
    BY AsyncAssumptions
  <1>2. queue \in Seq(Requests) /\ Len(queue) <= QueueCap
    BY <1>1 DEF AsyncInit
  <1> QED
    BY <1>1, <1>2 DEF AsyncInit, AsyncTypeOK, Idle, Closing

LEMMA StagedTypeStep ==
  ASSUME AsyncTypeOK, AsyncNext
  PROVE  AsyncTypeOK'
  <1> USE DEF AsyncTypeOK
  <1>1. QueueCap \in Nat /\ ResultCap \in Nat
    BY AsyncAssumptions
  <1>2. ASSUME NEW r \in Requests, Enter(r)
        PROVE  AsyncTypeOK'
    BY <1>2 DEF Enter, At, Answer
  <1>3. ASSUME NEW r \in Requests, Send(r)
        PROVE  AsyncTypeOK'
    <2>1. queue' \in Seq(Requests) /\ Len(queue') <= QueueCap
      <3>1. CASE Len(queue) < QueueCap
        BY <1>1, <1>3, <3>1, AppendEffect DEF Send
      <3> QED
        BY <1>3, <3>1 DEF Send
    <2>2. caller' \in [Requests -> {"new", "send", "sent", "count", "insert"}]
      BY <1>3 DEF Send, At
    <2> QED
      BY <1>3, <2>1, <2>2 DEF Send
  <1>4. ASSUME NEW r \in Requests, SyncCount(r)
        PROVE  AsyncTypeOK'
    BY <1>4 DEF SyncCount, At, Answer
  <1>5. ASSUME NEW r \in Requests, SyncInsert(r)
        PROVE  AsyncTypeOK'
    BY <1>5 DEF SyncInsert, Inserted, At, Answer
  <1>6. ASSUME NEW w \in Workers, Take(w)
        PROVE  AsyncTypeOK'
    <2>1. /\ queue' \in Seq(Requests) /\ Len(queue') <= QueueCap
          /\ Head(queue) \in Requests
      BY <1>1, <1>6, TailEffect DEF Take
    <2> QED
      BY <1>6, <2>1 DEF Take, WorkerAt, Answer
  <1>7. ASSUME NEW w \in Workers, Count(w)
        PROVE  AsyncTypeOK'
    <2>1. worker[w].on \subseteq Requests
      OBVIOUS
    <2> QED
      BY <1>7, <2>1 DEF Count, WorkerAt, Answer
  <1>8. ASSUME NEW w \in Workers, Insert(w)
        PROVE  AsyncTypeOK'
    <2>1. worker[w].on \subseteq Requests
      OBVIOUS
    <2> QED
      BY <1>8, <2>1 DEF Insert, Inserted, WorkerAt, Answer
  <1>9. ASSUME NEW w \in Workers, ExitDone(w) \/ Report(w)
        PROVE  AsyncTypeOK'
    BY <1>1, <1>9 DEF ExitDone, Report, WorkerAt
  <1>10. CASE Others
    <2>1. results' \in 0 .. ResultCap /\ closing' \in Closing /\ cancelled' \subseteq Requests
      BY <1>1, <1>10 DEF Others, SendPanics, Cancel, CollectorStep, Collect, CollectorExits,
         CloseMoves, CloseCancels, CloseChannel, CloseReturns, CloseTo, Closing
    <2> QED
      BY <1>10, <2>1, OthersEffect
  <1> QED
    BY <1>2, <1>3, <1>4, <1>5, <1>6, <1>7, <1>8, <1>9, <1>10, StepCases DEF WorkerStep

-----------------------------------------------------------------------------
(* One owner *)

\* Nothing happens to x.
Same(x) ==
  /\ caller'[x] = caller[x] /\ answer'[x] = answer[x]
  /\ InSeq(queue', x) <=> InSeq(queue, x)
  /\ \A w \in Workers : Creates(w, x)' <=> Creates(w, x)

LEMMA SameExclusive ==
  ASSUME NEW x \in Requests, Exclusive(x), Same(x)
  PROVE  Exclusive(x)'
  <1>1. Created(x)' <=> Created(x)
    BY DEF Created, Same
  <1>2. \A v, w \in Workers : Creates(v, x)' /\ Creates(w, x)' => v = w
    BY DEF Exclusive, Same
  <1> HIDE DEF Creates, Created
  <1> QED
    BY <1>1, <1>2 DEF Exclusive, Same

\* A step of one request keeps the others exclusive.
LEMMA OneMoves ==
  ASSUME OwnerInv, NEW r \in Requests, \A x \in Requests \ {r} : Same(x),
         Exclusive(r)', Once(queue'), OneEach'
  PROVE  OwnerInv'
  BY SameExclusive DEF OwnerInv

LEMMA OwnerInit ==
  ASSUME AsyncInit
  PROVE  OwnerInv
  <1>1. DOMAIN queue = {}
    BY DEF AsyncInit
  <1> QED
    BY <1>1 DEF AsyncInit, Idle, OwnerInv, Once, OneEach, Exclusive, Created, Creates, InSeq

\* On its caller's goroutine: in, to the channel, counted, inserted.
LEMMA OwnerCaller ==
  ASSUME AsyncTypeOK, OwnerInv, NEW r \in Requests,
         Enter(r) \/ Send(r) \/ SyncCount(r) \/ SyncInsert(r)
  PROVE  OwnerInv'
  <1> USE DEF At, Answer
  <1>1. /\ caller \in [Requests -> {"new", "send", "sent", "count", "insert"}]
        /\ answer \in [Requests -> {"none", "ok", "error"}]
        /\ queue \in Seq(Requests)
    BY DEF AsyncTypeOK
  <1>2. /\ worker' = worker /\ caller[r] # "sent"
        /\ \A x \in Requests \ {r} : caller'[x] = caller[x] /\ answer'[x] = answer[x]
    BY <1>1 DEF Enter, Send, SyncCount, SyncInsert, Inserted
  <1>3. OneEach' /\ \A x : Created(x)' <=> Created(x)
    BY <1>2 DEF OwnerInv, OneEach, Created, Creates
  <1>4. ~InSeq(queue, r) /\ ~Created(r) /\ answer[r] = "none"
    BY <1>2 DEF OwnerInv, Exclusive
  <1>5. Once(queue)
    BY DEF OwnerInv
  <1>6. CASE queue' = queue
    <2>1. \/ caller'[r] # "sent" /\ answer'[r] = "none"
          \/ caller'[r] = "sent" /\ answer'[r] # "none"
      <3>1. CASE Enter(r)
        BY <1>1, <1>4, <3>1 DEF Enter
      <3>2. CASE Send(r)
        <4>1. Len(queue) \in Nat /\ Append(queue, r) # queue
          BY <1>1, AppendEffect
        <4> QED
          BY <1>1, <1>4, <1>6, <3>2, <4>1 DEF Send
      <3>3. CASE SyncCount(r)
        BY <1>1, <1>4, <3>3 DEF SyncCount
      <3>4. CASE SyncInsert(r)
        BY <1>1, <1>4, <3>4 DEF SyncInsert, Inserted
      <3> QED
        BY <3>1, <3>2, <3>3, <3>4
    <2>2. Exclusive(r)'
      BY <1>2, <1>3, <1>4, <1>6, <2>1 DEF Exclusive, Created
    <2>3. \A x \in Requests \ {r} : Same(x)
      BY <1>2, <1>6 DEF Same, Creates
    <2> QED
      BY <1>3, <1>5, <1>6, <2>2, <2>3, OneMoves
  <1>7. CASE queue' # queue
    <2>1. /\ queue' = Append(queue, r) /\ caller'[r] = "sent" /\ answer' = answer
      BY <1>1, <1>7 DEF Enter, Send, SyncCount, SyncInsert
    <2>2. /\ Once(queue')
          /\ \A x : InSeq(queue', x) <=> InSeq(queue, x) \/ x = r
      BY <1>1, <1>4, <1>5, <2>1, AppendEffect
    <2>3. Exclusive(r)'
      BY <1>2, <1>3, <1>4, <2>1, <2>2 DEF Exclusive, Created
    <2>4. \A x \in Requests \ {r} : Same(x)
      BY <1>2, <2>1, <2>2 DEF Same, Creates
    <2> QED
      BY <1>3, <2>2, <2>3, <2>4, OneMoves
  <1> QED
    BY <1>6, <1>7

\* From the queue to a worker, or to its answer.
LEMMA OwnerTake ==
  ASSUME AsyncTypeOK, OwnerInv, NEW w \in Workers, Take(w)
  PROVE  OwnerInv'
  <1>1. /\ answer \in [Requests -> {"none", "ok", "error"}]
        /\ queue \in Seq(Requests)
        /\ worker \in [Workers -> [at: {"idle", "count", "insert", "report", "exited"},
                                   on: SUBSET Requests]]
    BY DEF AsyncTypeOK
  <1>2. PICK r \in Requests : r = Head(queue)
    BY <1>1, TailEffect DEF Take
  <1>3. /\ worker[w].at = "idle" /\ queue # <<>> /\ queue' = Tail(queue) /\ caller' = caller
        /\ \/ Answer(r, "error") /\ worker' = worker
           \/ WorkerAt(w, "count", {r}) /\ answer' = answer
    BY <1>2 DEF Take
  <1>4. /\ InSeq(queue, r) /\ Once(queue') /\ ~InSeq(queue', r)
        /\ \A x : InSeq(queue, x) <=> InSeq(queue', x) \/ x = r
    BY <1>1, <1>3, <1>2, TailEffect DEF OwnerInv
  <1>5. caller[r] = "sent" /\ ~Created(r) /\ answer[r] = "none"
    BY <1>4 DEF OwnerInv, Exclusive
  <1>6. CASE Answer(r, "error") /\ worker' = worker
    <2>1. answer'[r] = "error" /\ \A x \in Requests \ {r} : answer'[x] = answer[x]
      BY <1>1, <1>4, <1>6 DEF Answer
    <2>2. \A x : Created(x)' <=> Created(x)
      BY <1>6 DEF Created, Creates
    <2>3. Exclusive(r)'
      BY <1>3, <1>4, <1>5, <2>1, <2>2 DEF Exclusive, Created
    <2>4. \A x \in Requests \ {r} : Same(x)
      BY <1>3, <1>4, <1>6, <2>1 DEF Same, Creates
    <2>5. OneEach'
      BY <1>6 DEF OwnerInv, OneEach
    <2> QED
      BY <1>4, <2>3, <2>4, <2>5, OneMoves
  <1>7. CASE WorkerAt(w, "count", {r}) /\ answer' = answer
    <2>1. /\ worker'[w] = [at |-> "count", on |-> {r}]
          /\ \A v \in Workers \ {w} : worker'[v] = worker[v]
      BY <1>1, <1>7 DEF WorkerAt
    <2>2. \A v \in Workers : Creates(v, r)' <=> v = w
      BY <1>5, <2>1 DEF Created, Creates
    <2>3. Exclusive(r)'
      BY <1>3, <1>4, <1>5, <1>7, <2>2 DEF Exclusive, Created
    <2>4. \A x \in Requests \ {r} : Same(x)
      BY <1>3, <1>4, <1>7, <2>1 DEF Same, Creates
    <2>5. OneEach'
      BY <1>4, <2>1 DEF OwnerInv, OneEach
    <2> QED
      BY <1>4, <2>3, <2>4, <2>5, OneMoves
  <1> QED
    BY <1>3, <1>6, <1>7

\* A worker counts and goes on with its request, or answers it.
LEMMA OwnerCreate ==
  ASSUME AsyncTypeOK, OwnerInv, NEW w \in Workers, Count(w) \/ Insert(w)
  PROVE  OwnerInv'
  <1>1. /\ answer \in [Requests -> {"none", "ok", "error"}]
        /\ worker \in [Workers -> [at: {"idle", "count", "insert", "report", "exited"},
                                   on: SUBSET Requests]]
    BY DEF AsyncTypeOK
  <1>2. /\ worker[w].at \in {"count", "insert"} /\ caller' = caller /\ queue' = queue
        /\ \E x \in worker[w].on :
             \/ WorkerAt(w, "insert", {x}) /\ answer' = answer
             \/ WorkerAt(w, "report", {x}) /\ (Answer(x, "error") \/ Answer(x, "ok"))
    BY DEF Count, Insert, Inserted
  <1>3. PICK r \in Requests : worker[w].on = {r}
    BY <1>2 DEF OwnerInv, OneEach
  <1>4. Creates(w, r) /\ answer[r] = "none" /\ caller[r] = "sent" /\ ~InSeq(queue, r)
        /\ \A v \in Workers : Creates(v, r) => v = w
    BY <1>2, <1>3 DEF OwnerInv, Exclusive, Created, Creates
  <1>5. /\ \/ WorkerAt(w, "insert", {r}) /\ answer' = answer
           \/ WorkerAt(w, "report", {r}) /\ (Answer(r, "error") \/ Answer(r, "ok"))
    BY <1>2, <1>3
  <1>6. /\ \A v \in Workers \ {w} : worker'[v] = worker[v]
        /\ \A x \in Requests \ {r} : answer'[x] = answer[x]
        /\ worker'[w].on = {r}
        /\ \/ worker'[w].at = "insert" /\ answer'[r] = "none"
           \/ worker'[w].at = "report" /\ answer'[r] # "none"
    BY <1>1, <1>4, <1>5 DEF WorkerAt, Answer
  <1>7. \A v \in Workers : Creates(v, r)' <=> v = w /\ answer'[r] = "none"
    BY <1>4, <1>6 DEF Creates
  <1>8. Exclusive(r)'
    BY <1>2, <1>4, <1>6, <1>7 DEF Exclusive, Created
  <1>9. \A x \in Requests \ {r} : Same(x)
    BY <1>2, <1>3, <1>6 DEF Same, Creates
  <1>10. OneEach' /\ Once(queue')
    BY <1>2, <1>6 DEF OwnerInv, OneEach
  <1> QED
    BY <1>8, <1>9, <1>10, OneMoves

LEMMA OwnerStep ==
  ASSUME AsyncTypeOK, OwnerInv, AsyncNext
  PROVE  OwnerInv'
  <1>1. ASSUME NEW r \in Requests, Enter(r) \/ Send(r) \/ SyncCount(r) \/ SyncInsert(r)
        PROVE  OwnerInv'
    BY <1>1, OwnerCaller
  <1>2. ASSUME NEW w \in Workers, ExitDone(w) \/ Report(w)
        PROVE  OwnerInv'
    <2>1. /\ UNCHANGED <<caller, queue, answer>>
          /\ worker[w].at \notin {"count", "insert"} /\ worker'[w].at \notin {"count", "insert"}
          /\ \A v \in Workers \ {w} : worker'[v] = worker[v]
      BY <1>2 DEF ExitDone, Report, WorkerAt, AsyncTypeOK
    <2>2. \A v \in Workers : \A x : Creates(v, x)' <=> Creates(v, x)
      BY <2>1 DEF Creates
    <2>3. \A x \in Requests : Same(x)
      BY <2>1, <2>2 DEF Same
    <2>4. OneEach' /\ Once(queue')
      BY <2>1 DEF OwnerInv, OneEach
    <2> QED
      BY <2>3, <2>4, SameExclusive DEF OwnerInv
  <1>3. CASE Others
    BY <1>3, OthersEffect
       DEF OwnerInv, OneEach, Exclusive, Created, Creates
  <1> QED
    BY <1>1, <1>2, <1>3, OwnerTake, OwnerCreate, StepCases DEF WorkerStep

-----------------------------------------------------------------------------
(* Answers and rows *)

\* Whoever answers or inserts r owns r, which had no answer before: nobody
\* else's answer or row changes, nor does an answer come without its reason.
LEMMA AnswerEffect ==
  ASSUME AsyncTypeOK, OwnerInv, AsyncNext
  PROVE  \/ /\ UNCHANGED <<answer, rows>> /\ cancelled \subseteq cancelled'
         \/ \E r \in Requests :
              /\ answer[r] = "none" /\ cancelled' = cancelled
              /\ \/ r \notin cancelled /\ rows' = rows \union {r} /\ Answer(r, "ok")
                 \/ r \in cancelled /\ rows' \in {rows, rows \union {r}} /\ Answer(r, "error")
                 \/ rows' = rows /\ Answer(r, "error")
  <1>1. ASSUME NEW r \in Requests, Enter(r) \/ Send(r) \/ SyncCount(r) \/ SyncInsert(r)
        PROVE  /\ answer[r] = "none" /\ cancelled' = cancelled
               /\ \/ UNCHANGED <<answer, rows>>
                  \/ rows' = rows /\ Answer(r, "error")
                  \/ Inserted(r)
    <2>1. caller[r] # "sent"
      BY <1>1 DEF Enter, Send, SyncCount, SyncInsert
    <2> QED
      BY <1>1, <2>1 DEF Enter, Send, SyncCount, SyncInsert, OwnerInv, Exclusive
  <1>2. ASSUME NEW w \in Workers, Take(w)
        PROVE  /\ cancelled' = cancelled /\ rows' = rows
               /\ \/ answer' = answer
                  \/ \E r \in Requests : answer[r] = "none" /\ Answer(r, "error")
    <2>1. queue \in Seq(Requests) /\ queue # <<>>
      BY <1>2 DEF Take, AsyncTypeOK
    <2>2. PICK r \in Requests : r = Head(queue) /\ InSeq(queue, r)
      BY <2>1, TailEffect
    <2>3. answer[r] = "none"
      BY <2>2 DEF OwnerInv, Exclusive
    <2> QED
      BY <1>2, <2>2, <2>3 DEF Take
  <1>3. ASSUME NEW w \in Workers, Count(w) \/ Insert(w)
        PROVE  \E r \in Requests :
                 /\ answer[r] = "none" /\ cancelled' = cancelled
                 /\ \/ UNCHANGED <<answer, rows>>
                    \/ rows' = rows /\ Answer(r, "error")
                    \/ Inserted(r)
    <2>1. worker[w].at \in {"count", "insert"}
      BY <1>3 DEF Count, Insert
    <2>2. PICK r \in Requests : worker[w].on = {r}
      BY <2>1 DEF OwnerInv, OneEach
    <2>3. answer[r] = "none"
      BY <2>1, <2>2 DEF OwnerInv, Exclusive, Created, Creates
    <2> QED
      BY <1>3, <2>2, <2>3 DEF Count, Insert
  <1>4. ASSUME NEW w \in Workers, ExitDone(w) \/ Report(w)
        PROVE  UNCHANGED <<answer, rows, cancelled>>
    BY <1>4 DEF ExitDone, Report
  <1>5. ASSUME NEW r \in Requests, Inserted(r)
        PROVE  \/ r \notin cancelled /\ rows' = rows \union {r} /\ Answer(r, "ok")
               \/ r \in cancelled /\ rows' = rows \union {r} /\ Answer(r, "error")
               \/ UNCHANGED rows /\ Answer(r, "error")
    BY <1>5 DEF Inserted
  <1> QED
    BY <1>1, <1>2, <1>3, <1>4, <1>5, StepCases, OthersEffect DEF WorkerStep

LEMMA AnswerStep ==
  ASSUME AsyncTypeOK, OwnerInv, AnswerInv, AsyncNext
  PROVE  AnswerInv'
  <1>1. rows \subseteq Requests /\ answer \in [Requests -> {"none", "ok", "error"}]
    BY DEF AsyncTypeOK
  <1>2. CASE UNCHANGED <<answer, rows>> /\ cancelled \subseteq cancelled'
    BY <1>2 DEF AnswerInv, AnswerTrue
  <1>3. ASSUME NEW r \in Requests, answer[r] = "none", cancelled' = cancelled,
               rows' \in {rows, rows \union {r}}, NEW a \in {"ok", "error"}, Answer(r, a),
               \/ a = "ok" /\ rows' = rows \union {r}
               \/ a = "error" /\ (r \in cancelled \/ rows' = rows)
        PROVE  AnswerInv'
    <2>1. /\ answer'[r] = a /\ \A x \in Requests \ {r} : answer'[x] = answer[x]
          /\ \A x \in Requests \ {r} : x \in rows' <=> x \in rows
          /\ r \notin rows /\ rows' \subseteq Requests
      BY <1>1, <1>3 DEF Answer, AnswerInv
    <2> QED
      BY <1>3, <2>1 DEF AnswerInv, AnswerTrue
  <1> QED
    BY <1>2, <1>3, AnswerEffect

-----------------------------------------------------------------------------
(* The limit *)

\* How a step changes the rows, the creators at their insert and the peak.
LEMMA LimitEffect ==
  ASSUME AsyncTypeOK, AsyncNext
  PROVE  \/ UNCHANGED <<rows, peak, Inserting>>
         \/ /\ rows' = rows /\ HasRoom /\ Entered
            /\ \E x : x \notin Inserting /\ Inserting' = Inserting \union {x}
         \/ /\ peak' = peak
            /\ \E x \in Inserting : \E r : /\ Inserting' = Inserting \ {x}
                                          /\ rows' \in {rows, rows \union {r}}
  <1> USE DEF AsyncTypeOK
  <1>1. Requests \cap Workers = {}
    BY AsyncAssumptions
  <1>2. ASSUME NEW r \in Requests, Enter(r) \/ Send(r)
        PROVE  UNCHANGED <<rows, peak, Inserting>>
    BY <1>2 DEF Enter, Send, At, Inserting
  <1>3. ASSUME NEW r \in Requests, SyncCount(r)
        PROVE  \/ UNCHANGED <<rows, peak, Inserting>>
               \/ /\ rows' = rows /\ HasRoom /\ Entered
                  /\ r \notin Inserting /\ Inserting' = Inserting \union {r}
    BY <1>1, <1>3 DEF SyncCount, At, Inserting
  <1>4. ASSUME NEW r \in Requests, SyncInsert(r)
        PROVE  /\ peak' = peak /\ r \in Inserting /\ Inserting' = Inserting \ {r}
               /\ rows' \in {rows, rows \union {r}}
    BY <1>1, <1>4 DEF SyncInsert, Inserted, At, Inserting
  <1>5. ASSUME NEW w \in Workers, Take(w) \/ ExitDone(w) \/ Report(w)
        PROVE  UNCHANGED <<rows, peak, Inserting>>
    <2>1. /\ UNCHANGED <<rows, peak, caller>>
          /\ worker[w].at # "insert"
          /\ \/ worker' = worker
             \/ \E p, on : p # "insert" /\ worker' = [worker EXCEPT ![w] = [at |-> p, on |-> on]]
      <3>1. CASE Take(w)
        BY <3>1 DEF Take, WorkerAt
      <3>2. CASE ExitDone(w)
        BY <3>2 DEF ExitDone, WorkerAt
      <3>3. CASE Report(w)
        BY <3>3 DEF Report, WorkerAt
      <3>4. QED  BY <1>5, <3>1, <3>2, <3>3
    <2>2. ASSUME NEW v \in Workers
          PROVE  worker'[v].at = "insert" <=> worker[v].at = "insert"
      BY <2>1
    <2>3. QED  BY <2>1, <2>2 DEF Inserting
  <1>6. ASSUME NEW w \in Workers, Count(w)
        PROVE  \/ UNCHANGED <<rows, peak, Inserting>>
               \/ /\ rows' = rows /\ HasRoom /\ Entered
                  /\ w \notin Inserting /\ Inserting' = Inserting \union {w}
    BY <1>1, <1>6 DEF Count, WorkerAt, Inserting
  <1>7. ASSUME NEW w \in Workers, Insert(w)
        PROVE  /\ peak' = peak /\ w \in Inserting /\ Inserting' = Inserting \ {w}
               /\ \E r : rows' \in {rows, rows \union {r}}
    <2>1. PICK r \in worker[w].on : Inserted(r) /\ WorkerAt(w, "report", {r})
      BY <1>7 DEF Insert
    <2>2. rows' \in {rows, rows \union {r}}
      BY <2>1 DEF Inserted
    <2>3. /\ UNCHANGED <<peak, caller>> /\ worker[w].at = "insert"
          /\ worker' = [worker EXCEPT ![w] = [at |-> "report", on |-> {r}]]
      BY <1>7, <2>1 DEF Insert, WorkerAt
    <2>4. ASSUME NEW v \in Workers
          PROVE  worker'[v].at = "insert" <=> worker[v].at = "insert" /\ v # w
      BY <2>3
    <2>5. w \in Inserting /\ Inserting' = Inserting \ {w}
      BY <1>1, <2>3, <2>4 DEF Inserting
    <2>6. QED  BY <2>2, <2>3, <2>5
  <1>8. CASE Others
    BY <1>8, OthersEffect DEF Inserting
  <1> QED
    BY <1>2, <1>3, <1>4, <1>5, <1>6, <1>7, <1>8, StepCases DEF WorkerStep

LEMMA LimitStep ==
  ASSUME AsyncTypeOK, LimitInv, AsyncNext
  PROVE  LimitInv'
  <1>1. StageLimit \in Nat /\ peak \in Nat
    BY AsyncAssumptions DEF LimitInv
  <1>2. /\ IsFiniteSet(rows) /\ Cardinality(rows) \in Nat
        /\ IsFiniteSet(Inserting) /\ Cardinality(Inserting) \in Nat
        /\ rows = {} => Cardinality(rows) = 0
    BY FS_CardinalityType, FS_EmptySet DEF LimitInv
  <1>3. CASE UNCHANGED <<rows, peak, Inserting>>
    BY <1>3 DEF LimitInv
  <1>4. ASSUME rows' = rows, HasRoom, Entered, NEW x, x \notin Inserting,
               Inserting' = Inserting \union {x}
        PROVE  LimitInv'
    <2>1. IsFiniteSet(Inserting') /\ Cardinality(Inserting') = Cardinality(Inserting) + 1
      BY <1>2, <1>4, FS_AddElement
    <2>2. /\ peak' \in Nat /\ peak <= peak' /\ Cardinality(Inserting) + 1 <= peak'
      BY <1>1, <1>2, <1>4 DEF Entered
    <2>3. Cardinality(rows) <= StageLimit - 1
      BY <1>1, <1>2, <1>4 DEF HasRoom
    <2> QED
      BY <1>1, <1>2, <1>4, <2>1, <2>2, <2>3 DEF LimitInv
  <1>5. ASSUME peak' = peak, NEW x \in Inserting, NEW r, Inserting' = Inserting \ {x},
               rows' \in {rows, rows \union {r}}
        PROVE  LimitInv'
    <2>1. IsFiniteSet(Inserting') /\ Cardinality(Inserting') = Cardinality(Inserting) - 1
      BY <1>2, <1>5, FS_RemoveElement
    <2>2. /\ IsFiniteSet(rows') /\ Cardinality(rows') \in Nat
          /\ Cardinality(rows') <= Cardinality(rows) + 1
      BY <1>2, <1>5, FS_AddElement
    <2>3. peak # 0
      <3>1. Cardinality(Inserting) # 0
        BY <1>2, <1>5, FS_EmptySet
      <3> QED
        BY <1>1, <1>2, <3>1 DEF LimitInv
    <2> QED
      BY <1>1, <1>2, <1>5, <2>1, <2>2, <2>3 DEF LimitInv
  <1> QED
    BY <1>3, <1>4, <1>5, LimitEffect

-----------------------------------------------------------------------------
(* The theorems *)

\* OneOwner counts what OwnerInv says.
LEMMA OwnersCount ==
  ASSUME AsyncTypeOK, OwnerInv
  PROVE  OneOwner
  <1> SUFFICES ASSUME NEW r \in Requests
               PROVE  Owners(r) = 1
    BY DEF OneOwner
  <1> DEFINE places == {i \in DOMAIN queue : queue[i] = r}
             makers == {w \in Workers : worker[w].at \in {"count", "insert"}
                                        /\ r \in worker[w].on}
  <1>1. Exclusive(r) /\ Once(queue)
    BY DEF OwnerInv
  <1>2. Cardinality(places) = IF InSeq(queue, r) THEN 1 ELSE 0
    <2>1. CASE InSeq(queue, r)
      <3>1. PICK i \in DOMAIN queue : queue[i] = r
        BY <2>1 DEF InSeq
      <3>2. places = {i}
        BY <1>1, <3>1 DEF Once
      <3> QED
        BY <2>1, <3>2, FS_Singleton
    <2>2. CASE ~InSeq(queue, r)
      <3>1. places = {}
        BY <2>2 DEF InSeq
      <3> QED
        BY <2>2, <3>1, FS_EmptySet
    <2> QED
      BY <2>1, <2>2
  <1>3. Cardinality(makers) = IF Created(r) THEN 1 ELSE 0
    <2>1. CASE Created(r)
      <3>1. PICK w \in Workers : Creates(w, r)
        BY <2>1 DEF Created
      <3>2. makers = {w}
        BY <1>1, <3>1 DEF Exclusive, Creates
      <3> QED
        BY <2>1, <3>2, FS_Singleton
    <2>2. CASE ~Created(r)
      <3>1. makers = {}
        BY <2>2 DEF Created, Creates
      <3> QED
        BY <2>2, <3>1, FS_EmptySet
    <2> QED
      BY <2>1, <2>2
  <1>4. Owners(r) = Cardinality(places) + Cardinality(makers)
                    + (IF caller[r] = "sent" THEN 0 ELSE 1)
                    + (IF answer[r] = "none" THEN 0 ELSE 1)
    BY DEF Owners
  <1> HIDE DEF places, makers
  <1> QED
    BY <1>1, <1>2, <1>3, <1>4 DEF Exclusive

LEMMA AsyncInductiveHolds == AsyncSpec => []AsyncInductive
  <1>1. AsyncInit => AsyncInductive
    <2>1. ASSUME AsyncInit
          PROVE  AnswerInv
      BY <2>1 DEF AsyncInit, AnswerInv, AnswerTrue
    <2> QED
      BY <2>1, TypeInit, OwnerInit DEF AsyncInductive
  <1>2. AsyncInductive /\ [AsyncNext]_asyncVars => AsyncInductive'
    <2>1. ASSUME AsyncInductive, UNCHANGED asyncVars
          PROVE  AsyncInductive'
      BY <2>1 DEF AsyncInductive, asyncVars, AsyncTypeOK, OwnerInv, OneEach, Exclusive,
         Created, Creates, AnswerInv, AnswerTrue
    <2>2. ASSUME AsyncInductive, AsyncNext
          PROVE  AsyncInductive'
      BY <2>2, StagedTypeStep, OwnerStep, AnswerStep DEF AsyncInductive
    <2> QED
      BY <2>1, <2>2
  <1> QED
    BY <1>1, <1>2, PTL DEF AsyncSpec

\* However many callers and workers there are, whatever the capacities of
\* the channels, when Close is called and which contexts are cancelled: a
\* request is at one place only - with its caller, in stageChan, with one
\* worker - until it has its one answer (CreateStageAsyncWithContext,
\* stageWorker, Close).
THEOREM OneOwnerHolds == AsyncSpec => []AsyncInv
  <1>1. AsyncInductive => AsyncInv
    BY OwnersCount DEF AsyncInductive, AsyncInv
  <1> QED
    BY <1>1, AsyncInductiveHolds, PTL

\* A caller told "ok" has its row, one told of an error has none unless its
\* context was cancelled after the insert.
THEOREM AnswerTrueHolds == AsyncSpec => []AnswerTrue
  <1>1. AsyncInductive => AnswerTrue
    BY DEF AsyncInductive, AnswerInv
  <1> QED
    BY <1>1, AsyncInductiveHolds, PTL

\* CreateStage counts and inserts in two statements: the limit of a session
\* is exceeded by at most the number of creators that were ever between the
\* two at once, less one, whatever the limit and however many creators.
THEOREM LimitOvershootHolds == AsyncSpec => []LimitOvershoot
  <1>1. AsyncInit => LimitInv
    <2>1. ASSUME AsyncInit
          PROVE  rows = {} /\ Inserting = {} /\ peak = 0
      BY <2>1 DEF AsyncInit, Inserting, Idle
    <2> QED
      BY <2>1, FS_EmptySet DEF LimitInv
  <1>2. AsyncTypeOK /\ LimitInv /\ [AsyncNext]_asyncVars => LimitInv'
    <2>1. ASSUME LimitInv, UNCHANGED asyncVars
          PROVE  LimitInv'
      BY <2>1 DEF LimitInv, Inserting, asyncVars
    <2> QED
      BY <2>1, LimitStep
  <1>3. LimitInv => LimitOvershoot
    <2>1. ASSUME LimitInv
          PROVE  /\ StageLimit \in Nat /\ peak \in Nat
                 /\ Cardinality(rows) \in Nat /\ Cardinality(Inserting) \in Nat
                 /\ rows = {} => Cardinality(rows) = 0
      BY <2>1, AsyncAssumptions, FS_CardinalityType, FS_EmptySet DEF LimitInv
    <2> QED
      BY <2>1 DEF LimitInv, LimitOvershoot
  <1>4. AsyncInductive => AsyncTypeOK
    BY DEF AsyncInductive
  <1> QED
    BY <1>1, <1>2, <1>3, <1>4, AsyncInductiveHolds, PTL DEF AsyncSpec

=============================================================================
