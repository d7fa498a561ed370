------------------------------ MODULE Invocation ------------------------------
(***************************************************************************)
(* The invocation manager (src/invocation/manager.go) of one maos-core     *)
(* server: the HTTP handlers of callers and of workers, the invocations    *)
(* table they share, the NOTIFY stream that comes back from PostgreSQL     *)
(* and the dispatcher's wake-up tokens.  Each handler is a goroutine cut   *)
(* at its database statements, its NOTIFYs and its selects; a SQL          *)
(* statement is atomic.  Time is not counted: a timeout may fire whenever  *)
(* its select is blocked.                                                  *)
(***************************************************************************)
EXTENDS Naturals, Sequences, FiniteSets

CONSTANTS
    Actors,          \* actors, each the owner of one queue
    Workers,         \* request slots of worker clients (GetNext, Return*)
    Callers,         \* request slots of callers; each makes one request
    ActorOf,         \* the actor that a worker's API token belongs to
    NoActor,         \* the queue of a row that does not exist yet
    Requests,        \* the requests callers make: "sync", "async", "get"
    DispatchBuffer,  \* capacity of a dispatcher channel, 32 in the code
    ResponseBuffer,  \* capacity of a responseCh, 64 in the code
    MaxInvocations,  \* bound: rows ever inserted
    MaxFaults,       \* bound: faults of all kinds in one behaviour
    FaultKinds       \* the kinds of fault the environment may produce

AllFaults == {"lose", "dberror", "gone", "crash"}

ASSUME ActorOfAssumption  == ActorOf \in [Workers -> Actors]
ASSUME NoActorAssumption  == NoActor \notin Actors
ASSUME BoundsAssumption   ==
    /\ MaxInvocations \in Nat /\ MaxFaults \in Nat
    /\ DispatchBuffer \in Nat \ {0} /\ ResponseBuffer \in Nat \ {0}
ASSUME FaultsAssumption   == FaultKinds \subseteq AllFaults
ASSUME RequestsAssumption == Requests \subseteq {"sync", "async", "get"}

VARIABLES
    rows,      \* the invocations table
    nextId,    \* the sequence behind invocations.id
    stream,    \* NOTIFYs sent and not yet handled by deliverNotifications
    tokens,    \* wake-up tokens buffered in each dispatcher channel
    channels,  \* actors whose queue has a dispatcher channel
    wpc,       \* where each worker's handler stands
    wid,       \* the invocation a worker's handler holds
    gone,      \* workers whose client hung up while the handler runs
    cpc,       \* where each caller's handler stands
    kind,      \* the request of each caller
    cid,       \* the invocation each caller asks about
    inbox,     \* responseCh of each caller
    subs,      \* callers with a subscription to the response topic
    answer,    \* what each caller was told
    missed,    \* callers whose own response found their responseCh full
    faults     \* faults so far

tableVars  == <<rows, nextId>>
workerVars == <<wpc, wid, gone>>
callerVars == <<cpc, kind, cid, inbox, subs, answer, missed>>
dispatchVars == <<tokens, channels>>
vars == <<tableVars, stream, dispatchVars, workerVars, callerVars, faults>>

-------------------------------------------------------------------------------
(* Types and null records *)

Ids       == 1 .. MaxInvocations
NoId      == 0
Final     == {"completed", "discarded"}
RowStates == {"absent", "available", "running"} \cup Final

NoRow     == [state |-> "absent", queue |-> NoActor, attemptedBy |-> << >>]
Via(v)    == [via |-> v, state |-> "absent"]    \* why a handler stops waiting

Invoke(a)   == [topic |-> "invoke", queue |-> a, id |-> NoId]
Response(i) == [topic |-> "response", queue |-> NoActor, id |-> i]
Messages    == {Invoke(a) : a \in Actors} \cup {Response(i) : i \in Ids}

Row      == [state : RowStates, queue : Actors \cup {NoActor}, attemptedBy : Seq(Actors)]
Answer   == [via : {"none", "match", "timeout", "direct", "failed"}, state : RowStates]
WorkerPC == {"idle", "poll", "lastPoll", "gap", "parked", "reply", "notify"}
CallerPC == {"idle", "insert", "announce", "wait", "read", "done"}

TypeOK ==
    /\ rows \in [Ids -> Row]
    /\ nextId \in 1 .. MaxInvocations + 1
    /\ stream \in Seq(Messages)
    /\ tokens \in [Actors -> 0 .. DispatchBuffer]
    /\ channels \subseteq Actors
    /\ \A a \in Actors : tokens[a] > 0 => a \in channels
    /\ wpc \in [Workers -> WorkerPC]
    /\ wid \in [Workers -> Ids \cup {NoId}]
    /\ gone \subseteq Workers
    /\ cpc \in [Callers -> CallerPC]
    /\ kind \in [Callers -> {"none", "sync", "async", "get"}]
    /\ cid \in [Callers -> Ids \cup {NoId}]
    /\ inbox \in [Callers -> Seq(Ids)]
    /\ subs \subseteq Callers
    /\ answer \in [Callers -> Answer]
    /\ missed \subseteq Callers
    /\ faults \in 0 .. MaxFaults

Init ==
    /\ rows = [i \in Ids |-> NoRow]
    /\ nextId = 1
    /\ stream = << >>
    /\ tokens = [a \in Actors |-> 0]
    /\ channels = {}
    /\ wpc = [w \in Workers |-> "idle"]
    /\ wid = [w \in Workers |-> NoId]
    /\ gone = {}
    /\ cpc = [c \in Callers |-> "idle"]
    /\ kind = [c \in Callers |-> "none"]
    /\ cid = [c \in Callers |-> NoId]
    /\ inbox = [c \in Callers |-> << >>]
    /\ subs = {}
    /\ answer = [c \in Callers |-> Via("none")]
    /\ missed = {}
    /\ faults = 0

Fault(f) ==
    /\ f \in FaultKinds /\ faults < MaxFaults
    /\ faults' = faults + 1

-------------------------------------------------------------------------------
(* Callers: ExecuteInvocationSync, InsertInvocation and GetInvocationById.   *)
(* An operator Op_Variant states Op with one mistake in it; nothing uses it. *)

\* Listen on the response topic.  The handlers discard its error and go on.
Subscribe(c) == \/ subs' = subs \cup {c} /\ UNCHANGED faults
                \/ UNCHANGED subs /\ Fault("dberror")

BeginSync(c) ==
    /\ cpc[c] = "idle" /\ "sync" \in Requests
    /\ cpc' = [cpc EXCEPT ![c] = "insert"]
    /\ kind' = [kind EXCEPT ![c] = "sync"]
    /\ Subscribe(c)
    /\ UNCHANGED <<tableVars, stream, dispatchVars, workerVars, cid, inbox, answer, missed>>

BeginAsync(c) ==
    /\ cpc[c] = "idle" /\ "async" \in Requests
    /\ cpc' = [cpc EXCEPT ![c] = "insert"]
    /\ kind' = [kind EXCEPT ![c] = "async"]
    /\ UNCHANGED <<tableVars, stream, dispatchVars, workerVars, cid, inbox, subs, answer,
                   missed, faults>>

BeginGet(c, i) ==                   \* without ?wait the row is read at once
    /\ cpc[c] = "idle" /\ "get" \in Requests
    /\ kind' = [kind EXCEPT ![c] = "get"]
    /\ cid' = [cid EXCEPT ![c] = i]
    /\ \/ /\ cpc' = [cpc EXCEPT ![c] = "wait"]
          /\ Subscribe(c)
          /\ UNCHANGED answer
       \/ /\ cpc' = [cpc EXCEPT ![c] = "read"]
          /\ answer' = [answer EXCEPT ![c] = Via("direct")]
          /\ UNCHANGED <<subs, faults>>
    /\ UNCHANGED <<tableVars, stream, dispatchVars, workerVars, inbox, missed>>

\* The handler returns; its deferred Unlisten drops the subscription.
Finished(c, via, state) ==
    /\ cpc' = [cpc EXCEPT ![c] = "done"]
    /\ subs' = subs \ {c}
    /\ answer' = [answer EXCEPT ![c] = [via |-> via, state |-> state]]

Insert(c, a) ==                     \* InvocationInsert for an existing actor
    /\ cpc[c] = "insert" /\ nextId \in Ids
    /\ rows' = [rows EXCEPT ![nextId] =
                   [state |-> "available", queue |-> a, attemptedBy |-> << >>]]
    /\ nextId' = nextId + 1
    /\ cid' = [cid EXCEPT ![c] = nextId]
    /\ \/ cpc' = [cpc EXCEPT ![c] = "announce"] /\ UNCHANGED <<subs, answer, faults>>
       \/ Fault("dberror") /\ Finished(c, "failed", "absent")     \* committed, the answer lost
    /\ UNCHANGED <<stream, dispatchVars, workerVars, kind, inbox, missed>>

InsertRejected(c) ==                \* no such actor: 400
    /\ cpc[c] = "insert"
    /\ Finished(c, "failed", "absent")
    /\ UNCHANGED <<tableVars, stream, dispatchVars, workerVars, kind, cid, inbox, missed, faults>>

\* What follows PgNotifyOne, whose error is ignored: the asynchronous call
\* answers 201, the synchronous one starts to wait.
AfterAnnounce(c) ==
    /\ \/ /\ kind[c] = "sync"
          /\ cpc' = [cpc EXCEPT ![c] = "wait"]
          /\ UNCHANGED <<subs, answer>>
       \/ /\ kind[c] = "async"
          /\ Finished(c, "direct", "available")
    /\ UNCHANGED <<tableVars, dispatchVars, workerVars, kind, cid, inbox, missed>>

Sent_Nothing(m) == stream
Sent(m) == Append(stream, m)        \* PgNotifyOne

Announce(c) ==
    /\ cpc[c] = "announce"
    /\ stream' = Sent(Invoke(rows[cid[c]].queue))
    /\ AfterAnnounce(c)
    /\ UNCHANGED faults

AnnounceFails(c) ==
    /\ cpc[c] = "announce"
    /\ Fault("dberror")
    /\ AfterAnnounce(c)
    /\ UNCHANGED stream

IsMine_Any(c) == TRUE
IsMine(c) == Head(inbox[c]) = cid[c]

TakeResponse(c) ==                  \* response := <-responseCh
    /\ cpc[c] = "wait" /\ inbox[c] # << >>
    /\ inbox' = [inbox EXCEPT ![c] = Tail(@)]
    /\ \/ /\ IsMine(c)
          /\ cpc' = [cpc EXCEPT ![c] = "read"]
          /\ answer' = [answer EXCEPT ![c] = Via("match")]
       \/ /\ ~IsMine(c)
          /\ UNCHANGED <<cpc, answer>>
    /\ UNCHANGED <<tableVars, stream, dispatchVars, workerVars, kind, cid, subs, missed, faults>>

WaitExpires(c) ==                   \* <-timeContext.Done()
    /\ cpc[c] = "wait"
    /\ cpc' = [cpc EXCEPT ![c] = "read"]
    /\ answer' = [answer EXCEPT ![c] = Via("timeout")]
    /\ UNCHANGED <<tableVars, stream, dispatchVars, workerVars, kind, cid, inbox, subs, missed,
                   faults>>

Latest_AsInserted(c) == IF answer[c].via = "match" THEN rows[cid[c]].state ELSE "available"
Latest(c)            == rows[cid[c]].state

\* InvocationFindById, then the response; after a Listen that failed the deferred
\* Unlisten dereferences nil instead, and nobody is answered.
ReadRow(c) ==
    /\ cpc[c] = "read"
    /\ \/ /\ c \in subs \/ answer[c].via = "direct"
          /\ Finished(c, answer[c].via, Latest(c))
       \/ /\ c \notin subs /\ answer[c].via # "direct"
          /\ Finished(c, "failed", "absent")
    /\ UNCHANGED <<tableVars, stream, dispatchVars, workerVars, kind, cid, inbox, missed, faults>>

CallerFails(c) ==                   \* the insert or the read fails: no answer
    /\ cpc[c] \in {"insert", "read"}
    /\ Fault("dberror")
    /\ Finished(c, "failed", "absent")
    /\ UNCHANGED <<tableVars, stream, dispatchVars, workerVars, kind, cid, inbox, missed>>

-------------------------------------------------------------------------------
(* Workers: GetNextInvocation and ReturnInvocation{Response,Error} *)

Available_NotFinal(a) ==
    {i \in Ids : rows[i].state \in {"available", "running"} /\ rows[i].queue = a}
Available(a) == {i \in Ids : rows[i].state = "available" /\ rows[i].queue = a}
Parked(a) == {w \in Workers : ActorOf[w] = a /\ wpc[w] = "parked"}

Oldest_Any(i, a) == i \in Available(a)
Oldest(i, a)     == i \in Available(a) /\ \A j \in Available(a) : i <= j

\* Where the loop of GetNextInvocation goes when WaitFor returns with a token,
\* and with nil: no time remains, so there is one poll left.
AfterToken_Waits == "gap"
AfterToken       == "poll"
AfterTimeout_Waits == "gap"
AfterTimeout     == "lastPoll"

\* Dispatcher.Listen creates the channel before the first poll.
Listening_Late(w) == channels
Listening(w)      == channels \cup {ActorOf[w]}

\* The handler of w stands at pc; when it has returned, the slot is free.
Goto(w, pc) ==
    /\ wpc' = [wpc EXCEPT ![w] = pc]
    /\ gone' = IF pc = "idle" THEN gone \ {w} ELSE gone

BeginGetNext(w) ==
    /\ wpc[w] = "idle"
    /\ channels' = Listening(w)
    /\ Goto(w, "poll")
    /\ UNCHANGED <<tableVars, stream, tokens, wid, callerVars, faults>>

PollTakes(w, i) ==                  \* InvocationGetAvailable returns a row
    /\ wpc[w] \in {"poll", "lastPoll"} /\ w \notin gone
    /\ Oldest(i, ActorOf[w])
    /\ rows' = [rows EXCEPT ![i] =
                   [state |-> "running", queue |-> @.queue,
                    attemptedBy |-> Append(@.attemptedBy, ActorOf[w])]]
    /\ \/ wid' = [wid EXCEPT ![w] = i] /\ Goto(w, "reply") /\ UNCHANGED faults
       \/ UNCHANGED wid /\ Goto(w, "idle") /\ Fault("dberror")    \* committed, the answer lost
    /\ UNCHANGED <<nextId, stream, dispatchVars, callerVars>>

PollFindsNone(w) ==                 \* wait on, or 404 when no time remains
    /\ wpc[w] \in {"poll", "lastPoll"} /\ w \notin gone
    /\ Available(ActorOf[w]) = {}
    /\ \/ wpc[w] = "poll" /\ Goto(w, "gap")
       \/ Goto(w, "idle")
    /\ UNCHANGED <<tableVars, stream, dispatchVars, wid, callerVars, faults>>

PollCancelled(w) ==                 \* the request context is done: 500
    /\ wpc[w] \in {"poll", "lastPoll"} /\ w \in gone
    /\ Goto(w, "idle")
    /\ UNCHANGED <<tableVars, stream, dispatchVars, wid, callerVars, faults>>

PollFails(w) ==                     \* the database fails: 500
    /\ wpc[w] \in {"poll", "lastPoll"}
    /\ Fault("dberror")
    /\ Goto(w, "idle")
    /\ UNCHANGED <<tableVars, stream, dispatchVars, wid, callerVars>>

WaitFor(w) ==                       \* take a buffered token, or block
    /\ wpc[w] = "gap"
    /\ \/ /\ tokens[ActorOf[w]] > 0
          /\ tokens' = [tokens EXCEPT ![ActorOf[w]] = @ - 1]
          /\ Goto(w, AfterToken)
       \/ /\ tokens[ActorOf[w]] = 0
          /\ Goto(w, "parked")
          /\ UNCHANGED tokens
    /\ UNCHANGED <<tableVars, stream, channels, wid, callerVars, faults>>

WaitForExpires(w) ==                \* <-time.After(timeout)
    /\ wpc[w] = "parked"
    /\ Goto(w, AfterTimeout)
    /\ UNCHANGED <<tableVars, stream, dispatchVars, wid, callerVars, faults>>

Reply(w) ==                         \* 200 with the job, if anyone still reads
    /\ wpc[w] = "reply"
    /\ Goto(w, "idle")
    /\ wid' = [wid EXCEPT ![w] = NoId]
    /\ UNCHANGED <<tableVars, stream, dispatchVars, callerVars, faults>>

ClientGone(w) ==                    \* the client of a running GetNext hangs up
    /\ wpc[w] \in {"poll", "lastPoll", "gap", "parked"} /\ w \notin gone
    /\ Fault("gone")
    /\ gone' = gone \cup {w}
    /\ UNCHANGED <<tableVars, stream, dispatchVars, wpc, wid, callerVars>>

\* InvocationSetCompleteIfRunning / InvocationSetFailureIfRunning: the row must
\* be running and its last attempt that of the requesting actor.
LastAttempt(i) == rows[i].attemptedBy[Len(rows[i].attemptedBy)]

MayFinish_AnyState(w, i) ==
    Len(rows[i].attemptedBy) > 0 /\ LastAttempt(i) = ActorOf[w]
MayFinish(w, i) ==
    /\ rows[i].state = "running"
    /\ Len(rows[i].attemptedBy) > 0 /\ LastAttempt(i) = ActorOf[w]

FinishedRow_Uncommitted(i, outcome) == rows
FinishedRow(i, outcome) == [rows EXCEPT ![i] = [@ EXCEPT !.state = outcome]]

\* A request that may not finish the row is answered 404 and changes nothing.
ReturnCommit(w, i, outcome) ==
    /\ wpc[w] = "idle"
    /\ MayFinish(w, i)
    /\ rows' = FinishedRow(i, outcome)
    /\ \/ wid' = [wid EXCEPT ![w] = i] /\ Goto(w, "notify") /\ UNCHANGED faults
       \/ UNCHANGED workerVars /\ Fault("dberror")                \* committed, the answer lost
    /\ UNCHANGED <<nextId, stream, dispatchVars, callerVars>>

ReturnNotify(w) ==                  \* PgNotifyOne, then 200
    /\ wpc[w] = "notify"
    /\ stream' = Sent(Response(wid[w]))
    /\ wid' = [wid EXCEPT ![w] = NoId]
    /\ Goto(w, "idle")
    /\ UNCHANGED <<tableVars, dispatchVars, callerVars, faults>>

ReturnNotifyFails(w) ==
    /\ wpc[w] = "notify"
    /\ Fault("dberror")
    /\ wid' = [wid EXCEPT ![w] = NoId]
    /\ Goto(w, "idle")
    /\ UNCHANGED <<tableVars, stream, dispatchVars, callerVars>>

-------------------------------------------------------------------------------
(* The notifier's delivery goroutine *)

HasRoom_Unheard(a) == tokens[a] < DispatchBuffer
HasRoom(a)         == a \in channels /\ tokens[a] < DispatchBuffer

\* Dispatch: a channel send hands the token to a blocked receiver, else buffers
\* it, else (channel full, or nobody ever listened) drops it.
Dispatch(a) ==
    \/ /\ Parked(a) # {}
       /\ \E w \in Parked(a) : wpc' = [wpc EXCEPT ![w] = AfterToken]
       /\ UNCHANGED tokens
    \/ /\ Parked(a) = {}
       /\ tokens' = IF HasRoom(a) THEN [tokens EXCEPT ![a] = @ + 1]
                               ELSE tokens
       /\ UNCHANGED wpc

DeliverInvoke ==                    \* handleInvokeNotify
    /\ stream # << >> /\ Head(stream).topic = "invoke"
    /\ stream' = Tail(stream)
    /\ Dispatch(Head(stream).queue)
    /\ UNCHANGED <<tableVars, channels, wid, gone, callerVars, faults>>

\* The callback of a subscription sends without blocking.  A response that finds the
\* channel full is dropped, the caller's own among them.
Accepts_OneLess(c) == c \in subs /\ Len(inbox[c]) + 1 < ResponseBuffer
Accepts(c)         == c \in subs /\ Len(inbox[c]) < ResponseBuffer

DeliverResponse ==                  \* the callback of every subscription
    /\ stream # << >> /\ Head(stream).topic = "response"
    /\ stream' = Tail(stream)
    /\ inbox' = [c \in Callers |->
                    IF Accepts(c) THEN Append(inbox[c], Head(stream).id)
                                  ELSE inbox[c]]
    /\ missed' = missed \cup {c \in subs : /\ Len(inbox[c]) >= ResponseBuffer
                                           /\ cid[c] = Head(stream).id}
    /\ UNCHANGED <<tableVars, dispatchVars, workerVars, cpc, kind, cid, subs, answer, faults>>

LoseNotification ==                 \* notificationBuf full, or reconnecting
    /\ stream # << >>
    /\ Fault("lose")
    /\ stream' = Tail(stream)
    /\ UNCHANGED <<tableVars, dispatchVars, workerVars, callerVars>>

\* The process dies and restarts: the table survives, every handler, buffer,
\* subscription and undelivered notification is gone.
Crash ==
    /\ Fault("crash")
    /\ stream' = << >>
    /\ tokens' = [a \in Actors |-> 0]
    /\ channels' = {}
    /\ wpc' = [w \in Workers |-> "idle"]
    /\ wid' = [w \in Workers |-> NoId]
    /\ gone' = {}
    /\ cpc' = [c \in Callers |-> IF cpc[c] = "idle" THEN "idle" ELSE "done"]
    /\ inbox' = [c \in Callers |-> << >>]
    /\ subs' = {}
    /\ answer' = [c \in Callers |-> IF cpc[c] \in {"idle", "done"} THEN answer[c]
                                    ELSE Via("failed")]
    /\ UNCHANGED <<tableVars, kind, cid, missed>>

-------------------------------------------------------------------------------
CallerStep(c) ==
    \/ \E a \in Actors : Insert(c, a)
    \/ InsertRejected(c) \/ Announce(c) \/ AnnounceFails(c)
    \/ TakeResponse(c) \/ WaitExpires(c) \/ ReadRow(c) \/ CallerFails(c)

CallerBegins(c) == BeginSync(c) \/ BeginAsync(c) \/ \E i \in Ids : BeginGet(c, i)

WorkerStep(w) ==
    \/ \E i \in Ids : PollTakes(w, i)
    \/ PollFindsNone(w) \/ PollCancelled(w) \/ PollFails(w)
    \/ WaitFor(w) \/ WaitForExpires(w) \/ Reply(w)
    \/ ReturnNotify(w) \/ ReturnNotifyFails(w)

WorkerBegins(w) ==
    \/ BeginGetNext(w) \/ ClientGone(w)
    \/ \E i \in Ids, outcome \in Final : ReturnCommit(w, i, outcome)

Delivery == DeliverInvoke \/ DeliverResponse

Next ==
    \/ \E c \in Callers : CallerBegins(c) \/ CallerStep(c)
    \/ \E w \in Workers : WorkerBegins(w) \/ WorkerStep(w)
    \/ Delivery \/ LoseNotification \/ Crash

Spec == Init /\ [][Next]_vars
\* Fairness: goroutines keep running, and so does the delivery goroutine.  The
\* timers are left out: nothing below may depend on one firing.
CallerWorks(c) == \/ \E a \in Actors : Insert(c, a)
                  \/ InsertRejected(c) \/ Announce(c) \/ TakeResponse(c) \/ ReadRow(c)

WorkerWorks(w) == \/ \E i \in Ids : PollTakes(w, i)
                  \/ PollFindsNone(w) \/ PollCancelled(w) \/ WaitFor(w)
                  \/ Reply(w) \/ ReturnNotify(w)

FairSpec == /\ Spec
            /\ \A c \in Callers : WF_vars(CallerWorks(c))
            /\ \A w \in Workers : WF_vars(WorkerWorks(w))
            /\ WF_vars(Delivery)

\* The timers fire, as Go's do.
TimersFire == /\ \A c \in Callers : WF_vars(WaitExpires(c))
              /\ \A w \in Workers : WF_vars(WaitForExpires(w))

-------------------------------------------------------------------------------
(* Safety *)

\* An invocation is handed over at most once, to the actor it was addressed to,
\* and only then can it be running or final (InvocationGetAvailable's lock and
\* the finalizer check of InvocationSetCompleteIfRunning).
TakenOnce ==
    \A i \in Ids :
        /\ rows[i].state \in {"absent", "available"} => rows[i].attemptedBy = << >>
        /\ rows[i].state \in {"running"} \cup Final =>
               rows[i].attemptedBy = <<rows[i].queue>>

\* A response notification never overtakes the row it announces: whoever holds
\* one, in the stream or in a responseCh, finds the row final
\* (ReturnInvocationResponse notifies after its UPDATE).
ResponsesAreTrue ==
    /\ \A k \in 1 .. Len(stream) :
           stream[k].topic = "response" => rows[stream[k].id].state \in Final
    /\ \A c \in Callers : \A k \in 1 .. Len(inbox[c]) :
           rows[inbox[c][k]].state \in Final

\* A caller that was woken by its own response, and not by its timer, is told a
\* final state (the match in the wait loop of ExecuteInvocationSync and
\* GetInvocationById).
WokenCallersGetResults ==
    \A c \in Callers :
        cpc[c] = "done" /\ answer[c].via = "match" => answer[c].state \in Final

\* A final state a caller was told stays true for ever: no retried or late
\* Return request, of any worker, changes it (the state = 'running' guards).
FinalAnswersStand ==
    \A c \in Callers :
        answer[c].state \in Final => rows[cid[c]].state = answer[c].state

\* A fault costs one wake-up at most, and nothing else does: while a GetNext handler
\* is blocked in WaitFor, every available invocation of its queue but for one per
\* fault is matched by a wake-up still on its way - an insert about to be notified,
\* a notification in the stream, or a handler about to poll (insert-then-notify,
\* Listen before the first poll, and a channel with room for every handler).
Announcing(a)  == {c \in Callers : cpc[c] = "announce" /\ rows[cid[c]].queue = a}
InStream(a)    == {k \in 1 .. Len(stream) : stream[k] = Invoke(a)}
Polling(a)     == {w \in Workers : ActorOf[w] = a /\ wpc[w] \in {"poll", "lastPoll"}}

NoLostWakeup ==
    \A a \in Actors :
        Parked(a) # {} =>
            Cardinality(Available(a)) <= Cardinality(Announcing(a))
                + Cardinality(InStream(a)) + Cardinality(Polling(a)) + faults

\* A waiting caller's response is still on its way: about to be notified, in
\* the stream, or in its responseCh.
ResponseOnItsWay(c) ==
    \/ \E w \in Workers : wpc[w] = "notify" /\ wid[w] = cid[c]
    \/ \E k \in 1 .. Len(stream) : stream[k] = Response(cid[c])
    \/ \E k \in 1 .. Len(inbox[c]) : inbox[c][k] = cid[c]

\* A synchronous caller misses its response only when its responseCh was full of
\* others: it subscribes before it inserts ("subscript to response topic before
\* insert invocation", "we keep 64 buffer size to avoid missing response").
SyncResponseNotMissed ==
    \A c \in Callers :
        faults = 0 /\ cpc[c] = "wait" /\ kind[c] = "sync" /\ rows[cid[c]].state \in Final
            => ResponseOnItsWay(c) \/ c \in missed

\* A caller whose responseCh overflowed is told the result all the same, unless its
\* read fails: the timer leads to a read of the row; and it takes as many results
\* of others as the channel has places (the two exits of the wait loop).
MissedResponsesAreRead ==
    \A c \in missed :
        /\ cpc[c] = "done" /\ answer[c].via # "failed" => answer[c].state \in Final
        /\ Cardinality({i \in Ids \ {cid[c]} : rows[i].state \in Final}) >= ResponseBuffer

-------------------------------------------------------------------------------
(* Liveness *)

\* Without any timer firing, and without faults, an available invocation is
\* taken, or no handler is left asleep on its queue (the dispatcher wakes one
\* per notification).
PromptHandOver ==
    \A i \in Ids, a \in Actors :
        rows[i].state = "available" /\ rows[i].queue = a /\ Parked(a) # {}
            ~> rows[i].state # "available" \/ Parked(a) = {} \/ faults > 0

\* Without any timer firing, and without faults, a synchronous call whose
\* invocation was finished is answered (the response notification reaches its
\* responseCh, unless that is full).
PromptResponse ==
    \A c \in Callers :
        kind[c] = "sync" /\ cpc[c] = "wait" /\ rows[cid[c]].state \in Final
            ~> cpc[c] = "done" \/ c \in missed \/ faults > 0

\* Whatever is lost or crashes, every request is answered: the timers bound
\* each wait loop.
EveryCallAnswered ==
    TimersFire =>
        /\ \A c \in Callers : cpc[c] # "idle" ~> cpc[c] = "done"
        /\ \A w \in Workers : wpc[w] # "idle" ~> wpc[w] = "idle"

-------------------------------------------------------------------------------
(* The promise this module implements *)

Taker(i) == IF rows[i].attemptedBy = << >> THEN NoActor ELSE LastAttempt(i)

Promise == INSTANCE InvocationQueue
               WITH state <- [i \in Ids |-> rows[i].state],
                    queue <- [i \in Ids |-> rows[i].queue],
                    taker <- [i \in Ids |-> Taker(i)]

\* The handlers, seen through the table alone, keep the promise of
\* InvocationQueue: oldest first, one taker, one result.
KeepsPromise == Promise!Spec
=============================================================================
