------------------------------- MODULE Notifier -------------------------------
(***************************************************************************)
(* src/internal/notifier/notifier.go: one goroutine (the main loop) owns a *)
(* Postgres connection and waits on it for notifications.  Clients call    *)
(* Listen and Unlisten; while the main loop waits, they send it an         *)
(* interrupt operation through waitInterruptChan, cancel its wait, and     *)
(* release n.mu until the answer arrives.                                  *)
(*                                                                         *)
(* A step is what happens between two operations that other goroutines can *)
(* see.  A critical section of n.mu is one step, except where the code     *)
(* releases the mutex within it or blocks while it holds it.  The          *)
(* notifications themselves are not part of this module.                   *)
(***************************************************************************)
EXTENDS Naturals, Sequences, FiniteSets

CONSTANTS
    Clients,         \* one subscription each: a Listen, later its Unlisten
    Topics,
    TopicOf,         \* the topic each client subscribes to
    InvokeSub,       \* the subscriptions that Manager.Start makes
    ResponseSub,
    Impatient,       \* clients whose context may be cancelled during Listen
    Capacity,        \* the size of waitInterruptChan, 10 in the code
    SlowOperations,  \* may an operation outlast the 5 seconds a client waits for it?
    MaxFaults,       \* bound: connection faults in one behaviour
    None

ASSUME TopicOfAssumption   == TopicOf \in [Clients -> Topics]
ASSUME ClientsAssumption   == {InvokeSub, ResponseSub} \subseteq Clients
                              /\ Impatient \subseteq Clients
ASSUME CapacityAssumption  == Capacity \in Nat \ {0}
ASSUME SlowAssumption      == SlowOperations \in BOOLEAN
ASSUME MaxFaultsAssumption == MaxFaults \in Nat
ASSUME NoneAssumption      == None \notin Clients

VARIABLES
    mu,              \* who holds n.mu between two steps
    isStarted, isWaiting,
    subscriptions,   \* n.subscriptions: a topic without any has no key
    queue,           \* n.waitInterruptChan
    waitCancelled,   \* n.waitCancel was called for the current wait
    conn,            \* the connection: "none" stands for isConnected = FALSE
    listening,       \* topics LISTENed on the connection
    faults,
    main,            \* where the main loop stands
    todo,            \* topics it has still to LISTEN after it connected
    failed,          \* the error it leaves listenAndWait with
    reply,           \* the answer it hands to a client
    cancelled,       \* the service's context is done: Stop was called
    pc, op, result   \* per client: where it stands, in which call, the call's result

clientVars == <<pc, op, result>>
connVars   == <<conn, listening, faults>>
mainVars   == <<main, todo, failed, reply>>
vars == <<mu, isStarted, isWaiting, subscriptions, queue, waitCancelled, connVars,
          mainVars, cancelled, clientVars>>

Interrupts == [client : Clients, op : {"listen", "unlisten"}]

TypeOK ==
    /\ mu \in Clients \cup {None}
    /\ isStarted \in BOOLEAN /\ isWaiting \in BOOLEAN
    /\ waitCancelled \in BOOLEAN /\ cancelled \in BOOLEAN
    /\ subscriptions \in [Topics -> SUBSET Clients]
    /\ queue \in Seq(Interrupts) /\ Len(queue) <= Capacity
    /\ conn \in {"none", "up", "silent", "broken"}
    /\ listening \subseteq Topics /\ todo \subseteq Topics
    /\ faults \in 0 .. MaxFaults
    /\ main \in {"off", "begin", "connect", "topics", "listen", "loop", "drain", "reply",
                 "wait", "exit", "close", "backoff", "ending", "unstart", "stopped"}
    /\ failed \in {"none", "canceled", "error"}
    /\ reply \in [to : Interrupts \cup {None}, ok : BOOLEAN]
    /\ pc \in [Clients -> {"idle", "push", "await", "relock", "subscribed", "done"}]
    /\ op \in [Clients -> {"none", "listen", "unlisten"}]
    /\ result \in [Clients -> BOOLEAN]

Init ==
    /\ mu = None /\ isStarted = FALSE /\ isWaiting = FALSE
    /\ subscriptions = [t \in Topics |-> {}]
    /\ queue = << >> /\ waitCancelled = FALSE
    /\ conn = "none" /\ listening = {} /\ faults = 0
    /\ main = "off" /\ todo = {} /\ failed = "none"
    /\ reply = [to |-> None, ok |-> FALSE]
    /\ cancelled = FALSE
    /\ pc = [c \in Clients |-> "idle"]
    /\ op = [c \in Clients |-> "none"]
    /\ result = [c \in Clients |-> FALSE]

-------------------------------------------------------------------------------
Free        == mu = None
Subs(c)     == subscriptions[TopicOf[c]]
Subscribed  == {t \in Topics : subscriptions[t] # {}}
With(c)     == [subscriptions EXCEPT ![TopicOf[c]] = @ \cup {c}]
Without(c)  == [subscriptions EXCEPT ![TopicOf[c]] = @ \ {c}]
Goto(c, l)  == pc' = [pc EXCEPT ![c] = l]

\* PgListener; a connection that is there is kept.
Connected   == conn' = IF conn = "none" THEN "up" ELSE conn
Closed      == conn' = "none" /\ listening' = {}
Listened(t)   == listening' = listening \cup {t}
Unlistened(t) == listening' = listening \ {t}

\* A LISTEN or UNLISTEN that fails on a live connection by timing out makes the
\* driver close it.
Failed == conn' = "broken" /\ UNCHANGED listening

\* sendInterruptAndReceiveResult, entered with n.mu held.  With the channel full
\* the client blocks and keeps the mutex; nothing ends that, because the main loop
\* reads the channel only after it took the mutex to reset isWaiting.
Room_Always == TRUE
Room        == Len(queue) < Capacity

WaitCancel_Forgotten == waitCancelled
WaitCancel           == TRUE

Interrupt(c, o) ==
    /\ op' = [op EXCEPT ![c] = o]
    /\ \/ /\ Room
          /\ queue' = Append(queue, [client |-> c, op |-> o])
          /\ waitCancelled' = WaitCancel
          /\ Goto(c, "await") /\ UNCHANGED mu
       \/ /\ ~Room /\ Goto(c, "push") /\ mu' = c
          /\ UNCHANGED <<queue, waitCancelled>>

-------------------------------------------------------------------------------
(* Listen *)

Join(c) ==                       \* the topic is known: nothing to do but to join
    /\ pc[c] = "idle" /\ Free /\ Subs(c) # {}
    /\ subscriptions' = With(c)
    /\ Goto(c, "subscribed")
    /\ UNCHANGED <<mu, isStarted, isWaiting, queue, waitCancelled, connVars, mainVars,
                   cancelled, op, result>>

ListenWaiting(c) ==
    /\ pc[c] = "idle" /\ Free /\ Subs(c) = {} /\ isWaiting
    /\ subscriptions' = With(c)
    /\ Interrupt(c, "listen")
    /\ UNCHANGED <<isStarted, isWaiting, connVars, mainVars, cancelled, result>>

ListenDirect(c) ==               \* listenerConnect and listenerListen under n.mu
    /\ pc[c] = "idle" /\ Free /\ Subs(c) = {} /\ ~isWaiting
    /\ conn \in {"none", "up"}
    /\ Connected /\ Listened(TopicOf[c])
    /\ subscriptions' = With(c)
    /\ Goto(c, "subscribed")
    /\ UNCHANGED <<mu, isStarted, isWaiting, queue, waitCancelled, faults, mainVars,
                   cancelled, op, result>>

ListenDirectNoConn(c) ==         \* listenerConnect fails
    /\ pc[c] = "idle" /\ Free /\ Subs(c) = {} /\ ~isWaiting /\ conn = "none"
    /\ Goto(c, "done")
    /\ UNCHANGED <<mu, isStarted, isWaiting, subscriptions, queue, waitCancelled,
                   connVars, mainVars, cancelled, op, result>>

\* An operator Op_Variant states Op with one mistake in it; nothing uses it.
ClosesUnused_Always == TRUE
ClosesUnused        == conn = "none" /\ ~isStarted      \* justConnected && !n.isStarted

ListenDirectFails(c) ==          \* listenerListen fails
    /\ pc[c] = "idle" /\ Free /\ Subs(c) = {} /\ ~isWaiting
    /\ \/ ClosesUnused /\ Closed
       \/ ~ClosesUnused /\ Failed
       \/ ~ClosesUnused /\ c \in Impatient /\ conn \in {"none", "up"} /\ conn' = "up"
          /\ UNCHANGED listening
    /\ Goto(c, "done")
    /\ UNCHANGED <<mu, isStarted, isWaiting, subscriptions, queue, waitCancelled, faults,
                   mainVars, cancelled, op, result>>

-------------------------------------------------------------------------------
(* Unlisten *)

LastOne_OrNext(c) == Cardinality(Subs(c)) <= 2
LastOne(c)        == Cardinality(Subs(c)) <= 1

Unlistens(c) == pc[c] = "subscribed" /\ Free

Leave(c) ==                      \* others stay, or there is no connection
    /\ Unlistens(c)
    /\ ~LastOne(c) \/ (~isWaiting /\ conn = "none")
    /\ subscriptions' = Without(c)
    /\ Goto(c, "done")
    /\ UNCHANGED <<mu, isStarted, isWaiting, queue, waitCancelled, connVars, mainVars,
                   cancelled, op, result>>

UnlistenWaiting(c) ==
    /\ Unlistens(c) /\ LastOne(c) /\ isWaiting
    /\ Interrupt(c, "unlisten")
    /\ UNCHANGED <<isStarted, isWaiting, subscriptions, connVars, mainVars, cancelled,
                   result>>

UnlistenDirect(c) ==
    /\ Unlistens(c) /\ LastOne(c) /\ ~isWaiting /\ conn = "up"
    /\ IF ~isStarted /\ Cardinality(Subscribed) <= 1
       THEN Closed
       ELSE Unlistened(TopicOf[c]) /\ UNCHANGED conn
    /\ subscriptions' = Without(c)
    /\ Goto(c, "done")
    /\ UNCHANGED <<mu, isStarted, isWaiting, queue, waitCancelled, faults, mainVars,
                   cancelled, op, result>>

UnlistenDirectFails(c) ==        \* the subscription stays in the map
    /\ Unlistens(c) /\ LastOne(c) /\ ~isWaiting /\ conn # "none"
    /\ Failed /\ Goto(c, "done")
    /\ UNCHANGED <<mu, isStarted, isWaiting, subscriptions, queue, waitCancelled, faults,
                   mainVars, cancelled, op, result>>

-------------------------------------------------------------------------------
(* The rest of sendInterruptAndReceiveResult *)

TimesOut(c) ==                   \* "timed out waiting for interrupt operation"
    /\ SlowOperations /\ pc[c] = "await"
    /\ Goto(c, "relock") /\ result' = [result EXCEPT ![c] = FALSE]
    /\ UNCHANGED <<mu, isStarted, isWaiting, subscriptions, queue, waitCancelled,
                   connVars, mainVars, cancelled, op>>

\* n.mu.Lock() again, then the end of Listen or unlisten: an error removes a new
\* subscription, and keeps an old one.
Relock(c) ==
    /\ pc[c] = "relock" /\ Free
    /\ subscriptions' = IF (op[c] = "listen") = result[c] THEN subscriptions ELSE Without(c)
    /\ Goto(c, IF op[c] = "listen" /\ result[c] THEN "subscribed" ELSE "done")
    /\ UNCHANGED <<mu, isStarted, isWaiting, queue, waitCancelled, connVars, mainVars,
                   cancelled, op, result>>

-------------------------------------------------------------------------------
(* The main loop: Start and the goroutine it spawns *)

At(l)   == main = l
Main(l) == main' = l

\* BaseStartStop: a service is started once, and told to stop by its context.
StartInit == At("off")
StopInit  == main \notin {"off", "stopped"} /\ ~cancelled /\ cancelled' = TRUE

Start ==                         \* one initial connect, under n.mu
    /\ StartInit /\ Free
    /\ \/ Main("begin") /\ Connected
       \/ Main("stopped") /\ conn = "none" /\ UNCHANGED conn
    /\ UNCHANGED <<mu, isStarted, isWaiting, subscriptions, queue, waitCancelled,
                   listening, faults, todo, failed, reply, cancelled, clientVars>>

Begin ==
    /\ At("begin") /\ Free
    /\ isStarted' = TRUE /\ Main("connect")
    /\ UNCHANGED <<mu, isWaiting, subscriptions, queue, waitCancelled, connVars, todo,
                   failed, reply, cancelled, clientVars>>

Connect ==
    /\ At("connect") /\ Free
    /\ conn # "none" \/ ~cancelled
    /\ Connected
    /\ Main("topics")
    /\ UNCHANGED <<mu, isStarted, isWaiting, subscriptions, queue, waitCancelled,
                   listening, faults, todo, failed, reply, cancelled, clientVars>>

\* What follows a return of listenAndWait: break, or sleep and try again.
AfterError_Retry(e) == "backoff"
AfterError(e)       == IF e = "canceled" THEN "ending" ELSE "backoff"

ConnectFails ==
    /\ At("connect") /\ Free /\ conn = "none"
    /\ Main(AfterError(IF cancelled THEN "canceled" ELSE "error"))
    /\ UNCHANGED <<mu, isStarted, isWaiting, subscriptions, queue, waitCancelled,
                   connVars, todo, failed, reply, cancelled, clientVars>>

ReadTopics ==                    \* lo.Keys(n.subscriptions)
    /\ At("topics") /\ Free
    /\ todo' = Subscribed /\ Main("listen")
    /\ UNCHANGED <<mu, isStarted, isWaiting, subscriptions, queue, waitCancelled,
                   connVars, failed, reply, cancelled, clientVars>>

ListenTopic(t) ==                \* without n.mu
    /\ At("listen") /\ t \in todo /\ conn = "up" /\ ~cancelled
    /\ Listened(t) /\ todo' = todo \ {t}
    /\ UNCHANGED <<mu, isStarted, isWaiting, subscriptions, queue, waitCancelled, conn,
                   faults, main, failed, reply, cancelled, clientVars>>

ListenTopicFails ==
    /\ At("listen") /\ todo # {}
    /\ Failed /\ failed' = (IF cancelled THEN "canceled" ELSE "error")
    /\ Main("close")
    /\ UNCHANGED <<mu, isStarted, isWaiting, subscriptions, queue, waitCancelled, faults,
                   todo, reply, cancelled, clientVars>>

Healthy ==
    /\ At("listen") /\ todo = {} /\ Main("loop")
    /\ UNCHANGED <<mu, isStarted, isWaiting, subscriptions, queue, waitCancelled,
                   connVars, todo, failed, reply, cancelled, clientVars>>

\* The head of the loop in listenAndWait; both ways lead to drainInterrupts.
Loop ==
    /\ At("loop") /\ Main("drain")
    /\ failed' = IF cancelled THEN "canceled" ELSE "none"
    /\ UNCHANGED <<mu, isStarted, isWaiting, subscriptions, queue, waitCancelled,
                   connVars, todo, reply, cancelled, clientVars>>

\* interruptOperation(): the LISTEN or UNLISTEN, then the send of its error.
RunInterrupt ==
    /\ At("drain") /\ queue # << >>
    /\ queue' = Tail(queue) /\ Main("reply")
    /\ LET i == Head(queue)
           t == TopicOf[i.client]
       IN \/ /\ conn = "up" /\ reply' = [to |-> i, ok |-> TRUE]
             /\ IF i.op = "listen" THEN Listened(t) ELSE Unlistened(t)
             /\ UNCHANGED conn
          \/ Failed /\ reply' = [to |-> i, ok |-> FALSE]
          \/ /\ i.op = "listen" /\ i.client \in Impatient
             /\ reply' = [to |-> i, ok |-> FALSE]
             /\ UNCHANGED <<conn, listening>>
    /\ UNCHANGED <<mu, isStarted, isWaiting, subscriptions, waitCancelled, faults, todo,
                   failed, cancelled, clientVars>>

\* errChan is unbuffered: this step waits for the client, who may be gone.
Reply ==
    /\ At("reply")
    /\ LET c == reply.to.client IN
       /\ pc[c] = "await" /\ op[c] = reply.to.op
       /\ Goto(c, "relock") /\ result' = [result EXCEPT ![c] = reply.ok]
    /\ Main("drain")
    /\ UNCHANGED <<mu, isStarted, isWaiting, subscriptions, queue, waitCancelled,
                   connVars, todo, failed, reply, cancelled, op>>

EnterWait ==
    /\ At("drain") /\ queue = << >> /\ failed = "none" /\ Free
    /\ isWaiting' = TRUE /\ waitCancelled' = FALSE /\ Main("wait")
    /\ UNCHANGED <<mu, isStarted, subscriptions, queue, connVars, todo, failed, reply,
                   cancelled, clientVars>>

LeaveLoop ==
    /\ At("drain") /\ queue = << >> /\ failed # "none" /\ Main("close")
    /\ UNCHANGED <<mu, isStarted, isWaiting, subscriptions, queue, waitCancelled,
                   connVars, todo, failed, reply, cancelled, clientVars>>

EndWait(e) ==
    /\ At("wait") /\ Main("exit") /\ failed' = e
    /\ UNCHANGED <<mu, isStarted, isWaiting, subscriptions, queue, waitCancelled,
                   connVars, todo, reply, cancelled, clientVars>>

Interrupted == (waitCancelled \/ cancelled) /\ EndWait("none")
WaitFails   == conn = "broken" /\ EndWait("error")

\* After 5 seconds the wait is cancelled and the connection pinged with the
\* context just cancelled: the ping returns context.Canceled without being sent.
PingTimer   == conn # "broken" /\ EndWait("none")

AfterWait_Straight == IF failed = "none" THEN "loop" ELSE "close"
AfterWait          == IF failed = "none" THEN "loop" ELSE "drain"

ExitWait ==                      \* the deferred section of waitOnce
    /\ At("exit") /\ Free
    /\ isWaiting' = FALSE /\ Main(AfterWait)
    /\ UNCHANGED <<mu, isStarted, subscriptions, queue, waitCancelled, connVars, todo,
                   failed, reply, cancelled, clientVars>>

CloseConn ==                     \* the deferred listenerClose of listenAndWait
    /\ At("close") /\ Free
    /\ Closed /\ Main(AfterError(failed))
    /\ UNCHANGED <<mu, isStarted, isWaiting, subscriptions, queue, waitCancelled, faults,
                   todo, failed, reply, cancelled, clientVars>>

Backoff ==
    /\ At("backoff") /\ Main("connect")
    /\ UNCHANGED <<mu, isStarted, isWaiting, subscriptions, queue, waitCancelled,
                   connVars, todo, failed, reply, cancelled, clientVars>>

End ==                           \* the deferred listenerClose of the goroutine
    /\ At("ending") /\ Free
    /\ Closed /\ Main("unstart")
    /\ UNCHANGED <<mu, isStarted, isWaiting, subscriptions, queue, waitCancelled, faults,
                   todo, failed, reply, cancelled, clientVars>>

Unstart ==
    /\ At("unstart") /\ Free
    /\ isStarted' = FALSE /\ Main("stopped")
    /\ UNCHANGED <<mu, isWaiting, subscriptions, queue, waitCancelled, connVars, todo,
                   failed, reply, cancelled, clientVars>>

-------------------------------------------------------------------------------
(* The environment *)

Stop ==
    /\ StopInit
    /\ UNCHANGED <<mu, isStarted, isWaiting, subscriptions, queue, waitCancelled,
                   connVars, mainVars, clientVars>>

\* The server or the network drops the connection, or stops answering on it.
Fault ==
    /\ faults < MaxFaults /\ faults' = faults + 1
    /\ conn \in {"up", "silent"} /\ conn' \in {"broken", "silent"} \ {conn}
    /\ UNCHANGED <<mu, isStarted, isWaiting, subscriptions, queue, waitCancelled,
                   listening, mainVars, cancelled, clientVars>>

-------------------------------------------------------------------------------
\* A new call is the client's choice; what follows it is not.
NewCall(c) ==
    \/ Join(c) \/ ListenWaiting(c) \/ ListenDirect(c) \/ ListenDirectNoConn(c)
    \/ ListenDirectFails(c) \/ Leave(c) \/ UnlistenWaiting(c) \/ UnlistenDirect(c)
    \/ UnlistenDirectFails(c)

MainStep ==
    \/ Begin \/ Connect \/ ConnectFails \/ ReadTopics \/ ListenTopicFails \/ Healthy
    \/ Loop \/ RunInterrupt \/ Reply \/ EnterWait \/ LeaveLoop \/ Interrupted \/ WaitFails
    \/ ExitWait \/ CloseConn \/ Backoff \/ End \/ Unstart
    \/ \E t \in Topics : ListenTopic(t)

Next ==
    \/ \E c \in Clients : NewCall(c) \/ Relock(c) \/ TimesOut(c)
    \/ Start \/ MainStep \/ PingTimer \/ Stop \/ Fault

Spec     == Init /\ [][Next]_vars

\* How Manager uses the notifier: Start subscribes to both topics before it
\* starts the notifier, and ignores an error of the second Listen; handlers
\* listen when the notifier runs; Close unlistens before it stops it.
Keepers == {InvokeSub, ResponseSub}
ManagerOrder ==
    /\ At("off") /\ ~At("off")' => pc[InvokeSub] = "subscribed"
                                /\ pc[ResponseSub] \in {"subscribed", "done"}
    /\ \A c \in Clients \ Keepers : pc'[c] # "idle" => ~At("off")
    /\ pc'[ResponseSub] # "idle" => pc[InvokeSub] # "idle"
    /\ \A c \in Keepers : At("off") /\ pc'[c] # pc[c] => pc[c] = "idle"
    /\ pc[ResponseSub] = "subscribed" /\ pc'[ResponseSub] # "subscribed"
           => pc[InvokeSub] = "done"
    /\ cancelled' => \A c \in Keepers : pc[c] = "done"

ManagerSpec == Init /\ [][Next /\ ManagerOrder]_vars
Fairness == WF_vars(MainStep) /\ \A c \in Clients : WF_vars(Relock(c))
FairSpec == Spec /\ Fairness
FairManagerSpec == ManagerSpec /\ Fairness

-------------------------------------------------------------------------------
(* Properties *)

\* No interrupt operation is left behind: outside the wait loop the channel is
\* empty, so no client waits for a main loop that will not read it (the deferred
\* drainInterrupts and the order in which isWaiting is reset).
NoInterruptLeftBehind ==
    main \notin {"loop", "drain", "reply", "wait", "exit"} => queue = << >>

\* The main loop uses the connection only while it is open: nobody closes it
\* between listenerConnect and the deferred listenerClose, although clients may
\* close it too (justConnected, isStarted).
OpenWhileInUse ==
    main \in {"listen", "loop", "drain", "reply", "wait", "exit"} => conn # "none"

\* A client never blocks on the channel while it holds n.mu, which the main loop
\* needs to reach the channel: at most one interrupt is under way per topic, and
\* there are fewer topics than places.
PushNeverBlocks == \A c \in Clients : pc[c] # "push"

\* While the main loop waits on a sound connection and no call is under way, every
\* topic of a subscriber whose Listen succeeded is LISTENed.  The code UNLISTENs
\* for the last subscriber, lets go of n.mu, and does not look again.
Quiet(t) == \A c \in Clients : TopicOf[c] = t => pc[c] \in {"idle", "subscribed", "done"}
NobodyStaysDeaf ==
    main = "wait" /\ conn = "up" =>
        \A c \in Clients : pc[c] = "subscribed" /\ Quiet(TopicOf[c])
                               => TopicOf[c] \in listening

\* As the manager uses the notifier, its own subscriptions keep their topics
\* LISTENed, also after a reconnect; handlers then only join and leave.
ListenedWhileKept ==
    main = "wait" /\ conn = "up" =>
        \A k \in Keepers : pc[k] = "subscribed" => TopicOf[k] \in listening

\* Every interrupted Listen and Unlisten returns.
InterruptsReturn ==
    \A c \in Clients : pc[c] \in {"push", "await", "relock"}
                           ~> pc[c] \in {"subscribed", "done"}

\* Stop returns: once its context is done, the main loop comes to its end.
StopCompletes == cancelled ~> main = "stopped"
===============================================================================
