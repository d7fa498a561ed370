----------------------------- MODULE NotifierProofs -----------------------------
(***************************************************************************)
(* Proofs about Notifier for every number of clients, topics and faults,   *)
(* every capacity of waitInterruptChan, and clients that time out.         *)
(***************************************************************************)
EXTENDS Notifier, FiniteSetTheorems, SequenceTheorems, TLAPS

-------------------------------------------------------------------------------
(* The inductive invariant *)

\* Where the main loop uses the connection, and where it is in its wait loop.
InUse  == {"topics", "listen", "loop", "drain", "reply", "wait", "exit"}
InLoop == {"loop", "drain", "reply", "wait", "exit"}

\* What isWaiting and isStarted say of the main loop, and what holds where.
MainInv ==
    /\ isWaiting => main \in {"wait", "exit"}
    /\ main \in {"connect", "backoff", "close", "ending", "unstart"} \cup InUse => isStarted
    /\ main \in InUse => conn # "none"
    /\ NoInterruptLeftBehind

\* A client in a call that waits for the main loop is among the subscribers of its
\* topic, so nobody else starts one for that topic: others join, or just leave.
Calling(c) == pc[c] \in {"push", "await", "relock"}
ClientInv ==
    /\ \A t \in Topics : IsFiniteSet(subscriptions[t])
    /\ \A c \in Clients : Calling(c) \/ pc[c] = "subscribed" => c \in Subs(c)
    /\ \A c, d \in Clients : Calling(c) /\ Calling(d) /\ TopicOf[c] = TopicOf[d] => c = d

\* If no client times out, each interrupt is that of a client who awaits its answer.
Pending(c, k) == k \in 1 .. Len(queue) /\ queue[k].client = c
QueueInv ==
    /\ \A c \in Clients : \A k \in Nat : Pending(c, k) => pc[c] = "await"
    /\ \A c \in Clients : \A k, l \in Nat : Pending(c, k) /\ Pending(c, l) => k = l
    /\ main = "reply" => \A k \in Nat : ~Pending(reply.to.client, k)
    /\ PushNeverBlocks

\* The manager's own subscriptions are made before the main loop starts and end when
\* it unlistens; meanwhile nobody UNLISTENs their topics.
Stays(k) == pc[k] = "subscribed"
Unlistening(t) ==
    \E i \in 1 .. Len(queue) : queue[i].op = "unlisten" /\ TopicOf[queue[i].client] = t
KeeperInv == \A k \in Keepers :
    /\ main = "off" => pc[k] \in {"idle", "subscribed", "done"}
    /\ main # "off" => pc[k] # "idle"
    /\ Calling(k) => op[k] = "unlisten"
    /\ Stays(k) => ~Unlistening(TopicOf[k])
    /\ Stays(k) /\ conn = "up" /\ main = "listen" => TopicOf[k] \in listening \cup todo
    /\ Stays(k) /\ conn = "up" /\ main \in InLoop => TopicOf[k] \in listening

IInv == TypeOK /\ MainInv /\ ClientInv

-------------------------------------------------------------------------------
(* Who writes what *)

\* What a client's step leaves to the main loop, and what it may do to the rest.
LEMMA ClientSteps ==
    ASSUME NEW c \in Clients, NewCall(c) \/ Relock(c) \/ TimesOut(c)
    PROVE  /\ UNCHANGED <<isStarted, isWaiting, faults, mainVars, cancelled>>
           /\ UNCHANGED queue \/ ListenWaiting(c) \/ UnlistenWaiting(c)
           /\ UNCHANGED conn \/ ListenDirect(c) \/ ListenDirectFails(c) \/ UnlistenDirect(c)
                  \/ UnlistenDirectFails(c)
           /\ UNCHANGED listening \/ ListenDirect(c) \/ ListenDirectFails(c) \/ UnlistenDirect(c)
           /\ subscriptions' \in {subscriptions, With(c), Without(c)}
<1> USE DEF connVars, mainVars
<1>1. ASSUME Relock(c) \/ TimesOut(c)
      PROVE  /\ UNCHANGED <<isStarted, isWaiting, queue, connVars, mainVars, cancelled>>
             /\ subscriptions' \in {subscriptions, Without(c)}
  BY <1>1 DEF Relock, TimesOut
<1>2. ASSUME Join(c) \/ ListenDirectNoConn(c) \/ Leave(c)
      PROVE  /\ UNCHANGED <<isStarted, isWaiting, queue, connVars, mainVars, cancelled>>
             /\ subscriptions' \in {subscriptions, With(c), Without(c)}
  BY <1>2 DEF Join, ListenDirectNoConn, Leave
<1>3. ASSUME ListenWaiting(c) \/ UnlistenWaiting(c)
      PROVE  /\ UNCHANGED <<isStarted, isWaiting, connVars, mainVars, cancelled>>
             /\ subscriptions' \in {subscriptions, With(c)}
             /\ UNCHANGED queue \/ ListenWaiting(c) \/ UnlistenWaiting(c)
  BY <1>3 DEF ListenWaiting, UnlistenWaiting
<1>4. ASSUME ListenDirect(c) \/ ListenDirectFails(c)
      PROVE  /\ UNCHANGED <<isStarted, isWaiting, queue, faults, mainVars, cancelled>>
             /\ subscriptions' \in {subscriptions, With(c)}
             /\ ListenDirect(c) \/ ListenDirectFails(c)
  BY <1>4 DEF ListenDirect, ListenDirectFails
<1>5. ASSUME UnlistenDirect(c) \/ UnlistenDirectFails(c)
      PROVE  /\ UNCHANGED <<isStarted, isWaiting, queue, faults, mainVars, cancelled>>
             /\ subscriptions' \in {subscriptions, Without(c)}
             /\ UNCHANGED listening \/ UnlistenDirect(c)
             /\ UnlistenDirect(c) \/ UnlistenDirectFails(c)
  BY <1>5 DEF UnlistenDirect, UnlistenDirectFails, Failed
<1>6. \/ Relock(c) \/ TimesOut(c) \/ Join(c) \/ ListenDirectNoConn(c) \/ Leave(c)
      \/ ListenWaiting(c) \/ UnlistenWaiting(c) \/ ListenDirect(c) \/ ListenDirectFails(c)
      \/ UnlistenDirect(c) \/ UnlistenDirectFails(c)
  BY DEF NewCall
<1> QED  BY <1>1, <1>2, <1>3, <1>4, <1>5, <1>6

\* The steps of the main loop and of the environment.
MainSteps == Start \/ MainStep \/ PingTimer \/ Stop \/ Fault

\* A step is one of the main loop, of its environment, or of a client.
LEMMA Kinds ==
    ASSUME [Next]_vars
    PROVE  UNCHANGED vars \/ MainSteps \/ \E c \in Clients : NewCall(c) \/ Relock(c) \/ TimesOut(c)
BY DEF Next, MainSteps

\* What the steps of the main loop and of its environment leave alone.
LEMMA LoopSteps ==
    ASSUME MainSteps
    PROVE  /\ UNCHANGED <<mu, subscriptions, op>>
           /\ UNCHANGED <<pc, result>> \/ Reply
           /\ UNCHANGED <<queue, reply>> \/ RunInterrupt
           /\ UNCHANGED isWaiting \/ EnterWait \/ ExitWait
           /\ UNCHANGED isStarted \/ Begin \/ Unstart
           /\ \/ UNCHANGED conn \/ Start \/ Connect \/ ListenTopicFails \/ RunInterrupt
              \/ CloseConn \/ End \/ Fault
           /\ UNCHANGED listening \/ RunInterrupt \/ CloseConn \/ End
                  \/ \E t \in Topics : ListenTopic(t)
           /\ UNCHANGED todo \/ ReadTopics \/ \E t \in Topics : ListenTopic(t)
<1> USE DEF connVars, mainVars, clientVars
<1>1. ASSUME Start \/ Connect \/ ListenTopicFails \/ CloseConn \/ End \/ Fault
      PROVE  /\ UNCHANGED <<mu, subscriptions, clientVars, queue, reply, isWaiting, isStarted, todo>>
             /\ UNCHANGED listening \/ CloseConn \/ End
  BY <1>1 DEF Start, Connect, ListenTopicFails, CloseConn, End, Fault, Failed
<1>2. ASSUME Begin \/ Unstart \/ EnterWait \/ ExitWait
      PROVE  /\ UNCHANGED <<mu, subscriptions, clientVars, queue, reply, connVars, todo>>
             /\ UNCHANGED isStarted \/ Begin \/ Unstart
             /\ UNCHANGED isWaiting \/ EnterWait \/ ExitWait
  BY <1>2 DEF Begin, Unstart, EnterWait, ExitWait
<1>3. ASSUME ConnectFails \/ Healthy \/ Loop \/ LeaveLoop \/ Interrupted \/ WaitFails \/ PingTimer
                 \/ Backoff \/ Stop
      PROVE  UNCHANGED <<mu, subscriptions, clientVars, queue, reply, connVars, todo, isWaiting,
                         isStarted>>
  BY <1>3 DEF ConnectFails, Healthy, Loop, LeaveLoop, Interrupted, WaitFails, PingTimer, EndWait,
     Backoff, Stop
<1>4. ASSUME ReadTopics \/ \E t \in Topics : ListenTopic(t)
      PROVE  /\ UNCHANGED <<mu, subscriptions, clientVars, queue, reply, conn, isWaiting, isStarted>>
             /\ UNCHANGED listening \/ \E t \in Topics : ListenTopic(t)
  BY <1>4 DEF ReadTopics, ListenTopic
<1>5. ASSUME RunInterrupt
      PROVE  UNCHANGED <<mu, subscriptions, clientVars, isWaiting, isStarted, todo>>
  BY <1>5 DEF RunInterrupt
<1>6. ASSUME Reply
      PROVE  UNCHANGED <<mu, subscriptions, op, queue, reply, connVars, todo, isWaiting, isStarted>>
  BY <1>6 DEF Reply
<1> QED  BY <1>1, <1>2, <1>3, <1>4, <1>5, <1>6 DEF MainSteps, MainStep

-------------------------------------------------------------------------------
(* Types *)

MainPC == {"off", "begin", "connect", "topics", "listen", "loop", "drain", "reply",
           "wait", "exit", "close", "backoff", "ending", "unstart", "stopped"}
PC == {"idle", "push", "await", "relock", "subscribed", "done"}

\* What the calls of a client can do to its place and to the mutex.
LEMMA CallsStep ==
    ASSUME TypeOK, [Next]_vars
    PROVE  /\ pc' \in [Clients -> PC] /\ result' \in [Clients -> BOOLEAN]
           /\ op' \in [Clients -> {"none", "listen", "unlisten"}]
           /\ mu' \in Clients \cup {None} /\ waitCancelled' \in BOOLEAN
<1>1. /\ pc \in [Clients -> PC]
      /\ op \in [Clients -> {"none", "listen", "unlisten"}]
      /\ mu \in Clients \cup {None}
  BY DEF TypeOK, PC
<1>2. result \in [Clients -> BOOLEAN] /\ waitCancelled \in BOOLEAN
  BY DEF TypeOK
<1>3. \A c \in Clients, l \in PC : Goto(c, l) => pc' \in [Clients -> PC]
  BY <1>1 DEF Goto
<1>4. UNCHANGED vars => UNCHANGED <<pc, op, mu, result, waitCancelled>>
  BY DEF vars, clientVars
<1>5. ASSUME NEW c \in Clients, NEW o \in {"listen", "unlisten"}, Interrupt(c, o)
      PROVE  /\ pc' \in [Clients -> PC] /\ op' \in [Clients -> {"none", "listen", "unlisten"}]
             /\ mu' \in Clients \cup {None}
                    /\ (waitCancelled' = TRUE \/ waitCancelled' = waitCancelled)
  BY <1>1, <1>5 DEF Interrupt, Goto, WaitCancel, PC
<1>6. ASSUME NEW c \in Clients, ListenWaiting(c) \/ UnlistenWaiting(c)
      PROVE  UNCHANGED result /\ (Interrupt(c, "listen") \/ Interrupt(c, "unlisten"))
  BY <1>6 DEF ListenWaiting, UnlistenWaiting
<1>7. ASSUME NEW c \in Clients,
             Join(c) \/ ListenDirect(c) \/ ListenDirectNoConn(c) \/ ListenDirectFails(c)
             \/ Leave(c) \/ UnlistenDirect(c) \/ UnlistenDirectFails(c)
      PROVE  UNCHANGED <<op, mu, result, waitCancelled>>
                 /\ (Goto(c, "subscribed") \/ Goto(c, "done"))
  BY <1>7 DEF Join, ListenDirect, ListenDirectNoConn, ListenDirectFails, Leave, UnlistenDirect,
              UnlistenDirectFails
<1>8. ASSUME NEW c \in Clients, Relock(c)
      PROVE  UNCHANGED <<op, mu, result, waitCancelled>>
                 /\ (Goto(c, "subscribed") \/ Goto(c, "done"))
  BY <1>8 DEF Relock, Goto
<1>9. ASSUME NEW c \in Clients, TimesOut(c)
      PROVE  UNCHANGED <<op, mu, waitCancelled>> /\ Goto(c, "relock")
                 /\ result' = [result EXCEPT ![c] = FALSE]
  BY <1>9 DEF TimesOut
<1>10. ASSUME Reply
       PROVE  /\ UNCHANGED <<op, mu, waitCancelled>>
              /\ pc' = [pc EXCEPT ![reply.to.client] = "relock"]
              /\ result' = [result EXCEPT ![reply.to.client] = reply.ok]
  BY <1>10 DEF Reply, Goto
<1>11. ASSUME MainSteps PROVE UNCHANGED <<op, mu>> /\ (UNCHANGED <<pc, result>> \/ Reply)
                               /\ (UNCHANGED waitCancelled \/ waitCancelled' = FALSE)
  <2>1. UNCHANGED waitCancelled \/ waitCancelled' = FALSE
    BY <1>11 DEF MainSteps, MainStep, Start, Connect, ListenTopicFails, CloseConn, End, Fault,
       Begin, Unstart, EnterWait, ExitWait, ConnectFails, Healthy, Loop, LeaveLoop, Interrupted,
       WaitFails, PingTimer, EndWait, Backoff, Stop, ReadTopics, ListenTopic, RunInterrupt,
       Reply
  <2> QED  BY <1>11, <2>1, LoopSteps
<1>12. pc' \in [Clients -> PC]
  BY <1>1, <1>3, <1>4, <1>5, <1>6, <1>7, <1>8, <1>9, <1>10, <1>11, Kinds DEF NewCall, PC
<1>13. op' \in [Clients -> {"none", "listen", "unlisten"}] /\ mu' \in Clients \cup {None}
  BY <1>1, <1>4, <1>5, <1>6, <1>7, <1>8, <1>9, <1>11, Kinds DEF NewCall
<1>14. result' \in [Clients -> BOOLEAN]
  <2>1. reply.ok \in BOOLEAN
    BY DEF TypeOK
  <2>2. Reply => result' \in [Clients -> BOOLEAN]
    BY <1>2, <1>10, <2>1
  <2>3. \A c \in Clients : TimesOut(c) => result' \in [Clients -> BOOLEAN]
    BY <1>2, <1>9
  <2> QED  BY <1>2, <1>4, <1>6, <1>7, <1>8, <1>11, <2>2, <2>3, Kinds DEF NewCall
<1>15. waitCancelled' \in BOOLEAN
  BY <1>2, <1>4, <1>5, <1>6, <1>7, <1>8, <1>9, <1>11, Kinds DEF NewCall
<1> QED  BY <1>12, <1>13, <1>14, <1>15

\* The channel holds interrupts, and no more of them than its capacity (Interrupt, RunInterrupt).
LEMMA PushedOrTaken ==
    ASSUME [Next]_vars
    PROVE  \/ UNCHANGED queue
           \/ \E c \in Clients, o \in {"listen", "unlisten"} :
                  /\ ListenWaiting(c) \/ UnlistenWaiting(c)
                  /\ queue' = Append(queue, [client |-> c, op |-> o])
                  /\ Room /\ pc' = [pc EXCEPT ![c] = "await"]
                  /\ o = "listen" => ListenWaiting(c)
                  /\ o = "unlisten" => UnlistenWaiting(c)
           \/ RunInterrupt /\ queue # << >> /\ queue' = Tail(queue)
<1>1. ASSUME NEW c \in Clients, ListenWaiting(c)
      PROVE  \/ UNCHANGED queue
             \/ /\ queue' = Append(queue, [client |-> c, op |-> "listen"])
                /\ Room /\ pc' = [pc EXCEPT ![c] = "await"]
  BY <1>1 DEF ListenWaiting, Interrupt, Goto
<1>2. ASSUME NEW c \in Clients, UnlistenWaiting(c)
      PROVE  \/ UNCHANGED queue
             \/ /\ queue' = Append(queue, [client |-> c, op |-> "unlisten"])
                /\ Room /\ pc' = [pc EXCEPT ![c] = "await"]
  BY <1>2 DEF UnlistenWaiting, Interrupt, Goto
<1>3. RunInterrupt => queue # << >> /\ queue' = Tail(queue)
  BY DEF RunInterrupt
<1>4. CASE UNCHANGED vars
  BY <1>4 DEF vars
<1>5. CASE MainSteps
  BY <1>3, <1>5, LoopSteps
<1>6. ASSUME NEW c \in Clients, NewCall(c) \/ Relock(c) \/ TimesOut(c)
      PROVE  UNCHANGED queue \/ ListenWaiting(c) \/ UnlistenWaiting(c)
  BY <1>6, ClientSteps
<1>7. CASE \E c \in Clients : ListenWaiting(c)
  BY <1>1, <1>7
<1>8. CASE \E c \in Clients : UnlistenWaiting(c)
  BY <1>2, <1>8
<1> QED  BY <1>4, <1>5, <1>6, <1>7, <1>8, Kinds

\* The interrupt queue never holds more than the channel has places for.
LEMMA QueueStep ==
    ASSUME TypeOK, [Next]_vars
    PROVE  queue' \in Seq(Interrupts) /\ Len(queue') <= Capacity
<1>1. queue \in Seq(Interrupts) /\ Len(queue) <= Capacity
  BY DEF TypeOK
<1>2. Capacity \in Nat /\ Len(queue) \in Nat
  BY <1>1, CapacityAssumption, LenProperties
<1>3. ASSUME queue # << >>, queue' = Tail(queue)
      PROVE  queue' \in Seq(Interrupts) /\ Len(queue') <= Capacity
  BY <1>1, <1>2, <1>3, HeadTailProperties
<1>4. ASSUME NEW i \in Interrupts, Room, queue' = Append(queue, i)
      PROVE  queue' \in Seq(Interrupts) /\ Len(queue') <= Capacity
  BY <1>1, <1>2, <1>4, AppendProperties DEF Room
<1>5. \A c \in Clients, o \in {"listen", "unlisten"} : [client |-> c, op |-> o] \in Interrupts
  BY DEF Interrupts
<1> QED  BY <1>1, <1>3, <1>4, <1>5, PushedOrTaken

\* The subscribers of a topic are clients (Listen, Unlisten).
LEMMA SubscriptionsStep ==
    ASSUME TypeOK, [Next]_vars
    PROVE  subscriptions' \in [Topics -> SUBSET Clients]
<1>1. subscriptions \in [Topics -> SUBSET Clients]
  BY DEF TypeOK
<1>2. ASSUME NEW c \in Clients
      PROVE  With(c) \in [Topics -> SUBSET Clients] /\ Without(c) \in [Topics -> SUBSET Clients]
  BY <1>1, TopicOfAssumption DEF With, Without
<1>3. CASE UNCHANGED vars
  BY <1>1, <1>3 DEF vars
<1> QED  BY <1>1, <1>2, <1>3, Kinds, ClientSteps, LoopSteps

\* The state of the connection (listenerConnect, listenerClose, faults).
LEMMA ConnStep ==
    ASSUME TypeOK, [Next]_vars
    PROVE  /\ conn' \in {"none", "up", "silent", "broken"}
           /\ listening' \subseteq Topics /\ todo' \subseteq Topics /\ faults' \in 0 .. MaxFaults
<1>1. conn \in {"none", "up", "silent", "broken"} /\ listening \subseteq Topics
          /\ todo \subseteq Topics
  BY DEF TypeOK
<1>2. CASE UNCHANGED vars
  BY <1>1, <1>2 DEF vars, connVars, mainVars, TypeOK
<1>3. \A c \in Clients : TopicOf[c] \in Topics
  BY TopicOfAssumption
<1> USE DEF Connected, Closed, Failed, Listened, Unlistened
<1>4. ASSUME NEW c \in Clients, NewCall(c) \/ Relock(c) \/ TimesOut(c)
      PROVE  conn' \in {"none", "up", "silent", "broken"} /\ listening' \subseteq Topics
                 /\ UNCHANGED todo
  <2>1. ListenDirect(c)
            => conn' \in {"none", "up", "silent", "broken"} /\ listening' \subseteq Topics
    BY <1>1, <1>3 DEF ListenDirect
  <2>2. ListenDirectFails(c)
            => conn' \in {"none", "up", "silent", "broken"} /\ listening' \subseteq Topics
    BY <1>1 DEF ListenDirectFails
  <2>3. UnlistenDirect(c)
            => conn' \in {"none", "up", "silent", "broken"} /\ listening' \subseteq Topics
    BY <1>1 DEF UnlistenDirect
  <2>4. UnlistenDirectFails(c)
            => conn' \in {"none", "up", "silent", "broken"} /\ listening' \subseteq Topics
    BY <1>1 DEF UnlistenDirectFails
  <2> QED  BY <1>1, <1>4, <2>1, <2>2, <2>3, <2>4, ClientSteps DEF mainVars
<1>5. RunInterrupt => conn' \in {"none", "up", "silent", "broken"} /\ listening' \subseteq Topics
  <2> SUFFICES ASSUME RunInterrupt
               PROVE  conn' \in {"none", "up", "silent", "broken"} /\ listening' \subseteq Topics
    OBVIOUS
  <2>1. queue # << >> /\ queue \in Seq(Interrupts)
    BY DEF RunInterrupt, TypeOK
  <2>2. Head(queue) \in Interrupts
    BY <2>1, HeadTailProperties
  <2>3. TopicOf[Head(queue).client] \in Topics
    BY <1>3, <2>2 DEF Interrupts
  <2> QED  BY <1>1, <2>3 DEF RunInterrupt
<1>6. ASSUME MainSteps
      PROVE  conn' \in {"none", "up", "silent", "broken"} /\ listening' \subseteq Topics
  <2>1. Start \/ Connect \/ ListenTopicFails \/ CloseConn \/ End \/ Fault
           => conn' \in {"none", "up", "silent", "broken"}
    BY <1>1 DEF Start, Connect, ListenTopicFails, CloseConn, End, Fault
  <2>2. CloseConn \/ End \/ (\E t \in Topics : ListenTopic(t)) => listening' \subseteq Topics
    BY <1>1 DEF CloseConn, End, ListenTopic
  <2> QED  BY <1>1, <1>5, <1>6, <2>1, <2>2, LoopSteps
<1>7. ASSUME MainSteps PROVE todo' \subseteq Topics
  BY <1>1, <1>7, LoopSteps DEF ReadTopics, ListenTopic, Subscribed
<1>8. faults' \in 0 .. MaxFaults
  <2>1. faults \in 0 .. MaxFaults
    BY DEF TypeOK
  <2>2. UNCHANGED faults \/ (faults < MaxFaults /\ faults' = faults + 1)
    <3>1. MainSteps => UNCHANGED faults \/ (faults < MaxFaults /\ faults' = faults + 1)
      BY DEF MainSteps, MainStep, Start, Connect, ListenTopicFails, CloseConn, End, Fault,
         Begin, Unstart, EnterWait, ExitWait, ConnectFails, Healthy, Loop, LeaveLoop,
         Interrupted, WaitFails, PingTimer, EndWait, Backoff, Stop, ReadTopics, ListenTopic,
         RunInterrupt, Reply, connVars
    <3> QED  BY <3>1, Kinds, ClientSteps DEF vars, connVars
  <2> QED  BY <2>1, <2>2, MaxFaultsAssumption
<1> QED  BY <1>1, <1>2, <1>4, <1>6, <1>7, <1>8, Kinds

\* Where the main loop goes from where it stands.
LEMMA MainGoes ==
    ASSUME MainSteps
    PROVE  \/ UNCHANGED <<main, isWaiting, isStarted, failed>>
                  /\ (Stop \/ Fault \/ \E t \in Topics : ListenTopic(t))
           \/ Start /\ main = "off" /\ main' \in {"begin", "stopped"}
                  /\ UNCHANGED <<isWaiting, isStarted, failed>>
           \/ Begin /\ main = "begin" /\ main' = "connect" /\ isStarted'
                  /\ UNCHANGED <<isWaiting, failed>>
           \/ Connect /\ main = "connect" /\ main' = "topics"
                  /\ UNCHANGED <<isWaiting, isStarted, failed>>
           \/ ConnectFails /\ main = "connect" /\ main' \in {"ending", "backoff"}
                  /\ UNCHANGED <<isWaiting, isStarted, failed>>
           \/ ReadTopics /\ main = "topics" /\ main' = "listen"
                  /\ UNCHANGED <<isWaiting, isStarted, failed>>
           \/ ListenTopicFails /\ main = "listen" /\ main' = "close"
                  /\ UNCHANGED <<isWaiting, isStarted>>
              /\ failed' \in {"canceled", "error"}
           \/ Healthy /\ main = "listen" /\ main' = "loop" /\ todo = {}
                  /\ UNCHANGED <<isWaiting, isStarted, failed>>
           \/ Loop /\ main = "loop" /\ main' = "drain" /\ UNCHANGED <<isWaiting, isStarted>>
                  /\ failed' \in {"canceled", "none"}
           \/ RunInterrupt /\ main = "drain" /\ main' = "reply"
                  /\ UNCHANGED <<isWaiting, isStarted, failed>>
           \/ Reply /\ main = "reply" /\ main' = "drain"
                  /\ UNCHANGED <<isWaiting, isStarted, failed>>
           \/ EnterWait /\ main = "drain" /\ main' = "wait" /\ UNCHANGED <<isStarted, failed>>
           \/ LeaveLoop /\ main = "drain" /\ main' = "close" /\ queue = << >>
                  /\ UNCHANGED <<isWaiting, isStarted, failed>>
           \/ (Interrupted \/ WaitFails \/ PingTimer) /\ main = "wait" /\ main' = "exit"
                  /\ UNCHANGED <<isWaiting, isStarted>>
              /\ failed' \in {"none", "error"}
           \/ ExitWait /\ main = "exit" /\ main' \in {"loop", "drain"} /\ ~isWaiting'
                  /\ UNCHANGED <<isStarted, failed>>
           \/ CloseConn /\ main = "close" /\ main' \in {"ending", "backoff"}
                  /\ UNCHANGED <<isWaiting, isStarted, failed>>
           \/ Backoff /\ main = "backoff" /\ main' = "connect"
                  /\ UNCHANGED <<isWaiting, isStarted, failed>>
           \/ End /\ main = "ending" /\ main' = "unstart"
                  /\ UNCHANGED <<isWaiting, isStarted, failed>>
           \/ Unstart /\ main = "unstart" /\ main' = "stopped" /\ UNCHANGED <<isWaiting, failed>>
BY DEF MainSteps, MainStep, At, Main, Start, Connect, ListenTopicFails, CloseConn, End, Fault,
   Begin, Unstart, EnterWait, ExitWait, ConnectFails, Healthy, Loop, LeaveLoop, Interrupted,
   WaitFails, PingTimer, StartInit, EndWait, Backoff, Stop, ReadTopics, ListenTopic,
   RunInterrupt, Reply, mainVars, AfterError, AfterWait

\* Every variable keeps its type (all the operations of notifier.go).
LEMMA TypeStep ==
    ASSUME TypeOK, [Next]_vars
    PROVE  TypeOK'
<1>1. main' \in MainPC /\ failed' \in {"none", "canceled", "error"}
  <2>1. main \in MainPC /\ failed \in {"none", "canceled", "error"}
    BY DEF TypeOK, MainPC
  <2>2. MainSteps => main' \in MainPC /\ failed' \in {"none", "canceled", "error"}
    BY <2>1, MainGoes DEF MainPC
  <2> QED  BY <2>1, <2>2, Kinds, ClientSteps DEF vars, mainVars
<1>2. isStarted' \in BOOLEAN /\ isWaiting' \in BOOLEAN /\ cancelled' \in BOOLEAN
  <2>1. isStarted \in BOOLEAN /\ isWaiting \in BOOLEAN /\ cancelled \in BOOLEAN
    BY DEF TypeOK
  <2>2. /\ Begin \/ Unstart => isStarted' \in BOOLEAN
        /\ EnterWait \/ ExitWait => isWaiting' \in BOOLEAN
    BY DEF Begin, Unstart, EnterWait, ExitWait
  <2>3. MainSteps => UNCHANGED cancelled \/ cancelled' = TRUE
    BY DEF MainSteps, MainStep, Start, Connect, ListenTopicFails, CloseConn, End, Fault, Begin,
       Unstart, EnterWait, ExitWait, ConnectFails, Healthy, Loop, LeaveLoop, Interrupted,
       WaitFails, PingTimer, EndWait, Backoff, Stop, StopInit, ReadTopics, ListenTopic,
       RunInterrupt, Reply
  <2> QED  BY <2>1, <2>2, <2>3, Kinds, ClientSteps, LoopSteps DEF vars
<1>3. reply' \in [to : Interrupts \cup {None}, ok : BOOLEAN]
  <2>1. reply \in [to : Interrupts \cup {None}, ok : BOOLEAN] /\ queue \in Seq(Interrupts)
    BY DEF TypeOK
  <2>2. ASSUME RunInterrupt PROVE reply' \in [to : Interrupts \cup {None}, ok : BOOLEAN]
    <3>1. queue # << >> /\ \E ok \in BOOLEAN : reply' = [to |-> Head(queue), ok |-> ok]
      BY <2>2 DEF RunInterrupt
    <3>2. Head(queue) \in Interrupts
      BY <2>1, <3>1, HeadTailProperties
    <3> QED  BY <3>1, <3>2
  <2> QED  BY <2>1, <2>2, Kinds, ClientSteps, LoopSteps DEF vars, mainVars
<1> QED  BY <1>1, <1>2, <1>3, CallsStep, QueueStep, SubscriptionsStep, ConnStep DEF TypeOK, MainPC,
            PC

-------------------------------------------------------------------------------
(* The main loop, its connection and its channel *)

\* The main loop has the connection to itself and leaves nothing in the channel.
LEMMA MainInvStep ==
    ASSUME TypeOK, MainInv, [Next]_vars
    PROVE  MainInv'
<1> USE DEF InUse
<1>1. CASE UNCHANGED vars
  BY <1>1 DEF vars, mainVars, connVars, MainInv, NoInterruptLeftBehind
<1>2. ASSUME NEW c \in Clients, NewCall(c) \/ Relock(c) \/ TimesOut(c) PROVE MainInv'
  <2>1. UNCHANGED <<isStarted, isWaiting, main, reply>>
    BY <1>2, ClientSteps DEF mainVars
  <2>2. ASSUME main \in InUse PROVE conn' # "none"
    <3>1. conn # "none" /\ isStarted
      BY <2>2 DEF MainInv
    <3>2. /\ ListenDirect(c) => conn' # "none"
          /\ ListenDirectFails(c) => conn' # "none"
          /\ UnlistenDirect(c) => conn' # "none"
          /\ UnlistenDirectFails(c) => conn' # "none"
      BY <3>1 DEF ListenDirect, ListenDirectFails, UnlistenDirect, UnlistenDirectFails,
         Connected, Failed, Closed, ClosesUnused
    <3> QED  BY <1>2, <3>1, <3>2, ClientSteps
  <2>3. NoInterruptLeftBehind'
    <3>1. ListenWaiting(c) \/ UnlistenWaiting(c) => main \in {"wait", "exit"}
      BY DEF ListenWaiting, UnlistenWaiting, MainInv
    <3> QED  BY <1>2, <2>1, <3>1, ClientSteps DEF NoInterruptLeftBehind, MainInv
  <2> QED  BY <2>1, <2>2, <2>3 DEF MainInv
<1>3. ASSUME MainSteps PROVE MainInv'
  <2>1. isWaiting' => main' \in {"wait", "exit"}
    BY <1>3, MainGoes DEF MainInv
  <2>2. main' \in {"connect", "backoff", "close", "ending", "unstart"} \cup InUse => isStarted'
    BY <1>3, MainGoes DEF MainInv
  <2>3. ASSUME main' \in InUse PROVE conn' # "none"
    <3>1. conn = "none" => Connect \/ (main' = main)
      BY <1>3, <2>3, MainGoes DEF MainInv
    <3>2. Connect \/ Fault \/ RunInterrupt => conn' # "none" \/ (conn = "none" /\ main = "drain")
      BY DEF Connect, Connected, Fault, RunInterrupt, Failed, At
    <3>3. ~Start /\ ~ListenTopicFails /\ ~CloseConn /\ ~End
      BY <2>3 DEF Start, ListenTopicFails, CloseConn, End, Main, At, StartInit, AfterError
    <3> QED  BY <1>3, <2>3, <3>1, <3>2, <3>3, LoopSteps DEF MainInv
  <2>4. NoInterruptLeftBehind'
    <3>1. CASE main' \in InLoop
      BY <3>1 DEF NoInterruptLeftBehind, InLoop
    <3>2. CASE main' \notin InLoop
      <4>1. ~RunInterrupt
        BY <3>2 DEF RunInterrupt, Main, InLoop
      <4>2. queue = << >>
        BY <1>3, <3>2, MainGoes DEF MainInv, NoInterruptLeftBehind, InLoop
      <4> QED  BY <1>3, <4>1, <4>2, LoopSteps DEF NoInterruptLeftBehind
    <3> QED  BY <3>1, <3>2
  <2> QED  BY <2>1, <2>2, <2>3, <2>4 DEF MainInv
<1> QED  BY <1>1, <1>2, <1>3, Kinds

-------------------------------------------------------------------------------
(* The clients *)

\* Where a client goes in its call; the other clients stay where they are.
LEMMA ClientGoes ==
    ASSUME TypeOK, NEW c \in Clients
    PROVE  /\ Join(c) \/ ListenDirect(c) => pc[c] = "idle" /\ pc' = [pc EXCEPT ![c] = "subscribed"]
           /\ ListenDirectNoConn(c) \/ ListenDirectFails(c) =>
                  pc[c] = "idle" /\ pc' = [pc EXCEPT ![c] = "done"]
           /\ Leave(c) \/ UnlistenDirect(c) \/ UnlistenDirectFails(c) =>
                  pc[c] = "subscribed" /\ pc' = [pc EXCEPT ![c] = "done"]
           /\ ListenWaiting(c) =>
                  pc[c] = "idle" /\ \E l \in {"await", "push"} : pc' = [pc EXCEPT ![c] = l]
           /\ UnlistenWaiting(c) =>
                  pc[c] = "subscribed" /\ \E l \in {"await", "push"} : pc' = [pc EXCEPT ![c] = l]
           /\ TimesOut(c) => pc[c] = "await" /\ pc' = [pc EXCEPT ![c] = "relock"]
           /\ Relock(c) => /\ pc[c] = "relock"
                           /\ pc' = [pc EXCEPT ![c] = IF op[c] = "listen" /\ result[c]
                                                      THEN "subscribed" ELSE "done"]
<1> USE DEF Goto
<1>1. /\ Join(c) \/ ListenDirect(c) => pc[c] = "idle" /\ pc' = [pc EXCEPT ![c] = "subscribed"]
      /\ ListenDirectNoConn(c) \/ ListenDirectFails(c)
             => pc[c] = "idle" /\ pc' = [pc EXCEPT ![c] = "done"]
  BY DEF Join, ListenDirect, ListenDirectNoConn, ListenDirectFails
<1>2. Leave(c) \/ UnlistenDirect(c) \/ UnlistenDirectFails(c) =>
          pc[c] = "subscribed" /\ pc' = [pc EXCEPT ![c] = "done"]
  BY DEF Leave, UnlistenDirect, UnlistenDirectFails, Unlistens
<1>3. /\ ListenWaiting(c)
             => pc[c] = "idle" /\ \E l \in {"await", "push"} : pc' = [pc EXCEPT ![c] = l]
      /\ UnlistenWaiting(c)
             => pc[c] = "subscribed" /\ \E l \in {"await", "push"} : pc' = [pc EXCEPT ![c] = l]
  BY DEF ListenWaiting, UnlistenWaiting, Interrupt, Unlistens
<1>4. TimesOut(c) => pc[c] = "await" /\ pc' = [pc EXCEPT ![c] = "relock"]
  BY DEF TimesOut
<1>5. Relock(c) => /\ pc[c] = "relock"
                   /\ pc' = [pc EXCEPT ![c] = IF op[c] = "listen" /\ result[c] THEN "subscribed" ELSE "done"]
  BY DEF Relock
<1> QED  BY <1>1, <1>2, <1>3, <1>4, <1>5

\* One client at most is the last one of a topic (LastOne): nobody else subscribes to it.
LEMMA LastOneIsAlone ==
    ASSUME TypeOK, ClientInv, NEW c \in Clients, c \in Subs(c), LastOne(c)
    PROVE  Subs(c) = {c}
<1>1. IsFiniteSet(Subs(c))
  BY TopicOfAssumption DEF ClientInv, Subs
<1>2. Cardinality(Subs(c)) <= 1
  BY DEF LastOne
<1>3. IsFiniteSet(Subs(c) \ {c}) /\ Cardinality(Subs(c) \ {c}) = Cardinality(Subs(c)) - 1
  BY <1>1, FS_RemoveElement
<1>4. Cardinality(Subs(c)) \in Nat /\ Cardinality(Subs(c) \ {c}) \in Nat
  BY <1>1, <1>3, FS_CardinalityType
<1>5. Cardinality(Subs(c) \ {c}) = 0
  BY <1>2, <1>3, <1>4
<1>6. Subs(c) \ {c} = {}
  BY <1>3, <1>5, FS_EmptySet
<1> QED  BY <1>6

\* A call that must wait for the main loop starts when nobody subscribes to the topic
\* but the caller (Listen: !ok; unlisten: len(...) <= 1).
LEMMA StartsAlone ==
    ASSUME TypeOK, ClientInv, NEW c \in Clients, ListenWaiting(c) \/ UnlistenWaiting(c),
           NEW d \in Clients, Calling(d) \/ pc[d] = "subscribed", TopicOf[d] = TopicOf[c]
    PROVE  d = c /\ UnlistenWaiting(c)
<1>1. d \in Subs(c)
  BY DEF ClientInv, Subs
<1>2. ~ListenWaiting(c)
  BY <1>1 DEF ListenWaiting
<1>3. c \in Subs(c) /\ LastOne(c)
  BY <1>2 DEF UnlistenWaiting, Unlistens, ClientInv
<1> QED  BY <1>1, <1>2, <1>3, LastOneIsAlone

\* With(c) adds to and Without(c) takes from one topic.
LEMMA WithWithout ==
    ASSUME TypeOK, NEW c \in Clients, NEW d \in Clients
    PROVE  /\ subscriptions' = With(c) => Subs(d) \subseteq Subs(d)' /\ c \in Subs(c)'
           /\ subscriptions' = Without(c) /\ c # d => (d \in Subs(d) => d \in Subs(d)')
<1>1. subscriptions \in [Topics -> SUBSET Clients] /\ TopicOf[c] \in Topics /\ TopicOf[d] \in Topics
  BY TopicOfAssumption DEF TypeOK
<1> QED  BY <1>1 DEF With, Without, Subs

\* Who calls or is subscribed is in the map, and one client at most per topic calls.
LEMMA ClientInvStep ==
    ASSUME TypeOK, ClientInv, [Next]_vars
    PROVE  ClientInv'
<1>a. pc \in [Clients -> PC]
  BY DEF TypeOK, PC
<1>b. subscriptions \in [Topics -> SUBSET Clients]
  BY DEF TypeOK
<1>0. CASE UNCHANGED vars
  BY <1>0 DEF vars, clientVars, ClientInv, Subs, Calling
<1>1. ASSUME NEW t \in Topics PROVE IsFiniteSet(subscriptions'[t])
  <2>1. IsFiniteSet(subscriptions[t])
    BY DEF ClientInv
  <2>2. ASSUME NEW c \in Clients PROVE IsFiniteSet(With(c)[t]) /\ IsFiniteSet(Without(c)[t])
    <3>1. IsFiniteSet(subscriptions[t] \cup {c}) /\ IsFiniteSet(subscriptions[t] \ {c})
      BY <2>1, FS_AddElement, FS_RemoveElement
    <3>2. With(c)[t] \in {subscriptions[t], subscriptions[t] \cup {c}}
          /\ Without(c)[t] \in {subscriptions[t], subscriptions[t] \ {c}}
      BY <1>b, TopicOfAssumption DEF With, Without
    <3> QED  BY <2>1, <3>1, <3>2
  <2> QED  BY <2>1, <2>2, <1>0, Kinds, ClientSteps, LoopSteps DEF vars
<1>2. ASSUME NEW c \in Clients, NewCall(c) \/ Relock(c) \/ TimesOut(c), NEW d \in Clients, c # d
      PROVE  /\ pc'[d] = pc[d]
             /\ Calling(d) \/ pc[d] = "subscribed" => d \in Subs(d)'
  <2>1. pc'[d] = pc[d]
    BY <1>a, <1>2, ClientGoes DEF NewCall
  <2>2. ASSUME Calling(d) \/ pc[d] = "subscribed" PROVE d \in Subs(d)'
    <3>1. d \in Subs(d)
      BY <2>2 DEF ClientInv
    <3> QED  BY <1>2, <3>1, ClientSteps, WithWithout DEF Subs
  <2> QED  BY <2>1, <2>2
<1>3. ASSUME NEW c \in Clients, NewCall(c) \/ Relock(c) \/ TimesOut(c),
             Calling(c)' \/ pc'[c] = "subscribed"
      PROVE  c \in Subs(c)'
  <2>1. CASE Join(c) \/ ListenDirect(c) \/ ListenWaiting(c)
    BY <2>1, WithWithout DEF Join, ListenDirect, ListenWaiting
  <2>2. CASE UnlistenWaiting(c) \/ TimesOut(c)
    BY <2>2, ClientGoes DEF UnlistenWaiting, TimesOut, ClientInv, Calling, Subs
  <2>3. CASE Relock(c)
    <3>1. pc[c] = "relock" /\ pc'[c] = IF op[c] = "listen" /\ result[c]
                                     THEN "subscribed" ELSE "done"
      BY <1>a, <2>3, ClientGoes
    <3>2. op[c] = "listen" /\ result[c]
      BY <1>3, <3>1 DEF Calling
    <3>3. subscriptions' = subscriptions
      <4>1. result[c] = TRUE
        BY <3>2 DEF TypeOK
      <4> QED  BY <2>3, <3>2, <4>1 DEF Relock
    <3> QED  BY <3>1, <3>3 DEF ClientInv, Calling, Subs
  <2>4. CASE \/ ListenDirectNoConn(c) \/ ListenDirectFails(c) \/ Leave(c) \/ UnlistenDirect(c)
             \/ UnlistenDirectFails(c)
    BY <1>a, <1>3, <2>4, ClientGoes DEF Calling
  <2> QED  BY <1>3, <2>1, <2>2, <2>3, <2>4 DEF NewCall
<1>4. ASSUME NEW c \in Clients, NewCall(c) \/ Relock(c) \/ TimesOut(c), Calling(c)'
      PROVE  Calling(c) \/ ListenWaiting(c) \/ UnlistenWaiting(c)
  BY <1>a, <1>4, ClientGoes DEF NewCall, Calling
<1>5. ASSUME MainSteps, NEW d \in Clients
      PROVE  /\ pc'[d] = pc[d] \/ (pc[d] = "await" /\ pc'[d] = "relock")
             /\ Subs(d)' = Subs(d)
  BY <1>a, <1>5, LoopSteps DEF Reply, Goto, Subs
<1>6. ASSUME NEW c \in Clients, Calling(c)' \/ pc'[c] = "subscribed" PROVE c \in Subs(c)'
  <2>1. CASE MainSteps
    BY <1>5, <1>6, <2>1 DEF ClientInv, Calling
  <2>2. CASE UNCHANGED vars
    BY <1>0, <1>6, <2>2 DEF ClientInv
  <2>3. ASSUME NEW d \in Clients, NewCall(d) \/ Relock(d) \/ TimesOut(d) PROVE c \in Subs(c)'
    BY <1>2, <1>3, <1>6, <2>3 DEF Calling
  <2> QED  BY <2>1, <2>2, <2>3, Kinds
<1>7. ASSUME NEW c \in Clients, NEW d \in Clients, Calling(c)', Calling(d)', TopicOf[c] = TopicOf[d]
      PROVE  c = d
  <2>1. CASE MainSteps
    BY <1>5, <1>7, <2>1 DEF ClientInv, Calling
  <2>2. CASE UNCHANGED vars
    BY <1>0, <1>7, <2>2 DEF ClientInv
  <2>3. ASSUME NEW e \in Clients, NewCall(e) \/ Relock(e) \/ TimesOut(e), c # d PROVE FALSE
    <3>1. CASE e = c
      <4>1. Calling(d)
        BY <1>2, <1>7, <2>3, <3>1 DEF Calling
      <4> QED  BY <1>4, <1>7, <2>3, <3>1, <4>1, StartsAlone DEF ClientInv
    <3>2. CASE e = d
      <4>1. Calling(c)
        BY <1>2, <1>7, <2>3, <3>2 DEF Calling
      <4> QED  BY <1>4, <1>7, <2>3, <3>2, <4>1, StartsAlone DEF ClientInv
    <3>3. CASE e # c /\ e # d
      BY <1>2, <1>7, <2>3, <3>3 DEF ClientInv, Calling
    <3> QED  BY <3>1, <3>2, <3>3
  <2> QED  BY <2>1, <2>2, <2>3, Kinds
<1> QED  BY <1>1, <1>6, <1>7 DEF ClientInv

-------------------------------------------------------------------------------
(* The channel has room *)

\* If no client times out, what is in the channel are calls of different topics, none
\* of which is the topic of a new call: so there is room if there is a place per topic.
LEMMA HasRoom ==
    ASSUME TypeOK, ClientInv, QueueInv, IsFiniteSet(Topics), Cardinality(Topics) <= Capacity,
           NEW c \in Clients, ListenWaiting(c) \/ UnlistenWaiting(c)
    PROVE  Room
<1> SUFFICES ASSUME ~Room PROVE FALSE
  OBVIOUS
<1> DEFINE n == Len(queue)
           T == Topics \ {TopicOf[c]}
           f == [k \in 1 .. n |-> TopicOf[queue[k].client]]
<1>1. queue \in Seq(Interrupts) /\ n \in Nat /\ ~(n < Capacity)
  BY LenProperties DEF TypeOK, Room
<1>2. ASSUME NEW k \in 1 .. n
      PROVE  queue[k].client \in Clients /\ Calling(queue[k].client)
                 /\ pc[queue[k].client] = "await"
  <2>1. queue[k] \in Interrupts
    BY <1>1, <1>2, ElementOfSeq
  <2>2. queue[k].client \in Clients
    BY <2>1 DEF Interrupts
  <2>3. Pending(queue[k].client, k) /\ k \in Nat
    BY <1>1 DEF Pending
  <2> QED  BY <2>2, <2>3 DEF QueueInv, Calling
<1>3. f \in [1 .. n -> T]
  <2> SUFFICES ASSUME NEW k \in 1 .. n PROVE TopicOf[queue[k].client] \in T
    OBVIOUS
  <2>1. TopicOf[queue[k].client] \in Topics
    BY <1>2, TopicOfAssumption
  <2>2. ASSUME TopicOf[queue[k].client] = TopicOf[c] PROVE FALSE
    <3>1. queue[k].client = c /\ UnlistenWaiting(c)
      BY <1>2, <2>2, StartsAlone
    <3> QED  BY <1>2, <3>1, ClientGoes
  <2> QED  BY <2>1, <2>2
<1>4. IsFiniteSet(T) /\ Cardinality(T) < Cardinality(1 .. n) /\ IsFiniteSet(1 .. n)
  <2>1. TopicOf[c] \in Topics
    BY TopicOfAssumption
  <2>2. IsFiniteSet(T) /\ Cardinality(T) = Cardinality(Topics) - 1 /\ Cardinality(Topics) \in Nat
    BY <2>1, FS_RemoveElement, FS_CardinalityType
  <2>3. IsFiniteSet(1 .. n) /\ Cardinality(1 .. n) = n
    <3> HIDE DEF n
    <3>1. Cardinality(1 .. n) = IF 1 > n THEN 0 ELSE n - 1 + 1
      BY <1>1, FS_Interval
    <3> QED  BY <1>1, <3>1, FS_Interval
  <2> HIDE DEF n, T
  <2> QED  BY <1>1, <2>2, <2>3, CapacityAssumption
<1>5. \E k, l \in 1 .. n : k # l /\ f[k] = f[l]
  <2> HIDE DEF f, n, T
  <2> QED  BY <1>3, <1>4, FS_PigeonHole
<1>6. PICK k \in 1 .. n, l \in 1 .. n : k # l /\ TopicOf[queue[k].client] = TopicOf[queue[l].client]
  BY <1>5
<1>7. queue[k].client = queue[l].client
  BY <1>2, <1>6 DEF ClientInv
<1>8. k \in Nat /\ l \in Nat /\ Pending(queue[k].client, k) /\ Pending(queue[k].client, l)
  BY <1>1, <1>7 DEF Pending
<1> QED  BY <1>2, <1>6, <1>8 DEF QueueInv

\* Where an interrupt that is in the channel after a step was before it.
LEMMA PendingMoves ==
    ASSUME TypeOK, [Next]_vars, NEW c \in Clients, NEW k \in Nat, Pending(c, k)'
    PROVE  \/ UNCHANGED queue /\ Pending(c, k)
           \/ RunInterrupt /\ queue # << >> /\ Pending(c, k + 1)
           \/ \E d \in Clients : /\ ListenWaiting(d) \/ UnlistenWaiting(d)
                                 /\ pc' = [pc EXCEPT ![d] = "await"]
                                 /\ Pending(c, k) \/ (c = d /\ k = Len(queue) + 1)
<1>1. queue \in Seq(Interrupts) /\ Len(queue) \in Nat
  BY LenProperties DEF TypeOK
<1>2. CASE UNCHANGED queue
  BY <1>2 DEF Pending
<1>3. CASE RunInterrupt /\ queue # << >> /\ queue' = Tail(queue)
  <2>1. k \in 1 .. Len(Tail(queue)) /\ Tail(queue)[k].client = c
    BY <1>3 DEF Pending
  <2>2. k + 1 \in 1 .. Len(queue) /\ Tail(queue)[k] = queue[k + 1]
    BY <1>1, <1>3, <2>1, HeadTailProperties
  <2> QED  BY <1>3, <2>1, <2>2 DEF Pending
<1>4. ASSUME NEW d \in Clients, NEW o \in {"listen", "unlisten"},
             ListenWaiting(d) \/ UnlistenWaiting(d),
             queue' = Append(queue, [client |-> d, op |-> o])
      PROVE  Pending(c, k) \/ (c = d /\ k = Len(queue) + 1)
  <2> DEFINE i == [client |-> d, op |-> o]
  <2>1. i \in Interrupts /\ i.client = d
    BY DEF Interrupts
  <2>2. k \in 1 .. Len(Append(queue, i)) /\ Append(queue, i)[k].client = c
    BY <1>4 DEF Pending
  <2> HIDE DEF i
  <2>3. \/ k \in 1 .. Len(queue) /\ Append(queue, i)[k] = queue[k]
        \/ k = Len(queue) + 1 /\ Append(queue, i)[k] = i
    BY <1>1, <2>1, <2>2, AppendProperties
  <2> QED  BY <2>1, <2>2, <2>3 DEF Pending
<1> QED  BY <1>2, <1>3, <1>4, PushedOrTaken

\* An interrupt in the queue is one that a client waits on, so the queue has a place for each
\* topic (addListener, removeListener).
LEMMA QueueInvStep ==
    ASSUME TypeOK, MainInv, ClientInv, QueueInv, [Next]_vars,
           ~SlowOperations, IsFiniteSet(Topics), Cardinality(Topics) <= Capacity
    PROVE  QueueInv'
<1>a. pc \in [Clients -> PC]
  BY DEF TypeOK, PC
<1>b. Len(queue) \in Nat
  BY LenProperties DEF TypeOK
<1>1. ASSUME NEW c \in Clients, NEW k \in Nat, Pending(c, k)' PROVE pc'[c] = "await"
  <2>1. CASE \E d \in Clients : /\ ListenWaiting(d) \/ UnlistenWaiting(d)
                                /\ pc' = [pc EXCEPT ![d] = "await"]
                                /\ Pending(c, k) \/ (c = d /\ k = Len(queue) + 1)
    BY <1>a, <2>1 DEF QueueInv
  <2>2. CASE RunInterrupt /\ Pending(c, k + 1)
    <3>1. k + 1 \in Nat /\ pc' = pc
      BY <2>2 DEF RunInterrupt, clientVars
    <3> QED  BY <2>2, <3>1 DEF QueueInv
  <2>3. CASE UNCHANGED queue /\ Pending(c, k)
    <3>1. pc[c] = "await"
      BY <2>3 DEF QueueInv
    <3>2. CASE UNCHANGED vars
      BY <3>1, <3>2 DEF vars, clientVars
    <3>3. CASE MainSteps
      <4>1. ASSUME Reply PROVE pc'[c] = pc[c]
        <5>1. main = "reply" /\ pc' = [pc EXCEPT ![reply.to.client] = "relock"]
          BY <4>1 DEF Reply, At, Goto
        <5>2. c # reply.to.client
          BY <2>3, <5>1 DEF QueueInv
        <5> QED  BY <1>a, <5>1, <5>2
      <4> QED  BY <3>1, <3>3, <4>1, LoopSteps
    <3>4. ASSUME NEW d \in Clients, NewCall(d) \/ Relock(d) \/ TimesOut(d) PROVE pc'[c] = pc[c]
      <4>1. ~TimesOut(d)
        BY DEF TimesOut
      <4>2. c # d
        BY <3>1, <3>4, <4>1, ClientGoes DEF NewCall
      <4> QED  BY <1>a, <3>4, <4>2, ClientGoes DEF NewCall
    <3> QED  BY <3>1, <3>2, <3>3, <3>4, Kinds
  <2> QED  BY <1>1, <2>1, <2>2, <2>3, PendingMoves
<1>2. ASSUME NEW c \in Clients, NEW k \in Nat, NEW l \in Nat, Pending(c, k)', Pending(c, l)'
      PROVE  k = l
  <2>1. CASE UNCHANGED queue
    BY <1>2, <2>1 DEF Pending, QueueInv
  <2>2. CASE RunInterrupt /\ queue # << >> /\ queue' = Tail(queue)
    <3>1. k + 1 \in Nat /\ l + 1 \in Nat
      OBVIOUS
    <3>2. ~ListenWaiting(c) /\ \A d \in Clients : ~ListenWaiting(d) /\ ~UnlistenWaiting(d)
      BY <2>2 DEF RunInterrupt, ListenWaiting, UnlistenWaiting, mainVars, At, Main
    <3>3. queue' # queue
      <4>1. queue \in Seq(Interrupts)
        BY DEF TypeOK
      <4>2. Len(Tail(queue)) = Len(queue) - 1
        BY <2>2, <4>1, HeadTailProperties
      <4>3. queue' = queue => Len(Tail(queue)) = Len(queue)
        BY <2>2
      <4> QED  BY <1>b, <4>2, <4>3
    <3>4. Pending(c, k + 1) /\ Pending(c, l + 1)
      BY <1>2, <3>2, <3>3, PendingMoves
    <3>5. k + 1 = l + 1
      BY <3>1, <3>4 DEF QueueInv
    <3> QED  BY <3>5
  <2>3. ASSUME NEW d \in Clients, ListenWaiting(d) \/ UnlistenWaiting(d),
               pc' = [pc EXCEPT ![d] = "await"]
        PROVE  k = l
    <3>1. ~RunInterrupt
      BY <2>3 DEF RunInterrupt, ListenWaiting, UnlistenWaiting, mainVars, At, Main
    <3>2. pc[d] # "await"
      BY <2>3, ClientGoes
    <3>3. \A m \in Nat : ~Pending(d, m)
      BY <3>2 DEF QueueInv
    <3>4. /\ Pending(c, k) \/ (c = d /\ k = Len(queue) + 1)
          /\ Pending(c, l) \/ (c = d /\ l = Len(queue) + 1)
      <4>1. ASSUME NEW e \in Clients, ListenWaiting(e) \/ UnlistenWaiting(e),
                   pc' = [pc EXCEPT ![e] = "await"]
            PROVE  e = d
        BY <1>a, <3>2, <2>3, <4>1, ClientGoes
      <4> QED  BY <1>2, <3>1, <4>1, PendingMoves
    <3> QED  BY <3>3, <3>4 DEF QueueInv
  <2> QED  BY <2>1, <2>2, <2>3, PushedOrTaken
<1>3. ASSUME main' = "reply", NEW k \in Nat, Pending(reply.to.client, k)'
      PROVE  FALSE
  <2>1. CASE RunInterrupt
    <3> DEFINE i == Head(queue)
    <3>1. queue \in Seq(Interrupts) /\ queue # << >> /\ queue' = Tail(queue) /\ reply'.to = i
      BY <2>1 DEF RunInterrupt, TypeOK
    <3>2. i \in Interrupts /\ i = queue[1] /\ 1 \in 1 .. Len(queue)
      BY <1>b, <3>1, HeadTailProperties, EmptySeq
    <3>3. i.client \in Clients /\ Pending(i.client, 1)
      BY <3>2 DEF Interrupts, Pending
    <3>4. k \in 1 .. Len(Tail(queue)) /\ Tail(queue)[k].client = i.client
      BY <1>3, <3>1 DEF Pending
    <3>5. k + 1 \in 1 .. Len(queue) /\ Tail(queue)[k] = queue[k + 1]
      BY <3>1, <3>4, HeadTailProperties
    <3>6. Pending(i.client, k + 1) /\ k + 1 \in Nat /\ k + 1 # 1
      BY <3>4, <3>5 DEF Pending
    <3> QED  BY <3>3, <3>6 DEF QueueInv
  <2>2. CASE ~RunInterrupt
    <3>1. UNCHANGED <<main, reply>>
      <4>1. MainSteps => main = "reply" /\ UNCHANGED reply
        BY <1>3, <2>2, MainGoes, LoopSteps
      <4>2. MainSteps => UNCHANGED main
        BY <1>3, <2>2, MainGoes
      <4> QED  BY <4>1, <4>2, Kinds, ClientSteps DEF vars, mainVars
    <3>2. queue' = queue
      <4>1. \A c \in Clients : ~ListenWaiting(c) /\ ~UnlistenWaiting(c)
        BY <1>3, <3>1 DEF ListenWaiting, UnlistenWaiting, MainInv
      <4> QED  BY <2>2, <4>1, PushedOrTaken
    <3> QED  BY <1>3, <3>1, <3>2 DEF QueueInv, Pending
  <2> QED  BY <2>1, <2>2
<1>4. PushNeverBlocks'
  <2>1. \A c \in Clients : ListenWaiting(c) => pc' = [pc EXCEPT ![c] = "await"]
    BY HasRoom DEF ListenWaiting, Interrupt, Goto
  <2>2. \A c \in Clients : UnlistenWaiting(c) => pc' = [pc EXCEPT ![c] = "await"]
    BY HasRoom DEF UnlistenWaiting, Interrupt, Goto
  <2>3. \A c \in Clients : pc[c] # "push"
    BY DEF QueueInv, PushNeverBlocks
  <2>4. ASSUME NEW c \in Clients, NewCall(c) \/ Relock(c) \/ TimesOut(c), NEW d \in Clients
        PROVE  pc'[d] # "push"
    BY <1>a, <2>1, <2>2, <2>3, <2>4, ClientGoes DEF NewCall
  <2>5. ASSUME MainSteps, NEW d \in Clients PROVE pc'[d] # "push"
    BY <1>a, <2>3, <2>5, LoopSteps DEF Reply, Goto
  <2> QED  BY <2>3, <2>4, <2>5, Kinds DEF PushNeverBlocks, vars, clientVars
<1> QED  BY <1>1, <1>2, <1>3, <1>4 DEF QueueInv

-------------------------------------------------------------------------------
(* The manager's subscriptions *)

\* An UNLISTEN comes into the channel with the call of its client (unlisten), and
\* leaves it when the main loop runs it.
LEMMA UnlisteningMoves ==
    ASSUME TypeOK, [Next]_vars, NEW t \in Topics, Unlistening(t)'
    PROVE  Unlistening(t) \/ \E c \in Clients : UnlistenWaiting(c) /\ TopicOf[c] = t
<1>1. queue \in Seq(Interrupts) /\ Len(queue) \in Nat
  BY LenProperties DEF TypeOK
<1>2. PICK i \in 1 .. Len(queue') : queue'[i].op = "unlisten" /\ TopicOf[queue'[i].client] = t
  BY DEF Unlistening
<1>3. CASE UNCHANGED queue
  BY <1>2, <1>3 DEF Unlistening
<1>4. CASE queue # << >> /\ queue' = Tail(queue)
  <2>1. i \in 1 .. Len(Tail(queue)) /\ Tail(queue)[i].op = "unlisten"
            /\ TopicOf[Tail(queue)[i].client] = t
    BY <1>2, <1>4
  <2>2. i + 1 \in 1 .. Len(queue) /\ Tail(queue)[i] = queue[i + 1]
    BY <1>1, <1>4, <2>1, HeadTailProperties
  <2> QED  BY <2>1, <2>2 DEF Unlistening
<1>5. ASSUME NEW c \in Clients, NEW o \in {"listen", "unlisten"},
             o = "unlisten" => UnlistenWaiting(c),
             queue' = Append(queue, [client |-> c, op |-> o])
      PROVE  Unlistening(t) \/ (UnlistenWaiting(c) /\ TopicOf[c] = t)
  <2> DEFINE x == [client |-> c, op |-> o]
  <2>1. x \in Interrupts /\ x.client = c /\ x.op = o
    BY DEF Interrupts
  <2>2. /\ i \in 1 .. Len(Append(queue, x))
        /\ Append(queue, x)[i].op = "unlisten" /\ TopicOf[Append(queue, x)[i].client] = t
    BY <1>2, <1>5
  <2> HIDE DEF x
  <2>3. \/ i \in 1 .. Len(queue) /\ Append(queue, x)[i] = queue[i]
        \/ i = Len(queue) + 1 /\ Append(queue, x)[i] = x
    BY <1>1, <2>1, <2>2, AppendProperties
  <2> QED  BY <1>5, <2>1, <2>2, <2>3 DEF Unlistening
<1> QED  BY <1>3, <1>4, <1>5, PushedOrTaken

\* Where the calls of a keeper go, in the order in which Start and Close make them.
LEMMA KeeperGoes ==
    ASSUME TypeOK, MainInv, ClientInv, KeeperInv, [Next /\ ManagerOrder]_vars, NEW k \in Keepers
    PROVE  /\ main' = "off" => pc'[k] \in {"idle", "subscribed", "done"}
           /\ main' # "off" => pc'[k] # "idle"
           /\ Calling(k)' => op'[k] = "unlisten"
           /\ Stays(k)' => Stays(k) \/ (main = "off" /\ UNCHANGED <<main, queue>>)
<1>a. pc \in [Clients -> PC] /\ op \in [Clients -> {"none", "listen", "unlisten"}] /\ k \in Clients
  BY ClientsAssumption DEF TypeOK, PC, Keepers
<1>b. [Next]_vars
  OBVIOUS
<1>1. /\ main = "off" => pc[k] \in {"idle", "subscribed", "done"}
      /\ main # "off" => pc[k] # "idle"
      /\ Calling(k) => op[k] = "unlisten"
  BY DEF KeeperInv
<1>2. CASE UNCHANGED vars
  BY <1>1, <1>2 DEF vars, mainVars, clientVars, Calling, Stays
<1>3. CASE MainSteps /\ ~UNCHANGED vars
  <2>1. (pc'[k] = pc[k] \/ (pc[k] = "await" /\ pc'[k] = "relock")) /\ op' = op
    BY <1>a, <1>3, LoopSteps DEF Reply, Goto
  <2>2. main' = "off" => main = "off"
    BY <1>3, MainGoes
  <2>3. main = "off" /\ main' # "off" => pc[k] # "idle"
    BY <1>3 DEF ManagerOrder, At, Keepers
  <2> QED  BY <1>1, <2>1, <2>2, <2>3 DEF Calling, Stays
<1>4. ASSUME NEW c \in Clients, NewCall(c) \/ Relock(c) \/ TimesOut(c), ~UNCHANGED vars, c # k
      PROVE  pc'[k] = pc[k] /\ op'[k] = op[k] /\ main' = main
  <2>1. pc'[k] = pc[k]
    BY <1>a, <1>4, ClientGoes DEF NewCall
  <2>2. op'[k] = op[k]
    BY <1>a, <1>4 DEF NewCall, Join, ListenWaiting, ListenDirect, ListenDirectNoConn,
       ListenDirectFails, Leave, UnlistenWaiting, UnlistenDirect, UnlistenDirectFails, Relock,
       TimesOut, Interrupt
  <2> QED  BY <1>4, <2>1, <2>2, ClientSteps DEF mainVars
<1>5. CASE (NewCall(k) \/ Relock(k) \/ TimesOut(k)) /\ ~UNCHANGED vars
  <2>1. main' = main
    BY <1>5, <1>a, ClientSteps DEF mainVars
  <2>2. main = "off" /\ pc'[k] # pc[k] => pc[k] = "idle"
    BY <1>5 DEF ManagerOrder, At
  <2>3. ~ListenWaiting(k)
    BY <1>1 DEF ListenWaiting, MainInv
  <2>4. UnlistenWaiting(k)
            => op'[k] = "unlisten" /\ pc[k] = "subscribed" /\ pc'[k] \in {"push", "await"}
    BY <1>a DEF UnlistenWaiting, Unlistens, Interrupt, Goto
  <2>5. TimesOut(k) => pc[k] = "await" /\ pc'[k] = "relock" /\ op' = op
    BY <1>a DEF TimesOut, Goto
  <2>6. Relock(k) => pc[k] = "relock" /\ pc'[k] = "done"
    <3>1. Relock(k) => pc[k] = "relock" /\ Calling(k)
      BY DEF Relock, Calling
    <3>2. Relock(k) => op[k] # "listen"
      BY <1>1, <3>1
    <3> QED  BY <1>a, <3>1, <3>2, ClientGoes
  <2>7. Join(k) \/ ListenDirect(k) => pc[k] = "idle" /\ pc'[k] = "subscribed" /\ UNCHANGED queue
    BY <1>a, ClientGoes DEF Join, ListenDirect
  <2>8. ListenDirectNoConn(k) \/ ListenDirectFails(k) \/ Leave(k) \/ UnlistenDirect(k)
            \/ UnlistenDirectFails(k)
           => pc'[k] = "done"
    BY <1>a, ClientGoes
  <2> QED  BY <1>1, <1>5, <2>1, <2>2, <2>3, <2>4, <2>5, <2>6, <2>7, <2>8 DEF NewCall, Calling, Stays
<1> QED  BY <1>1, <1>2, <1>3, <1>4, <1>5, <1>b, Kinds DEF Calling, Stays

\* What happens to the topic of a keeper that stays subscribed.
LEMMA KeeperInvStep ==
    ASSUME TypeOK, MainInv, ClientInv, KeeperInv, [Next /\ ManagerOrder]_vars
    PROVE  KeeperInv'
<1> SUFFICES ASSUME NEW k \in Keepers
             PROVE  /\ main' = "off" => pc'[k] \in {"idle", "subscribed", "done"}
                    /\ main' # "off" => pc'[k] # "idle"
                    /\ Calling(k)' => op'[k] = "unlisten"
                    /\ Stays(k)' => ~Unlistening(TopicOf[k])'
                    /\ Stays(k)' /\ conn' = "up" /\ main' = "listen"
                           => TopicOf[k] \in listening' \cup todo'
                    /\ Stays(k)' /\ conn' = "up" /\ main' \in InLoop => TopicOf[k] \in listening'
  BY DEF KeeperInv
<1> DEFINE t == TopicOf[k]
<1>a. k \in Clients /\ t \in Topics /\ [Next]_vars /\ pc \in [Clients -> PC]
  BY ClientsAssumption, TopicOfAssumption DEF Keepers, TypeOK, PC
<1>b. queue \in Seq(Interrupts)
  BY DEF TypeOK
<1>1. ASSUME Stays(k)', NEW c \in Clients, c \in Subs(c), LastOne(c), TopicOf[c] = t, Stays(k)
      PROVE  c = k
  <2>1. k \in Subs(c)
    BY <1>a, <1>1 DEF ClientInv, Stays, Subs
  <2> QED  BY <1>1, <2>1, LastOneIsAlone
<1>2. ASSUME Stays(k)' PROVE ~Unlistening(t)'
  <2>1. CASE Stays(k)
    <3>1. ~Unlistening(t)
      BY <2>1 DEF KeeperInv
    <3>2. ASSUME NEW c \in Clients, UnlistenWaiting(c), TopicOf[c] = t PROVE FALSE
      <4>1. c \in Subs(c) /\ LastOne(c)
        BY <3>2 DEF UnlistenWaiting, Unlistens, ClientInv
      <4>2. c = k
        BY <1>1, <1>2, <2>1, <3>2, <4>1
      <4> QED  BY <1>2, <1>a, <3>2, <4>2, ClientGoes DEF Stays
    <3> QED  BY <1>a, <3>1, <3>2, UnlisteningMoves
  <2>2. CASE main = "off" /\ UNCHANGED <<main, queue>>
    <3>1. queue' = << >> /\ Len(<< >>) = 0
      BY <2>2 DEF MainInv, NoInterruptLeftBehind
    <3>2. 1 .. Len(queue') = {}
      BY <3>1
    <3> QED  BY <3>2 DEF Unlistening
  <2> QED  BY <1>2, <2>1, <2>2, KeeperGoes
<1>3. ASSUME Stays(k)', conn' = "up", main' \in InLoop \cup {"listen"}
      PROVE  /\ Stays(k) /\ k \in Subs(k)
             /\ main' = "listen" => t \in listening' \cup todo'
             /\ main' \in InLoop => t \in listening'
  <2>1. Stays(k) /\ k \in Subs(k)
    <3>1. Stays(k)
      BY <1>3, KeeperGoes DEF InLoop
    <3> QED  BY <1>a, <3>1 DEF ClientInv, Stays
  <2>2. /\ conn = "up" /\ main = "listen" => t \in listening \cup todo
        /\ conn = "up" /\ main \in InLoop => t \in listening
    BY <2>1 DEF KeeperInv
  <2>3. CASE UNCHANGED vars
    BY <1>3, <2>1, <2>2, <2>3 DEF vars, mainVars, connVars
  <2>4. CASE MainSteps
    <3>1. CASE ReadTopics
      <4>1. t \in todo' /\ main' = "listen"
        BY <1>a, <2>1, <3>1 DEF ReadTopics, Subscribed, Subs, Main
      <4> QED  BY <2>1, <4>1 DEF InLoop
    <3>2. CASE RunInterrupt
      <4> DEFINE i == Head(queue)
      <4>1. queue # << >> /\ conn = "up" /\ main = "drain" /\ main' = "reply"
        BY <1>3, <3>2 DEF RunInterrupt, Failed, At, Main
      <4>2. i = queue[1] /\ 1 \in 1 .. Len(queue)
        BY <1>b, <4>1, HeadTailProperties, LenProperties, EmptySeq
      <4>3. i.op = "unlisten" => TopicOf[i.client] # t
        BY <2>1, <4>2 DEF KeeperInv, Unlistening
      <4>4. i.op = "listen" \/ i.op = "unlisten"
        <5>1. i \in Interrupts
          BY <1>b, <4>1, HeadTailProperties
        <5> QED  BY <5>1 DEF Interrupts
      <4>5. t \in listening
        BY <2>2, <4>1 DEF InLoop
      <4> HIDE DEF i
      <4>6. listening' = listening \/ listening' = listening \cup {TopicOf[i.client]}
            \/ (i.op # "listen" /\ listening' = listening \ {TopicOf[i.client]})
        BY <3>2 DEF RunInterrupt, Listened, Unlistened, Failed, i
      <4> QED  BY <2>1, <4>1, <4>3, <4>4, <4>5, <4>6
    <3>3. CASE \E s \in Topics : ListenTopic(s)
      <4>1. conn = "up" /\ main = "listen" /\ main' = main
        BY <3>3 DEF ListenTopic, At
      <4>2. PICK s \in Topics : listening' = listening \cup {s} /\ todo' = todo \ {s}
        BY <3>3 DEF ListenTopic, Listened
      <4> QED  BY <2>1, <2>2, <4>1, <4>2 DEF InLoop
    <3>4. CASE ~ReadTopics /\ ~RunInterrupt /\ ~\E s \in Topics : ListenTopic(s)
      <4>1. ~Start /\ ~Connect /\ ~ListenTopicFails /\ ~CloseConn /\ ~End
        BY <1>3 DEF Start, Connect, ListenTopicFails, CloseConn, End, Main, AfterError, InLoop
      <4>2. ~Fault
        BY <1>3 DEF Fault
      <4>3. UNCHANGED <<conn, listening, todo>>
        BY <2>4, <3>4, <4>1, <4>2, LoopSteps
      <4>4. main = main' \/ main \in InLoop \/ (main = "listen" /\ todo = {} /\ main' \in InLoop)
        BY <1>3, <2>4, <3>4, <4>1, MainGoes DEF InLoop
      <4>5. main' = "listen" => main = "listen"
        BY <1>3, <2>4, <3>4, <4>1, MainGoes DEF InLoop
      <4> QED  BY <1>3, <2>1, <2>2, <4>3, <4>4, <4>5 DEF InLoop
    <3> QED  BY <3>1, <3>2, <3>3, <3>4
  <2>5. ASSUME NEW c \in Clients, NewCall(c) \/ Relock(c) \/ TimesOut(c)
        PROVE  /\ conn = "up" /\ t \in listening \cup todo /\ UNCHANGED <<main, todo>>
               /\ \/ listening \subseteq listening'
                  \/ c # k /\ UnlistenDirect(c) /\ listening' = listening \ {TopicOf[c]}
    <3>1. UNCHANGED <<main, todo>> /\ main \in InUse
      BY <1>3, <2>5, ClientSteps DEF mainVars, InUse, InLoop
    <3>2. conn # "none" /\ isStarted
      BY <3>1 DEF MainInv
    <3>3. ListenDirect(c) => conn = "up" /\ listening \subseteq listening'
      BY <3>2 DEF ListenDirect, Listened
    <3>4. ListenDirectFails(c) => conn = "up" /\ listening \subseteq listening'
      BY <1>3, <3>2 DEF ListenDirectFails, ClosesUnused, Failed
    <3>5. UnlistenDirect(c) => conn = "up" /\ c # k /\ listening' = listening \ {TopicOf[c]}
      <4>1. ASSUME UnlistenDirect(c) PROVE c # k
        BY <1>3, <1>a, <4>1, ClientGoes DEF Stays
      <4>2. UnlistenDirect(c) => conn = "up" /\ listening' = listening \ {TopicOf[c]}
        BY <3>2 DEF UnlistenDirect, Unlistened
      <4> QED  BY <4>1, <4>2
    <3>6. ~UnlistenDirectFails(c)
      BY <1>3 DEF UnlistenDirectFails, Failed
    <3>7. conn = "up"
      BY <1>3, <2>5, <3>3, <3>4, <3>5, <3>6, ClientSteps
    <3>8. t \in listening \cup todo
      BY <1>3, <2>2, <3>1, <3>7
    <3> QED  BY <2>5, <3>1, <3>3, <3>4, <3>5, <3>6, <3>7, <3>8, ClientSteps
  <2>6. ASSUME NEW c \in Clients, NewCall(c) \/ Relock(c) \/ TimesOut(c)
        PROVE  /\ main' = "listen" => t \in listening' \cup todo'
               /\ main' \in InLoop => t \in listening'
    <3>1. UnlistenDirect(c) /\ c # k => TopicOf[c] # t
      BY <1>1, <1>3, <2>1 DEF UnlistenDirect, Unlistens, ClientInv
    <3>2. /\ conn = "up" /\ t \in listening \cup todo /\ UNCHANGED <<main, todo>>
          /\ \/ listening \subseteq listening'
             \/ c # k /\ UnlistenDirect(c) /\ listening' = listening \ {TopicOf[c]}
      BY <2>5, <2>6
    <3>3. t \in listening => t \in listening'
      BY <3>1, <3>2
    <3>4. main' \in InLoop => t \in listening
      BY <2>2, <3>2
    <3> QED  BY <3>2, <3>3, <3>4
  <2> QED  BY <1>a, <2>1, <2>3, <2>4, <2>6, Kinds DEF mainVars, connVars
<1> QED  BY <1>2, <1>3, KeeperGoes

-------------------------------------------------------------------------------
(* The theorems *)

\* The invariants hold when the notifier was made (New).
LEMMA Initially ==
    ASSUME Init
    PROVE  IInv /\ QueueInv /\ KeeperInv
<1> USE DEF Init
<1>1. queue = << >> /\ << >> \in Seq(Interrupts) /\ Len(queue) = 0 /\ Capacity \in Nat
  BY CapacityAssumption, EmptySeq
<1>2. TypeOK
  <2>1. faults \in 0 .. MaxFaults
    BY MaxFaultsAssumption
  <2>2. Len(queue) <= Capacity
    BY <1>1
  <2> QED  BY <1>1, <2>1, <2>2 DEF TypeOK
<1>3. MainInv
  BY DEF MainInv, NoInterruptLeftBehind, InUse
<1>4. ClientInv
  BY FS_EmptySet DEF ClientInv, Calling
<1>5. QueueInv
  <2>1. 1 .. Len(queue) = {}
    BY <1>1
  <2> QED  BY <2>1 DEF QueueInv, Pending, PushNeverBlocks
<1>6. KeeperInv
  BY ClientsAssumption DEF KeeperInv, Keepers, Calling, Stays, InLoop
<1> QED  BY <1>2, <1>3, <1>4, <1>5, <1>6 DEF IInv

\* What every step keeps, whatever the clients do.
THEOREM Inductive == Spec => []IInv
<1>1. Init => IInv
  BY Initially
<1>2. IInv /\ [Next]_vars => IInv'
  BY TypeStep, MainInvStep, ClientInvStep DEF IInv
<1> QED  BY <1>1, <1>2, PTL DEF Spec

\* Every variable of the notifier has its type in every state; waitInterruptChan never
\* holds more than its capacity.
THEOREM Types == Spec => []TypeOK
<1>1. IInv => TypeOK
  BY DEF IInv
<1> QED  BY <1>1, Inductive, PTL

\* When the main loop is not in its wait loop, no interrupt operation is left in
\* waitInterruptChan for nobody to run, even if clients time out (drainInterrupts).
THEOREM ChannelDrained == Spec => []NoInterruptLeftBehind
<1>1. IInv => NoInterruptLeftBehind
  BY DEF IInv, MainInv
<1> QED  BY <1>1, Inductive, PTL

\* Between listenerConnect and its deferred listenerClose the main loop finds the
\* connection open, although clients connect and close it too (justConnected, isStarted).
THEOREM ConnectionOpen == Spec => []OpenWhileInUse
<1>1. IInv => OpenWhileInUse
  BY DEF IInv, MainInv, InUse, OpenWhileInUse
<1> QED  BY <1>1, Inductive, PTL

\* With a place in waitInterruptChan for each topic, and operations that end before
\* their clients give up, no client blocks on the channel while it holds n.mu.
THEOREM NeverBlocks ==
    ASSUME ~SlowOperations, IsFiniteSet(Topics), Cardinality(Topics) <= Capacity
    PROVE  Spec => []PushNeverBlocks
<1>1. Init => QueueInv
  BY Initially
<1>2. IInv /\ QueueInv /\ [Next]_vars => QueueInv'
  BY QueueInvStep DEF IInv
<1>3. QueueInv => PushNeverBlocks
  BY DEF QueueInv
<1> QED  BY <1>1, <1>2, <1>3, Inductive, PTL DEF Spec

\* Used as Manager.Start and Close use it, the notifier LISTENs to the topics of the
\* manager's subscriptions whenever it waits on a sound connection, also after it
\* reconnected, and however handlers come and go.
THEOREM Kept == ManagerSpec => []ListenedWhileKept
<1>1. Init => IInv /\ KeeperInv
  BY Initially
<1>2. IInv /\ [Next /\ ManagerOrder]_vars => IInv'
  <2>1. [Next /\ ManagerOrder]_vars => [Next]_vars
    OBVIOUS
  <2> QED  BY <2>1, TypeStep, MainInvStep, ClientInvStep DEF IInv
<1>3. IInv /\ KeeperInv /\ [Next /\ ManagerOrder]_vars => KeeperInv'
  BY KeeperInvStep DEF IInv
<1>4. KeeperInv => ListenedWhileKept
  BY DEF KeeperInv, ListenedWhileKept, Stays, InLoop
<1> QED  BY <1>1, <1>2, <1>3, <1>4, PTL DEF ManagerSpec
===============================================================================
