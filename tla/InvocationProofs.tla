--------------------------- MODULE InvocationProofs ---------------------------
(***************************************************************************)
(* Proofs about Invocation for every number of actors, workers, callers,   *)
(* rows and faults.  IInv strengthens TypeOK, TakenOnce and                *)
(* ResponsesAreTrue with what the handlers hold; it is inductive, and most *)
(* theorems follow from it.  More invariants rest on it: OnceInv and       *)
(* HeardInv, that a response is under way once and to whom; PlaceInv and   *)
(* MissedInv, that a responseCh that overflowed holds final results of     *)
(* others; and WakeInv, that wake-ups are not fewer than the work they     *)
(* announce but for one a fault.  A "Writers" lemma says which actions     *)
(* write a group of variables, so that the step lemmas need one step for   *)
(* each of those and one for all the others.                               *)
(***************************************************************************)
EXTENDS Invocation, SequenceTheorems, FiniteSetTheorems, TLAPS

USE DEF tableVars, workerVars, callerVars, dispatchVars

-------------------------------------------------------------------------------
(* The inductive invariant *)

\* Ids are handed out in order, every row has a queue, and TakenOnce.
TableInv ==
    /\ \A i \in Ids : rows[i].state # "absent" <=> i < nextId
    /\ \A i \in Ids : rows[i].state # "absent" => rows[i].queue \in Actors
    /\ TakenOnce

\* What a caller's handler holds is there, and what it was told is true.
CallerOk(c) ==
    /\ cpc[c] \in {"announce", "wait", "read"} => cid[c] \in Ids
    /\ cpc[c] = "announce" => rows[cid[c]].state # "absent"
    /\ cpc[c] # "done" => answer[c].state = "absent"
    /\ cpc[c] = "read" /\ answer[c].via = "match" => rows[cid[c]].state \in Final
    /\ cpc[c] = "done" /\ answer[c].via = "match" => answer[c].state \in Final
    /\ answer[c].state \in Final =>
           cid[c] \in Ids /\ rows[cid[c]].state = answer[c].state

CallerInv == \A c \in Callers : CallerOk(c)

\* A worker about to notify has committed the row it announces.
WorkerInv ==
    \A w \in Workers : wpc[w] = "notify" =>
        wid[w] \in Ids /\ rows[wid[w]].state \in Final

IInv == TypeOK /\ TableInv /\ CallerInv /\ WorkerInv /\ ResponsesAreTrue

\* What a step may never do to the table: a row keeps its queue, a final row its
\* state, and none disappears.
TableGrows ==
    \A i \in Ids :
        /\ rows[i].state # "absent" => rows'[i].state # "absent" /\ rows'[i].queue = rows[i].queue
        /\ rows[i].state \in Final => rows'[i].state = rows[i].state

-------------------------------------------------------------------------------
\* What a caller may be told, and the rows that the three statements write.
LEMMA AnswerIsTyped ==
    /\ Via("none") \in Answer /\ Via("match") \in Answer /\ Via("timeout") \in Answer
    /\ Via("direct") \in Answer /\ Via("failed") \in Answer
    /\ \A v \in {"direct", "failed"}, s \in {"absent", "available"} :
           [via |-> v, state |-> s] \in Answer
    /\ \A x \in Answer, r \in Row : [via |-> x.via, state |-> r.state] \in Answer
BY DEF Via, Answer, Row, RowStates, Final

\* The rows the queries write are rows: the insert, the take and the completion.
LEMMA RowIsTyped ==
    /\ \A a \in Actors : [state |-> "available", queue |-> a, attemptedBy |-> << >>] \in Row
    /\ \A r \in Row, o \in Final : [r EXCEPT !.state = o] \in Row
    /\ \A r \in Row, a \in Actors :
           [state |-> "running", queue |-> r.queue, attemptedBy |-> Append(r.attemptedBy, a)] \in Row
<1>1. \A a \in Actors : [state |-> "available", queue |-> a, attemptedBy |-> << >>] \in Row
  BY DEF Row, RowStates, Final
<1>2. \A r \in Row, o \in Final : [r EXCEPT !.state = o] \in Row
  BY DEF Row, RowStates, Final
<1>3. ASSUME NEW r \in Row, NEW a \in Actors
      PROVE  [state |-> "running", queue |-> r.queue, attemptedBy |-> Append(r.attemptedBy, a)] \in Row
  <2>1. r.queue \in Actors \cup {NoActor} /\ r.attemptedBy \in Seq(Actors)
    BY DEF Row
  <2>2. Append(r.attemptedBy, a) \in Seq(Actors)
    BY <2>1
  <2> QED  BY <2>1, <2>2 DEF Row, RowStates, Final
<1> QED  BY <1>1, <1>2, <1>3

\* The messages, apart.
LEMMA MessageIsTyped ==
    /\ \A a \in Actors : Invoke(a) \in Messages
    /\ \A i \in Ids : Response(i) \in Messages
    /\ \A m \in Messages : m.topic = "invoke" => m.queue \in Actors
    /\ \A m \in Messages : m.topic = "response" => m.id \in Ids
BY DEF Messages, Invoke, Response

\* No step, of a handler, the notifier or a fault, breaks the types.
LEMMA TypeStep == IInv /\ [Next]_vars => TypeOK'
<1> SUFFICES ASSUME TypeOK, TableInv, CallerInv, WorkerInv, [Next]_vars PROVE TypeOK'
  BY DEF IInv
<1> USE BoundsAssumption, AnswerIsTyped, MessageIsTyped
<1> DEFINE Held == /\ \A c \in Callers : cpc[c] \in {"announce", "wait", "read"} => cid[c] \in Ids
                   /\ \A c \in Callers : cpc[c] = "announce" => rows[cid[c]].queue \in Actors
                   /\ \A w \in Workers : wpc[w] = "notify" => wid[w] \in Ids
                   /\ \A w \in Workers : ActorOf[w] \in Actors
                   /\ NoId \notin Ids
<1>0. Held
  <2>1. \A c \in Callers : cpc[c] \in {"announce", "wait", "read"} => cid[c] \in Ids
    BY DEF CallerInv, CallerOk
  <2>2. \A c \in Callers : cpc[c] = "announce" => rows[cid[c]].queue \in Actors
    BY <2>1 DEF CallerInv, CallerOk, TableInv
  <2>3. \A w \in Workers : wpc[w] = "notify" => wid[w] \in Ids
    BY DEF WorkerInv
  <2>4. NoId \notin Ids
    BY DEF NoId, Ids
  <2> QED  BY <2>1, <2>2, <2>3, <2>4, ActorOfAssumption
<1> HIDE DEF Held
<1>s. ASSUME NEW c \in Callers, Subscribe(c)
      PROVE  subs' \subseteq Callers /\ faults' \in 0 .. MaxFaults
  BY <1>s DEF TypeOK, Subscribe, Fault
<1>1. ASSUME NEW c \in Callers, BeginSync(c) PROVE TypeOK'
  <2>1. subs' \subseteq Callers /\ faults' \in 0 .. MaxFaults
    BY <1>1, <1>s DEF BeginSync
  <2> QED  BY <1>1, <2>1 DEF TypeOK, BeginSync, CallerPC
<1>2. ASSUME NEW c \in Callers, BeginAsync(c) PROVE TypeOK'
  BY <1>2 DEF TypeOK, BeginAsync, CallerPC
<1>3. ASSUME NEW c \in Callers, NEW i \in Ids, BeginGet(c, i) PROVE TypeOK'
  <2>1. /\ kind' \in [Callers -> {"none", "sync", "async", "get"}]
        /\ cid' \in [Callers -> Ids \cup {NoId}]
    BY <1>3 DEF TypeOK, BeginGet
  <2>2. cpc' \in [Callers -> CallerPC] /\ subs' \subseteq Callers /\ faults' \in 0 .. MaxFaults
    BY <1>3, <1>s DEF TypeOK, BeginGet, CallerPC
  <2>3. answer' \in [Callers -> Answer]
    BY <1>3 DEF TypeOK, BeginGet
  <2>4. UNCHANGED <<tableVars, stream, dispatchVars, workerVars, inbox, missed>>
    BY <1>3 DEF BeginGet
  <2> QED  BY <2>1, <2>2, <2>3, <2>4 DEF TypeOK
<1>4. ASSUME NEW c \in Callers, NEW a \in Actors, Insert(c, a) PROVE TypeOK'
  <2>1. rows' \in [Ids -> Row]
    BY <1>4, RowIsTyped DEF TypeOK, Insert
  <2>2. nextId' \in 1 .. MaxInvocations + 1
    BY <1>4 DEF TypeOK, Insert, Ids
  <2>3. cid' \in [Callers -> Ids \cup {NoId}] /\ cpc' \in [Callers -> CallerPC]
    BY <1>4 DEF TypeOK, Insert, Finished, CallerPC
  <2>4. answer' \in [Callers -> Answer] /\ subs' \subseteq Callers /\ faults' \in 0 .. MaxFaults
    <3>1. CASE UNCHANGED <<subs, answer, faults>>
      BY <3>1 DEF TypeOK
    <3>2. CASE Fault("dberror") /\ Finished(c, "failed", "absent")
      BY <3>2 DEF TypeOK, Finished, Fault
    <3> QED  BY <1>4, <3>1, <3>2 DEF Insert
  <2>5. UNCHANGED <<stream, dispatchVars, workerVars, kind, inbox, missed>>
    BY <1>4 DEF Insert
  <2> QED  BY <2>1, <2>2, <2>3, <2>4, <2>5 DEF TypeOK
<1>5. ASSUME NEW c \in Callers, NEW v \in {"direct", "failed"}, NEW s \in {"absent", "available"},
             Finished(c, v, s),
             UNCHANGED <<tableVars, dispatchVars, workerVars, kind, cid, inbox, missed>>,
             stream' \in Seq(Messages), faults' \in 0 .. MaxFaults
      PROVE  TypeOK'
  <2>1. answer' \in [Callers -> Answer]
    BY <1>5 DEF TypeOK, Finished
  <2>2. cpc' \in [Callers -> CallerPC] /\ subs' \subseteq Callers
    BY <1>5 DEF TypeOK, Finished, CallerPC
  <2> QED  BY <1>5, <2>1, <2>2 DEF TypeOK
<1>6. ASSUME NEW c \in Callers, AfterAnnounce(c),
             stream' \in Seq(Messages), faults' \in 0 .. MaxFaults
      PROVE  TypeOK'
  <2>1. CASE Finished(c, "direct", "available")
    BY <1>6, <2>1, <1>5 DEF AfterAnnounce
  <2>2. CASE cpc' = [cpc EXCEPT ![c] = "wait"] /\ UNCHANGED <<subs, answer>>
    BY <1>6, <2>2 DEF TypeOK, AfterAnnounce, CallerPC
  <2> QED  BY <1>6, <2>1, <2>2 DEF AfterAnnounce
<1>7. /\ stream \in Seq(Messages) /\ faults \in 0 .. MaxFaults
      /\ \A f \in AllFaults : Fault(f) => faults' \in 0 .. MaxFaults
  BY DEF TypeOK, Fault
<1>8. ASSUME NEW c \in Callers, InsertRejected(c) PROVE TypeOK'
  BY <1>8, <1>5, <1>7 DEF InsertRejected
<1>9. ASSUME NEW c \in Callers, Announce(c) PROVE TypeOK'
  <2>1. stream' \in Seq(Messages)
    BY <1>9, <1>0, <1>7 DEF Announce, Sent, Held
  <2> QED  BY <1>9, <2>1, <1>6, <1>7 DEF Announce
<1>10. ASSUME NEW c \in Callers, AnnounceFails(c) PROVE TypeOK'
  BY <1>10, <1>6, <1>7 DEF AnnounceFails, AllFaults
<1>11. ASSUME NEW c \in Callers, TakeResponse(c) PROVE TypeOK'
  <2>1. inbox[c] \in Seq(Ids) /\ inbox[c] # << >>
    BY <1>11 DEF TypeOK, TakeResponse
  <2>2. Tail(inbox[c]) \in Seq(Ids)
    BY <2>1
  <2>3. inbox' \in [Callers -> Seq(Ids)]
    BY <1>11, <2>2 DEF TypeOK, TakeResponse
  <2>4. answer' \in [Callers -> Answer]
    BY <1>11 DEF TypeOK, TakeResponse
  <2>5. cpc' \in [Callers -> CallerPC]
    BY <1>11 DEF TypeOK, TakeResponse, CallerPC
  <2>6. UNCHANGED <<tableVars, stream, dispatchVars, workerVars, kind, cid, subs, missed, faults>>
    BY <1>11 DEF TakeResponse
  <2> QED  BY <2>3, <2>4, <2>5, <2>6 DEF TypeOK
<1>12. ASSUME NEW c \in Callers, WaitExpires(c) PROVE TypeOK'
  <2>1. answer' \in [Callers -> Answer] /\ cpc' \in [Callers -> CallerPC]
    BY <1>12 DEF TypeOK, WaitExpires, CallerPC
  <2> QED  BY <1>12, <2>1 DEF TypeOK, WaitExpires
<1>13. ASSUME NEW c \in Callers, ReadRow(c) PROVE TypeOK'
  <2>1. rows[cid[c]] \in Row /\ answer[c] \in Answer
    BY <1>13, <1>0 DEF TypeOK, ReadRow, Held
  <2>2. answer' \in [Callers -> Answer]
    <3>1. ASSUME NEW x \in Answer, answer' = [answer EXCEPT ![c] = x] PROVE answer' \in [Callers -> Answer]
      BY <3>1 DEF TypeOK
    <3>2. /\ [via |-> answer[c].via, state |-> rows[cid[c]].state] \in Answer
          /\ [via |-> "failed", state |-> "absent"] \in Answer
      BY <2>1
    <3> QED  BY <1>13, <3>1, <3>2 DEF ReadRow, Finished, Latest
  <2>3. cpc' \in [Callers -> CallerPC] /\ subs' \subseteq Callers
    BY <1>13 DEF TypeOK, ReadRow, Finished, CallerPC
  <2>4. UNCHANGED <<tableVars, stream, dispatchVars, workerVars, kind, cid, inbox, missed, faults>>
    BY <1>13 DEF ReadRow
  <2> QED  BY <2>2, <2>3, <2>4 DEF TypeOK
<1>14. ASSUME NEW c \in Callers, CallerFails(c) PROVE TypeOK'
  BY <1>14, <1>5, <1>7 DEF CallerFails, AllFaults
<1>15. ASSUME NEW w \in Workers, NEW pc \in WorkerPC, Goto(w, pc) 
       PROVE  wpc' \in [Workers -> WorkerPC] /\ gone' \subseteq Workers
  BY <1>15 DEF TypeOK, Goto
<1>16. {"idle", "poll", "lastPoll", "gap", "parked", "reply", "notify", AfterToken, AfterTimeout}
          \subseteq WorkerPC
  BY DEF WorkerPC, AfterToken, AfterTimeout
<1>17. ASSUME wpc' \in [Workers -> WorkerPC], gone' \subseteq Workers,
              wid' \in [Workers -> Ids \cup {NoId}], stream' \in Seq(Messages),
              faults' \in 0 .. MaxFaults, UNCHANGED <<tableVars, dispatchVars, callerVars>>
       PROVE  TypeOK'
  BY <1>17 DEF TypeOK
<1>18. wid \in [Workers -> Ids \cup {NoId}] /\ \A w \in Workers, i \in Ids \cup {NoId} :
           [wid EXCEPT ![w] = i] \in [Workers -> Ids \cup {NoId}]
  BY DEF TypeOK
<1>19. ASSUME NEW w \in Workers, BeginGetNext(w) PROVE TypeOK'
  <2>1. wpc' \in [Workers -> WorkerPC] /\ gone' \subseteq Workers
    BY <1>15, <1>16, <1>19 DEF BeginGetNext
  <2>2. channels' \subseteq Actors /\ channels \subseteq channels'
    BY <1>19, <1>0 DEF TypeOK, BeginGetNext, Listening, Held
  <2> QED  BY <1>19, <2>1, <2>2 DEF TypeOK, BeginGetNext
<1>20. ASSUME NEW w \in Workers, ClientGone(w) PROVE TypeOK'
  <2>1. wpc' \in [Workers -> WorkerPC] /\ gone' \subseteq Workers
    BY <1>20 DEF TypeOK, ClientGone
  <2> QED  BY <1>20, <2>1, <1>7, <1>17, <1>18 DEF ClientGone, AllFaults
<1>21. ASSUME NEW w \in Workers, NEW i \in Ids, NEW o \in Final, ReturnCommit(w, i, o) PROVE TypeOK'
  <2>1. rows' \in [Ids -> Row]
    BY <1>21, RowIsTyped DEF TypeOK, ReturnCommit, FinishedRow
  <2>2. wpc' \in [Workers -> WorkerPC] /\ gone' \subseteq Workers
    BY <1>15, <1>16, <1>21 DEF TypeOK, ReturnCommit
  <2>3. faults' \in 0 .. MaxFaults
    BY <1>7, <1>21 DEF ReturnCommit, AllFaults
  <2> QED  BY <1>18, <1>21, <2>1, <2>2, <2>3 DEF TypeOK, ReturnCommit
<1>22. ASSUME NEW w \in Workers, NEW i \in Ids, PollTakes(w, i) PROVE TypeOK'
  <2>1. rows' \in [Ids -> Row]
    BY <1>22, <1>0, RowIsTyped DEF TypeOK, PollTakes, Held
  <2>2. wpc' \in [Workers -> WorkerPC] /\ gone' \subseteq Workers
    BY <1>15, <1>16, <1>22 DEF PollTakes
  <2>3. faults' \in 0 .. MaxFaults
    <3>1. Fault("dberror") => faults' \in 0 .. MaxFaults
      BY <1>7 DEF AllFaults
    <3> QED  BY <1>7, <1>22, <3>1 DEF PollTakes
  <2>4. wid' \in [Workers -> Ids \cup {NoId}]
    BY <1>22 DEF TypeOK, PollTakes
  <2>5. UNCHANGED <<nextId, stream, tokens, channels, callerVars>>
    BY <1>22 DEF PollTakes, dispatchVars
  <2> QED  BY <1>18, <2>1, <2>2, <2>3, <2>4, <2>5 DEF TypeOK
<1>23. ASSUME NEW w \in Workers, PollFindsNone(w) PROVE TypeOK'
  <2>1. wpc' \in [Workers -> WorkerPC] /\ gone' \subseteq Workers
    BY <1>15, <1>16, <1>23 DEF PollFindsNone
  <2> QED  BY <1>7, <1>17, <1>18, <1>23, <2>1 DEF PollFindsNone
<1>24. ASSUME NEW w \in Workers, PollCancelled(w) PROVE TypeOK'
  <2>1. wpc' \in [Workers -> WorkerPC] /\ gone' \subseteq Workers
    BY <1>15, <1>16, <1>24 DEF PollCancelled
  <2> QED  BY <1>7, <1>17, <1>18, <1>24, <2>1 DEF PollCancelled
<1>25. ASSUME NEW w \in Workers, PollFails(w) PROVE TypeOK'
  <2>1. wpc' \in [Workers -> WorkerPC] /\ gone' \subseteq Workers
    BY <1>15, <1>16, <1>25 DEF PollFails
  <2> QED  BY <1>7, <1>17, <1>18, <1>25, <2>1 DEF PollFails, AllFaults
<1>26. ASSUME NEW w \in Workers, WaitFor(w) PROVE TypeOK'
  <2> DEFINE a == ActorOf[w]
  <2>1. a \in Actors
    BY <1>0 DEF Held
  <2>2. tokens \in [Actors -> 0 .. DispatchBuffer]
    BY DEF TypeOK
  <2>3. tokens' = tokens \/ (tokens[a] > 0 /\ tokens' = [tokens EXCEPT ![a] = @ - 1])
    BY <1>26 DEF WaitFor
  <2>4. tokens' \in [Actors -> 0 .. DispatchBuffer] /\ \A b \in Actors : tokens'[b] <= tokens[b]
    BY <2>1, <2>2, <2>3
  <2>5. \A b \in Actors : tokens'[b] > 0 => b \in channels
    BY <2>2, <2>4 DEF TypeOK
  <2>6. wpc' \in [Workers -> WorkerPC] /\ gone' \subseteq Workers
    BY <1>15, <1>16, <1>26 DEF WaitFor
  <2> QED  BY <1>26, <2>4, <2>5, <2>6 DEF TypeOK, WaitFor
<1>27. ASSUME NEW w \in Workers, WaitForExpires(w) PROVE TypeOK'
  <2>1. wpc' \in [Workers -> WorkerPC] /\ gone' \subseteq Workers
    BY <1>15, <1>16, <1>27 DEF WaitForExpires
  <2> QED  BY <1>7, <1>17, <1>18, <1>27, <2>1 DEF WaitForExpires
<1>28. ASSUME NEW w \in Workers, Reply(w) PROVE TypeOK'
  <2>1. wpc' \in [Workers -> WorkerPC] /\ gone' \subseteq Workers
    BY <1>15, <1>16, <1>28 DEF Reply
  <2> QED  BY <1>7, <1>17, <1>18, <1>28, <2>1 DEF Reply
<1>29. ASSUME NEW w \in Workers, ReturnNotify(w) PROVE TypeOK'
  <2>1. wpc' \in [Workers -> WorkerPC] /\ gone' \subseteq Workers
    BY <1>15, <1>16, <1>29 DEF ReturnNotify
  <2>2. stream' \in Seq(Messages)
    BY <1>0, <1>7, <1>29 DEF ReturnNotify, Sent, Held
  <2> QED  BY <1>7, <1>17, <1>18, <1>29, <2>1, <2>2 DEF ReturnNotify
<1>30. ASSUME NEW w \in Workers, ReturnNotifyFails(w) PROVE TypeOK'
  <2>1. wpc' \in [Workers -> WorkerPC] /\ gone' \subseteq Workers
    BY <1>15, <1>16, <1>30 DEF ReturnNotifyFails
  <2> QED  BY <1>7, <1>17, <1>18, <1>30, <2>1 DEF ReturnNotifyFails, AllFaults
<1>31. stream # << >> => Tail(stream) \in Seq(Messages) /\ Head(stream) \in Messages
  BY <1>7
<1>32. CASE DeliverInvoke
  <2> DEFINE a == Head(stream).queue
  <2>1. stream' \in Seq(Messages) /\ a \in Actors
    BY <1>31, <1>32 DEF DeliverInvoke
  <2>2. tokens' = tokens \/ (HasRoom(a) /\ tokens' = [tokens EXCEPT ![a] = @ + 1])
    BY <1>32 DEF DeliverInvoke, Dispatch
  <2>3. wpc' = wpc \/ \E w \in Workers : wpc' = [wpc EXCEPT ![w] = AfterToken]
    BY <1>32 DEF DeliverInvoke, Dispatch, Parked
  <2>4. UNCHANGED <<tableVars, channels, wid, gone, callerVars, faults>>
    BY <1>32 DEF DeliverInvoke
  <2>5. tokens \in [Actors -> 0 .. DispatchBuffer] /\ \A b \in Actors : tokens[b] > 0
            => b \in channels
    BY DEF TypeOK
  <2>6. tokens' \in [Actors -> 0 .. DispatchBuffer]
    BY <2>1, <2>2, <2>5 DEF HasRoom
  <2>7. \A b \in Actors : tokens'[b] > 0 => b \in channels
    BY <2>1, <2>2, <2>5 DEF HasRoom
  <2>8. wpc' \in [Workers -> WorkerPC]
    BY <1>16, <2>3 DEF TypeOK
  <2> QED  BY <2>1, <2>4, <2>6, <2>7, <2>8 DEF TypeOK
<1>33. CASE DeliverResponse
  <2>1. stream' \in Seq(Messages) /\ Head(stream).id \in Ids
    BY <1>31, <1>33 DEF DeliverResponse
  <2>2. inbox \in [Callers -> Seq(Ids)]
    BY DEF TypeOK
  <2>3. \A c \in Callers : Append(inbox[c], Head(stream).id) \in Seq(Ids) /\ inbox[c] \in Seq(Ids)
    BY <2>1, <2>2
  <2>4. inbox' = [c \in Callers |-> IF Accepts(c) THEN Append(inbox[c], Head(stream).id) ELSE inbox[c]]
    BY <1>33 DEF DeliverResponse
  <2>5. inbox' \in [Callers -> Seq(Ids)]
    BY <2>3, <2>4
  <2>6. UNCHANGED <<tableVars, dispatchVars, workerVars, cpc, kind, cid, subs, answer, faults>>
    BY <1>33 DEF DeliverResponse
  <2>7. missed' \subseteq Callers
    BY <1>33 DEF TypeOK, DeliverResponse
  <2> QED  BY <2>1, <2>5, <2>6, <2>7 DEF TypeOK
<1>34. CASE LoseNotification
  BY <1>7, <1>31, <1>34 DEF TypeOK, LoseNotification, AllFaults
<1>35. CASE Crash
  <2>1. answer' \in [Callers -> Answer] /\ cpc' \in [Callers -> CallerPC]
    BY <1>35 DEF TypeOK, Crash, CallerPC
  <2>2. inbox' \in [Callers -> Seq(Ids)] /\ stream' \in Seq(Messages)
    BY <1>35 DEF Crash
  <2>3. wpc' \in [Workers -> WorkerPC] /\ wid' \in [Workers -> Ids \cup {NoId}]
            /\ gone' \subseteq Workers
    BY <1>16, <1>35 DEF Crash
  <2>4. tokens' \in [Actors -> 0 .. DispatchBuffer] /\ channels' \subseteq Actors
        /\ \A a \in Actors : ~(tokens'[a] > 0)
    BY <1>35 DEF Crash
  <2>5. faults' \in 0 .. MaxFaults /\ subs' \subseteq Callers
        /\ UNCHANGED <<tableVars, kind, cid, missed>>
    BY <1>7, <1>35 DEF Crash, AllFaults
  <2> QED  BY <2>1, <2>2, <2>3, <2>4, <2>5 DEF TypeOK
<1>36. CASE UNCHANGED vars
  BY <1>36 DEF TypeOK, vars
<1> QED
  BY <1>1, <1>2, <1>3, <1>4, <1>8, <1>9, <1>10, <1>11, <1>12, <1>13, <1>14, <1>19, <1>20, <1>21,
     <1>22, <1>23, <1>24, <1>25, <1>26, <1>27, <1>28, <1>29, <1>30, <1>32, <1>33, <1>34, <1>35,
     <1>36
  DEF Next, CallerBegins, CallerStep, WorkerBegins, WorkerStep, Delivery

\* Only three statements write the table.
LEMMA TableWriters ==
    ASSUME [Next]_vars
    PROVE  \/ UNCHANGED tableVars
           \/ \E c \in Callers, a \in Actors : Insert(c, a)
           \/ \E w \in Workers, i \in Ids : PollTakes(w, i)
           \/ \E w \in Workers, i \in Ids, o \in Final : ReturnCommit(w, i, o)
BY DEF Next, CallerBegins, CallerStep, WorkerBegins, WorkerStep, Delivery, vars,
      BeginSync, BeginAsync, BeginGet, InsertRejected, Announce, AnnounceFails, AfterAnnounce,
      TakeResponse, WaitExpires, ReadRow, CallerFails, BeginGetNext, ClientGone, PollFindsNone,
      PollCancelled, PollFails, WaitFor, WaitForExpires, Reply, ReturnNotify, ReturnNotifyFails,
      DeliverInvoke, DeliverResponse, LoseNotification, Crash

\* InvocationInsert, InvocationGetAvailable and InvocationSet*IfRunning keep the
\* table in order: ids dense, queues fixed, one taker, final states final.
LEMMA TableStep == IInv /\ [Next]_vars => TableInv' /\ TableGrows
<1> SUFFICES ASSUME TypeOK, TableInv, [Next]_vars PROVE TableInv' /\ TableGrows
  BY DEF IInv
<1> USE ActorOfAssumption, NoActorAssumption, BoundsAssumption
    DEF TypeOK, TableInv, TableGrows, TakenOnce, Ids, Final, RowStates, Row
<1>1. CASE UNCHANGED tableVars
  BY <1>1
<1>2. ASSUME NEW c \in Callers, NEW a \in Actors, Insert(c, a) PROVE TableInv' /\ TableGrows
  <2> DEFINE row == [state |-> "available", queue |-> a, attemptedBy |-> << >>]
  <2>1. nextId \in Ids /\ rows' = [rows EXCEPT ![nextId] = row] /\ nextId' = nextId + 1
    BY <1>2 DEF Insert
  <2>2. rows[nextId].state = "absent"
    BY <2>1
  <2>3. row.state = "available" /\ row.queue \in Actors /\ row.attemptedBy = << >>
    OBVIOUS
  <2> HIDE DEF row
  <2>4. \A j \in Ids : rows'[j] = IF j = nextId THEN row ELSE rows[j]
    BY <2>1
  <2>5. \A j \in Ids : j < nextId' <=> j < nextId \/ j = nextId
    BY <2>1
  <2> HIDE DEF TypeOK, Ids, Row
  <2>6. TakenOnce'
    BY <2>3, <2>4
  <2>7. TableGrows
    BY <2>2, <2>4
  <2>8. \A j \in Ids : (rows'[j].state # "absent" <=> j < nextId')
                        /\ (rows'[j].state # "absent" => rows'[j].queue \in Actors)
    BY <2>3, <2>4, <2>5
  <2> HIDE DEF TakenOnce, TableGrows
  <2> QED  BY <2>6, <2>7, <2>8
<1>3. ASSUME NEW w \in Workers, NEW i \in Ids, PollTakes(w, i) PROVE TableInv' /\ TableGrows
  <2> DEFINE row == [state |-> "running", queue |-> rows[i].queue,
                     attemptedBy |-> Append(rows[i].attemptedBy, ActorOf[w])]
  <2>1. rows[i].state = "available" /\ rows[i].queue = ActorOf[w] /\ rows[i].attemptedBy = << >>
    BY <1>3 DEF PollTakes, Oldest, Available
  <2>2. row = [state |-> "running", queue |-> ActorOf[w], attemptedBy |-> <<ActorOf[w]>>]
    BY <2>1
  <2>3. rows' = [rows EXCEPT ![i] = row] /\ nextId' = nextId
    BY <1>3 DEF PollTakes
  <2>4. rows'[i] = row /\ \A j \in Ids \ {i} : rows'[j] = rows[j]
    BY <2>3
  <2>5. /\ row.state = "running" /\ row.queue = rows[i].queue
        /\ row.attemptedBy = <<row.queue>> /\ row.queue \in Actors
    BY <2>1, <2>2
  <2> HIDE DEF row
  <2>6. \A j \in Ids : rows'[j] = IF j = i THEN row ELSE rows[j]
    BY <2>4
  <2> HIDE DEF TypeOK, Ids, Row
  <2>7. TakenOnce'
    BY <2>5, <2>6
  <2>8. \A j \in Ids : (rows'[j].state # "absent" <=> rows[j].state # "absent")
                        /\ rows'[j].queue = rows[j].queue
    BY <2>1, <2>5, <2>6
  <2>9. \A j \in Ids : rows[j].state \in Final => rows'[j].state = rows[j].state
    BY <2>1, <2>6
  <2> HIDE DEF row, TakenOnce
  <2> QED  BY <2>3, <2>7, <2>8, <2>9
<1>4. ASSUME NEW w \in Workers, NEW i \in Ids, NEW o \in Final, ReturnCommit(w, i, o)
      PROVE TableInv' /\ TableGrows
  BY <1>4 DEF ReturnCommit, MayFinish, FinishedRow
<1> HIDE DEF TypeOK, TableInv, TableGrows
<1> QED  BY <1>1, <1>2, <1>3, <1>4, TableWriters

\* Who writes the notification stream and the callers' responseChs.
LEMMA MessageWriters ==
    ASSUME [Next]_vars
    PROVE  \/ UNCHANGED <<stream, inbox>>
           \/ \E c \in Callers : Announce(c) \/ TakeResponse(c)
           \/ \E w \in Workers : ReturnNotify(w)
           \/ DeliverInvoke \/ DeliverResponse \/ LoseNotification \/ Crash
BY DEF Next, CallerBegins, CallerStep, WorkerBegins, WorkerStep, Delivery, vars, BeginSync,
   BeginAsync, BeginGet, Insert, InsertRejected, AnnounceFails, AfterAnnounce, WaitExpires,
   ReadRow, CallerFails, BeginGetNext, ClientGone, ReturnCommit, PollTakes, PollFindsNone,
   PollCancelled, PollFails, WaitFor, WaitForExpires, Reply, ReturnNotifyFails

\* A response is sent only after its row is final, and rows stay final, so every
\* response in the stream or in a responseCh stays true.
LEMMA ResponsesStep == IInv /\ [Next]_vars => ResponsesAreTrue'
<1> SUFFICES ASSUME IInv, [Next]_vars PROVE ResponsesAreTrue'
  OBVIOUS
<1> DEFINE Good(s) == \A k \in 1 .. Len(s) :
                          s[k].topic = "response" => rows'[s[k].id].state \in Final
           GoodIds(s) == \A k \in 1 .. Len(s) : rows'[s[k]].state \in Final
<1>1. stream \in Seq(Messages) /\ \A c \in Callers : inbox[c] \in Seq(Ids)
  BY DEF IInv, TypeOK
<1>2. Good(stream) /\ \A c \in Callers : GoodIds(inbox[c])
  <2>1. TableGrows
    BY TableStep
  <2>2. \A x \in Messages : x.topic = "response" => x.id \in Ids
    BY DEF Messages, Invoke, Response
  <2>3. \A k \in 1 .. Len(stream) : stream[k] \in Messages
    BY <1>1
  <2>4. \A c \in Callers : \A k \in 1 .. Len(inbox[c]) : inbox[c][k] \in Ids
    BY <1>1
  <2>5. Good(stream)
    BY <2>1, <2>2, <2>3 DEF IInv, ResponsesAreTrue, TableGrows
  <2>6. \A c \in Callers : GoodIds(inbox[c])
    BY <2>1, <2>4 DEF IInv, ResponsesAreTrue, TableGrows
  <2> QED  BY <2>5, <2>6
<1>3. ASSUME Good(stream'), \A c \in Callers : GoodIds(inbox'[c]) PROVE ResponsesAreTrue'
  BY <1>3 DEF ResponsesAreTrue
<1>4. stream # << >> => Good(Tail(stream)) /\ Head(stream) \in Messages
                        /\ (Head(stream).topic = "response" => rows'[Head(stream).id].state \in Final)
  BY <1>1, <1>2, HeadTailProperties
<1> HIDE DEF GoodIds
<1>5. CASE UNCHANGED <<stream, inbox>>
  BY <1>2, <1>3, <1>5
<1>6. ASSUME NEW c \in Callers, Announce(c) PROVE ResponsesAreTrue'
  <2>1. rows[cid[c]].queue \in Actors
    BY <1>6 DEF IInv, CallerInv, CallerOk, TableInv, Announce
  <2>2. Good(stream')
    BY <1>1, <1>2, <1>6, <2>1 DEF Announce, Sent, Invoke, Messages
  <2> QED  BY <1>2, <1>3, <1>6, <2>2 DEF Announce, AfterAnnounce
<1>7. ASSUME NEW c \in Callers, TakeResponse(c) PROVE ResponsesAreTrue'
  <2>1. GoodIds(Tail(inbox[c]))
    BY <1>1, <1>2, <1>7, HeadTailProperties DEF TakeResponse, GoodIds
  <2>2. \A d \in Callers : GoodIds(inbox'[d])
    BY <1>2, <1>7, <2>1 DEF TakeResponse, IInv, TypeOK
  <2> QED  BY <1>2, <1>3, <1>7, <2>2 DEF TakeResponse
<1>8. ASSUME NEW w \in Workers, ReturnNotify(w) PROVE ResponsesAreTrue'
  <2>1. wid[w] \in Ids /\ rows'[wid[w]].state \in Final
    BY <1>8, TableStep DEF IInv, WorkerInv, TableGrows, ReturnNotify
  <2>2. Good(stream')
    BY <1>1, <1>2, <1>8, <2>1 DEF ReturnNotify, Sent, Response, Messages
  <2> QED  BY <1>2, <1>3, <1>8, <2>2 DEF ReturnNotify
<1>9. CASE DeliverInvoke
  BY <1>2, <1>3, <1>4, <1>9 DEF DeliverInvoke
<1>10. CASE DeliverResponse
  <2>1. \A c \in Callers : GoodIds(Append(inbox[c], Head(stream).id))
    BY <1>1, <1>2, <1>4, <1>10 DEF DeliverResponse, GoodIds, Messages, Response, Invoke
  <2>2. \A c \in Callers : GoodIds(inbox'[c])
    BY <1>2, <1>10, <2>1 DEF DeliverResponse
  <2>3. Good(stream')
    BY <1>4, <1>10 DEF DeliverResponse
  <2> QED  BY <1>3, <2>2, <2>3
<1>11. CASE LoseNotification
  BY <1>2, <1>3, <1>4, <1>11 DEF LoseNotification
<1>12. CASE Crash
  BY <1>12 DEF Crash, ResponsesAreTrue
<1> QED
  BY <1>5, <1>6, <1>7, <1>8, <1>9, <1>10, <1>11, <1>12, MessageWriters

\* Who writes what a caller's handler holds.
LEMMA CallerWriters ==
    ASSUME [Next]_vars
    PROVE  \/ UNCHANGED <<cpc, cid, answer>>
           \/ \E c \in Callers : CallerBegins(c) \/ CallerStep(c)
           \/ Crash
BY DEF Next, WorkerBegins, WorkerStep, Delivery, vars, BeginGetNext, ClientGone, ReturnCommit,
   PollTakes, PollFindsNone, PollCancelled, PollFails, WaitFor, WaitForExpires, Reply,
   ReturnNotify, ReturnNotifyFails, DeliverInvoke, DeliverResponse, LoseNotification

\* What the callers' handlers hold stays right under every step.
LEMMA CallerInvStep == IInv /\ [Next]_vars => CallerInv'
<1> SUFFICES ASSUME IInv, [Next]_vars PROVE CallerInv'
  OBVIOUS
<1> DEFINE Same(c) == cpc'[c] = cpc[c] /\ cid'[c] = cid[c] /\ answer'[c] = answer[c]
           Alone(c) == \A d \in Callers \ {c} : Same(d)
<1>1. TableGrows /\ TypeOK /\ CallerInv /\ ResponsesAreTrue /\ TableInv
  BY TableStep DEF IInv
<1>t. /\ cpc \in [Callers -> CallerPC] /\ cid \in [Callers -> Ids \cup {NoId}]
      /\ answer \in [Callers -> Answer] /\ inbox \in [Callers -> Seq(Ids)]
  BY <1>1 DEF TypeOK
<1>n. "absent" \notin Final /\ "available" \notin Final
  BY DEF Final
<1>2. ASSUME NEW c \in Callers, Same(c) PROVE CallerOk(c)'
  <2>1. CallerOk(c)
    BY <1>1 DEF CallerInv
  <2> QED  BY <1>1, <1>2, <2>1 DEF CallerOk, TableGrows
<1>3. ASSUME NEW c \in Callers, Alone(c), CallerOk(c)' PROVE CallerInv'
  BY <1>2, <1>3 DEF CallerInv
<1>4. ASSUME \A c \in Callers : Same(c) PROVE CallerInv'
  BY <1>2, <1>4 DEF CallerInv
<1>5. ASSUME NEW c \in Callers PROVE CallerOk(c)
  BY <1>1 DEF CallerInv
<1>6. CASE UNCHANGED <<cpc, cid, answer>>
  BY <1>4, <1>6
<1>7. ASSUME NEW c \in Callers, BeginSync(c) \/ BeginAsync(c) PROVE CallerInv'
  <2>1. cpc[c] = "idle" /\ cpc'[c] = "insert" /\ cid' = cid /\ answer' = answer /\ Alone(c)
    BY <1>7, <1>t DEF BeginSync, BeginAsync
  <2>2. CallerOk(c)'
    BY <1>5, <1>1, <1>n, <2>1 DEF CallerOk
  <2> QED  BY <1>3, <2>1, <2>2
<1>8. ASSUME NEW c \in Callers, NEW i \in Ids, BeginGet(c, i) PROVE CallerInv'
  <2>1. cpc[c] = "idle" /\ cid'[c] = i /\ Alone(c)
    BY <1>8, <1>t DEF BeginGet
  <2>2. \/ cpc'[c] = "wait" /\ answer' = answer
        \/ cpc'[c] = "read" /\ answer'[c] = Via("direct")
    BY <1>8, <1>t DEF BeginGet
  <2>3. CallerOk(c)'
    BY <1>5, <1>n, <2>1, <2>2 DEF CallerOk, Via
  <2> QED  BY <1>3, <2>1, <2>3
<1>9. ASSUME NEW c \in Callers, NEW a \in Actors, Insert(c, a) PROVE CallerInv'
  <2>1. /\ cpc[c] = "insert" /\ nextId \in Ids /\ cid'[c] = nextId /\ Alone(c)
        /\ \/ cpc'[c] = "announce" /\ answer' = answer
           \/ cpc'[c] = "done" /\ answer'[c] = [via |-> "failed", state |-> "absent"]
    BY <1>9, <1>t DEF Insert, Finished
  <2>2. rows'[nextId].state = "available"
    BY <1>1, <1>9, <2>1 DEF Insert, TypeOK
  <2>3. CallerOk(c)'
    BY <1>5, <1>n, <2>1, <2>2 DEF CallerOk
  <2> QED  BY <1>3, <2>1, <2>3
<1>10. ASSUME NEW c \in Callers, NEW v \in {"direct", "failed"}, NEW x \in {"absent", "available"},
              Finished(c, v, x), cid' = cid
       PROVE  CallerInv'
  <2>1. cpc'[c] = "done" /\ answer'[c] = [via |-> v, state |-> x] /\ Alone(c)
    BY <1>10, <1>t DEF Finished
  <2>2. CallerOk(c)'
    BY <1>n, <2>1 DEF CallerOk
  <2> QED  BY <1>3, <2>1, <2>2
<1>11. ASSUME NEW c \in Callers, AfterAnnounce(c), cpc[c] = "announce" PROVE CallerInv'
  <2>1. CASE Finished(c, "direct", "available")
    BY <1>10, <1>11, <2>1 DEF AfterAnnounce
  <2>2. CASE cpc' = [cpc EXCEPT ![c] = "wait"] /\ UNCHANGED <<subs, answer>>
    <3>1. cpc'[c] = "wait" /\ cid' = cid /\ answer' = answer /\ Alone(c)
      BY <1>11, <1>t, <2>2 DEF AfterAnnounce
    <3>2. CallerOk(c)'
      BY <1>5, <1>11, <1>n, <3>1 DEF CallerOk
    <3> QED  BY <1>3, <3>1, <3>2
  <2> QED  BY <1>11, <2>1, <2>2 DEF AfterAnnounce
<1>12. ASSUME NEW c \in Callers, TakeResponse(c) PROVE CallerInv'
  <2>1. /\ inbox[c] \in Seq(Ids) /\ inbox[c] # << >> /\ rows' = rows /\ cid' = cid
        /\ cpc[c] = "wait"
    BY <1>12, <1>t DEF TakeResponse
  <2>2. Head(inbox[c]) = inbox[c][1] /\ 1 \in 1 .. Len(inbox[c])
    BY <2>1
  <2>3. CASE IsMine(c)
    <3>1. cpc'[c] = "read" /\ answer'[c] = Via("match") /\ Alone(c)
      BY <1>12, <1>t, <2>1, <2>3 DEF TakeResponse
    <3>2. rows[cid[c]].state \in Final
      BY <1>1, <2>2, <2>3 DEF IsMine, ResponsesAreTrue
    <3>3. CallerOk(c)'
      BY <1>5, <1>n, <2>1, <3>1, <3>2 DEF CallerOk, Via
    <3> QED  BY <1>3, <3>1, <3>3
  <2>4. CASE ~IsMine(c)
    BY <1>4, <1>12, <2>1, <2>4 DEF TakeResponse
  <2> QED  BY <2>3, <2>4
<1>13. ASSUME NEW c \in Callers, WaitExpires(c) PROVE CallerInv'
  <2>1. /\ cpc[c] = "wait" /\ cpc'[c] = "read" /\ answer'[c] = Via("timeout") /\ cid' = cid
        /\ Alone(c)
    BY <1>13, <1>t DEF WaitExpires
  <2>2. CallerOk(c)'
    BY <1>5, <1>n, <2>1 DEF CallerOk, Via
  <2> QED  BY <1>3, <2>1, <2>2
<1>14. ASSUME NEW c \in Callers, ReadRow(c) PROVE CallerInv'
  <2>1. /\ cpc[c] = "read" /\ cpc'[c] = "done" /\ cid' = cid /\ rows' = rows /\ Alone(c)
        /\ \/ answer'[c] = [via |-> answer[c].via, state |-> rows[cid[c]].state]
           \/ answer'[c] = [via |-> "failed", state |-> "absent"]
    BY <1>14, <1>t DEF ReadRow, Finished, Latest
  <2>2. CallerOk(c)'
    BY <1>5, <1>n, <2>1 DEF CallerOk
  <2> QED  BY <1>3, <2>1, <2>2
<1>15. CASE Crash
  <2>1. ASSUME NEW c \in Callers PROVE CallerOk(c)'
    <3>1. cid' = cid
      BY <1>15 DEF Crash
    <3>2. CASE cpc[c] \in {"idle", "done"}
      <4>1. Same(c)
        BY <1>15, <3>1, <3>2 DEF Crash
      <4> QED  BY <1>2, <4>1
    <3>3. CASE cpc[c] \notin {"idle", "done"}
      <4>1. cpc'[c] = "done" /\ answer'[c] = Via("failed")
        BY <1>15, <3>3 DEF Crash
      <4> QED  BY <1>n, <4>1 DEF CallerOk, Via
    <3> QED  BY <3>2, <3>3
  <2> QED  BY <2>1 DEF CallerInv
<1>16. ASSUME NEW c \in Callers, InsertRejected(c) \/ CallerFails(c) PROVE CallerInv'
  BY <1>10, <1>16 DEF InsertRejected, CallerFails
<1>17. ASSUME NEW c \in Callers, Announce(c) \/ AnnounceFails(c) PROVE CallerInv'
  BY <1>11, <1>17 DEF Announce, AnnounceFails
<1> QED
  BY <1>6, <1>7, <1>8, <1>9, <1>12, <1>13, <1>14, <1>15, <1>16, <1>17, CallerWriters
  DEF CallerBegins, CallerStep

\* Who writes what a worker's handler holds.
LEMMA WorkerWriters ==
    ASSUME [Next]_vars
    PROVE  \/ UNCHANGED <<wpc, wid>>
           \/ \E w \in Workers : WorkerBegins(w) \/ WorkerStep(w)
           \/ DeliverInvoke \/ Crash
BY DEF Next, CallerBegins, CallerStep, Delivery, vars, BeginSync, BeginAsync, BeginGet,
      Insert, InsertRejected, Announce, AnnounceFails, AfterAnnounce, TakeResponse,
      WaitExpires, ReadRow, CallerFails, DeliverResponse, LoseNotification

\* A worker that is about to notify keeps a final row, whoever else moves.
LEMMA WorkerInvStep == IInv /\ [Next]_vars => WorkerInv'
<1> SUFFICES ASSUME IInv, [Next]_vars PROVE WorkerInv'
  OBVIOUS
<1>1. TableGrows /\ TypeOK /\ WorkerInv
  BY TableStep DEF IInv
<1> USE DEF TypeOK, WorkerInv, TableGrows, Ids, NoId, Final, RowStates, Row, WorkerPC
<1>2. CASE UNCHANGED <<wpc, wid>>
  BY <1>1, <1>2
<1>3. ASSUME NEW w \in Workers, NEW i \in Ids, NEW o \in Final, ReturnCommit(w, i, o)
      PROVE  WorkerInv'
  <2>1. rows'[i].state = o
    BY <1>1, <1>3 DEF ReturnCommit, FinishedRow
  <2>2. CASE UNCHANGED workerVars
    BY <1>1, <2>2
  <2>3. CASE wid' = [wid EXCEPT ![w] = i] /\ Goto(w, "notify")
    BY <1>1, <2>1, <2>3 DEF Goto
  <2> QED  BY <1>3, <2>2, <2>3 DEF ReturnCommit
<1>4. ASSUME NEW w \in Workers, NEW i \in Ids, PollTakes(w, i) PROVE WorkerInv'
  BY <1>1, <1>4 DEF PollTakes, Goto
<1>5. ASSUME NEW w \in Workers, BeginGetNext(w) \/ ClientGone(w) PROVE WorkerInv'
  BY <1>1, <1>5 DEF BeginGetNext, ClientGone, Goto
<1>6. ASSUME NEW w \in Workers, PollFindsNone(w) \/ PollCancelled(w) \/ PollFails(w)
      PROVE  WorkerInv'
  BY <1>1, <1>6 DEF PollFindsNone, PollCancelled, PollFails, Goto
<1>7. ASSUME NEW w \in Workers, WaitFor(w) \/ WaitForExpires(w) PROVE WorkerInv'
  BY <1>1, <1>7 DEF WaitFor, WaitForExpires, Goto, AfterToken, AfterTimeout
<1>8. ASSUME NEW w \in Workers, Reply(w) \/ ReturnNotify(w) \/ ReturnNotifyFails(w) PROVE WorkerInv'
  BY <1>1, <1>8 DEF Reply, ReturnNotify, ReturnNotifyFails, Goto
<1>9. CASE DeliverInvoke
  BY <1>1, <1>9 DEF DeliverInvoke, Dispatch, Parked, AfterToken
<1>10. CASE Crash
  BY <1>10 DEF Crash
<1> HIDE DEF TypeOK, WorkerInv, TableGrows
<1> QED
  BY <1>2, <1>3, <1>4, <1>5, <1>6, <1>7, <1>8, <1>9, <1>10, WorkerWriters DEF WorkerBegins,
     WorkerStep

\* A freshly started server with an empty table satisfies the invariant.
LEMMA InitIInv == Init => IInv
<1> SUFFICES ASSUME Init PROVE IInv
  OBVIOUS
<1> USE BoundsAssumption DEF Init, NoRow, Via, Ids, NoId, Final, RowStates
<1>1. TypeOK
  BY DEF TypeOK, Row, Answer, WorkerPC, CallerPC, Messages
<1>2. TableInv
  BY DEF TableInv, TakenOnce
<1>3. CallerInv /\ WorkerInv /\ ResponsesAreTrue
  BY DEF CallerInv, CallerOk, WorkerInv, ResponsesAreTrue
<1> QED  BY <1>1, <1>2, <1>3 DEF IInv

\* The invariant is inductive.
LEMMA StepIInv == IInv /\ [Next]_vars => IInv'
BY TypeStep, TableStep, CallerInvStep, WorkerInvStep, ResponsesStep DEF IInv

\* The invariant holds in every reachable state.
LEMMA InductiveInvariant == Spec => []IInv
BY InitIInv, StepIInv, PTL DEF Spec

-------------------------------------------------------------------------------
(* The theorems *)

\* Every variable keeps its type, whatever the number of actors, workers,
\* callers and faults: in particular no dispatcher channel overflows.
THEOREM TypeCorrect == Spec => []TypeOK
<1>1. IInv => TypeOK
  BY DEF IInv
<1> QED  BY <1>1, InductiveInvariant, PTL

\* A job is handed over at most once, to the actor it was addressed to, under
\* any interleaving of GetNext, Return, retries and crashes.
THEOREM HandedOverOnce == Spec => []TakenOnce
<1>1. IInv => TakenOnce
  BY DEF IInv, TableInv
<1> QED  BY <1>1, InductiveInvariant, PTL

\* A response notification never overtakes the commit it announces.
THEOREM NotifiedRowsAreFinal == Spec => []ResponsesAreTrue
<1>1. IInv => ResponsesAreTrue
  BY DEF IInv
<1> QED  BY <1>1, InductiveInvariant, PTL

\* A caller woken by its own response is told a final state.
THEOREM WokenIsAnswered == Spec => []WokenCallersGetResults
<1>1. IInv => WokenCallersGetResults
  BY DEF IInv, CallerInv, CallerOk, WokenCallersGetResults
<1> QED  BY <1>1, InductiveInvariant, PTL

\* The final state a caller was told is the state of the row ever after.
THEOREM AnswersStand == Spec => []FinalAnswersStand
<1>1. IInv => FinalAnswersStand
  BY DEF IInv, CallerInv, CallerOk, FinalAnswersStand
<1> QED  BY <1>1, InductiveInvariant, PTL

\* Seen through the table, every step of the handlers is a step of the promise
\* or leaves it alone.
LEMMA PromiseStep == IInv /\ [Next]_vars => [Promise!Next]_(Promise!vars)
<1> SUFFICES ASSUME TypeOK, TableInv, [Next]_vars PROVE [Promise!Next]_(Promise!vars)
  BY DEF IInv
<1> USE ActorOfAssumption, NoActorAssumption, BoundsAssumption
    DEF TypeOK, TableInv, TakenOnce, Ids, Final, RowStates, Row, Promise!vars
<1>1. CASE UNCHANGED tableVars
  BY <1>1 DEF Taker, LastAttempt
<1>2. ASSUME NEW c \in Callers, NEW a \in Actors, Insert(c, a) PROVE Promise!Next
  <2> DEFINE new == [state |-> "available", queue |-> a, attemptedBy |-> << >>]
  <2>1. nextId \in Ids /\ rows[nextId].state = "absent" /\ rows' = [rows EXCEPT ![nextId] = new]
    BY <1>2 DEF Insert
  <2>2. \A j \in Ids : j < nextId => rows[j].state # "absent"
    BY <2>1
  <2>3. [j \in Ids |-> rows'[j].state] = [[j \in Ids |-> rows[j].state] EXCEPT ![nextId] = "available"]
    BY <2>1
  <2>4. [j \in Ids |-> rows'[j].queue] = [[j \in Ids |-> rows[j].queue] EXCEPT ![nextId] = a]
    BY <2>1
  <2>5. \A j \in Ids : rows'[j].attemptedBy = rows[j].attemptedBy
    BY <2>1
  <2>6. [j \in Ids |-> Taker(j)'] = [j \in Ids |-> Taker(j)]
    BY <2>5 DEF Taker, LastAttempt
  <2>7. Promise!Submit(nextId, a)
    BY <2>1, <2>2, <2>3, <2>4, <2>6 DEF Promise!Submit
  <2> QED  BY <2>1, <2>7 DEF Promise!Next
<1>3. ASSUME NEW w \in Workers, NEW i \in Ids, PollTakes(w, i) PROVE Promise!Next
  <2> DEFINE a == ActorOf[w]
             row == [state |-> "running", queue |-> rows[i].queue,
                     attemptedBy |-> Append(rows[i].attemptedBy, a)]
  <2>1. rows[i].state = "available" /\ rows[i].queue = a /\ rows[i].attemptedBy = << >>
    BY <1>3 DEF PollTakes, Oldest, Available
  <2>2. \A j \in Ids : rows[j].state = "available" /\ rows[j].queue = a => i <= j
    BY <1>3 DEF PollTakes, Oldest, Available
  <2>3. row = [state |-> "running", queue |-> a, attemptedBy |-> <<a>>] /\ a \in Actors
    BY <2>1
  <2>4. rows' = [rows EXCEPT ![i] = row]
    BY <1>3 DEF PollTakes
  <2>5. \A j \in Ids \ {i} : rows'[j] = rows[j]
    BY <2>4
  <2>6. rows'[i].state = "running" /\ rows'[i].queue = a /\ rows'[i].attemptedBy = <<a>>
    BY <2>3, <2>4
  <2> HIDE DEF row, a
  <2>7. [j \in Ids |-> rows'[j].state] = [[j \in Ids |-> rows[j].state] EXCEPT ![i] = "running"]
    BY <2>5, <2>6
  <2>8. [j \in Ids |-> rows'[j].queue] = [j \in Ids |-> rows[j].queue]
    BY <2>1, <2>5, <2>6
  <2>9. [j \in Ids |-> Taker(j)'] = [[j \in Ids |-> Taker(j)] EXCEPT ![i] = a]
    <3>1. Taker(i)' = a
      BY <2>6 DEF Taker, LastAttempt
    <3>2. \A j \in Ids \ {i} : Taker(j)' = Taker(j)
      BY <2>5 DEF Taker, LastAttempt
    <3> HIDE DEF Taker
    <3> QED  BY <3>1, <3>2
  <2>10. Promise!Take(i, a)
    BY <2>1, <2>2, <2>7, <2>8, <2>9 DEF Promise!Take
  <2> QED  BY <2>3, <2>10 DEF Promise!Next
<1>4. ASSUME NEW w \in Workers, NEW i \in Ids, NEW o \in Final, ReturnCommit(w, i, o)
      PROVE  Promise!Next
  <2>1. rows[i].state = "running" /\ Taker(i) = ActorOf[w] /\ ActorOf[w] \in Actors
    BY <1>4 DEF ReturnCommit, MayFinish, Taker, LastAttempt
  <2>2. rows'[i].state = o /\ rows'[i].queue = rows[i].queue
            /\ rows'[i].attemptedBy = rows[i].attemptedBy
    BY <1>4 DEF ReturnCommit, FinishedRow
  <2>3. \A j \in Ids \ {i} : rows'[j] = rows[j]
    BY <1>4 DEF ReturnCommit, FinishedRow
  <2>4. [j \in Ids |-> rows'[j].state] = [[j \in Ids |-> rows[j].state] EXCEPT ![i] = o]
    BY <2>2, <2>3
  <2>5. [j \in Ids |-> rows'[j].queue] = [j \in Ids |-> rows[j].queue]
    BY <2>2, <2>3
  <2>6. [j \in Ids |-> Taker(j)'] = [j \in Ids |-> Taker(j)]
    BY <2>2, <2>3 DEF Taker, LastAttempt
  <2>7. Promise!Finish(i, ActorOf[w], o)
    BY <2>1, <2>4, <2>5, <2>6 DEF Promise!Finish
  <2>8. o \in Promise!Final
    BY DEF Promise!Final
  <2> QED  BY <2>1, <2>7, <2>8 DEF Promise!Next
<1> HIDE DEF TypeOK, TableInv, Promise!vars
<1> QED  BY <1>1, <1>2, <1>3, <1>4, TableWriters

\* The handlers implement InvocationQueue: oldest first, one taker, one result.
THEOREM ImplementsQueue == Spec => KeepsPromise
<1>1. Init => Promise!Init
  BY DEF Init, Promise!Init, NoRow, Taker
<1>2. Spec => [][Promise!Next]_(Promise!vars)
  BY PromiseStep, InductiveInvariant, PTL DEF Spec
<1> QED  BY <1>1, <1>2 DEF Spec, KeepsPromise, Promise!Spec

-------------------------------------------------------------------------------
(* A response is announced once, so what fills a responseCh are results of     *)
(* other rows, each there once.                                                *)

\* Each row is announced at most once, by the worker that finished it: a response that is about
\* to be sent, is in the stream, or is in a responseCh is there once and nowhere before that.
OnceInv ==
    /\ \A w, v \in Workers : wpc[w] = "notify" /\ wpc[v] = "notify" /\ wid[w] = wid[v] => w = v
    /\ \A w \in Workers : wpc[w] = "notify" =>
           \A k \in 1 .. Len(stream) : stream[k] # Response(wid[w])
    /\ \A k, l \in 1 .. Len(stream) :
           stream[k].topic = "response" /\ stream[k] = stream[l] => k = l
    /\ \A c \in Callers : \A k \in 1 .. Len(inbox[c]) :
           /\ \A w \in Workers : wpc[w] = "notify" => wid[w] # inbox[c][k]
           /\ \A l \in 1 .. Len(stream) : stream[l] # Response(inbox[c][k])
           /\ \A l \in 1 .. Len(inbox[c]) : inbox[c][k] = inbox[c][l] => k = l

\* A synchronous caller is subscribed from before its insert, and its response is on its way
\* unless it found the responseCh full.
HeardInv ==
    \A c \in Callers : kind[c] = "sync" /\ faults = 0 =>
        /\ cpc[c] \in {"insert", "announce", "wait"} => c \in subs
        /\ cpc[c] \in {"announce", "wait"} /\ rows[cid[c]].state \in Final
               => ResponseOnItsWay(c) \/ c \in missed

\* What PgNotifyOne and the delivery goroutine do to a queue.
LEMMA AppendHolds ==
    ASSUME NEW S, NEW s \in Seq(S), NEW m \in S
    PROVE  /\ Len(s) \in Nat /\ Len(Append(s, m)) = Len(s) + 1
           /\ \A k \in 1 .. Len(s) + 1 : Append(s, m)[k] = IF k = Len(s) + 1 THEN m ELSE s[k]
BY AppendProperties

\* Positions of a queue stay apart when its head is taken off.
LEMMA SuccessorsDiffer ==
    ASSUME NEW k \in Nat, NEW l \in Nat, k + 1 = l + 1
    PROVE  k = l
OBVIOUS

\* What taking the oldest element off a queue leaves.
LEMMA TailHolds ==
    ASSUME NEW S, NEW s \in Seq(S), s # << >>
    PROVE  /\ Len(s) \in Nat /\ 1 \in 1 .. Len(s) /\ Head(s) = s[1] /\ Len(Tail(s)) = Len(s) - 1
           /\ \A k \in 1 .. Len(Tail(s)) :
                  k \in Nat /\ k + 1 \in 1 .. Len(s) /\ k + 1 # 1 /\ Tail(s)[k] = s[k + 1]
           /\ \A k \in 1 .. Len(s) : k # 1 =>
                  k - 1 \in 1 .. Len(Tail(s)) /\ Tail(s)[k - 1] = s[k]
BY HeadTailProperties

\* A queue of different rows is no longer than there are rows it may hold (responseCh).
LEMMA DifferentRowsFit ==
    ASSUME NEW S, IsFiniteSet(S), NEW n \in Nat, NEW f \in [1 .. n -> S],
           \A k, l \in 1 .. n : f[k] = f[l] => k = l
    PROVE  n <= Cardinality(S)
<1>1. f \in Injection(1 .. n, S)
  BY DEF Injection, IsInjective
<1>2. Cardinality(1 .. n) = n
  BY FS_Interval
<1> QED  BY <1>1, <1>2, FS_Injection

\* The worker and the notification tell which row a response is about.
LEMMA ResponsesDiffer ==
    /\ \A i, j : Response(i) = Response(j) => i = j
    /\ \A i : Response(i).topic = "response" /\ Response(i).id = i
    /\ \A a : Invoke(a).topic = "invoke" /\ Invoke(a).queue = a
    /\ \A m \in Messages : m.topic = "response" => m = Response(m.id) /\ m.id \in Ids
    /\ \A m \in Messages : m.topic = "invoke" => m = Invoke(m.queue) /\ m.queue \in Actors
    /\ \A m \in Messages : m.topic \in {"invoke", "response"}
BY DEF Response, Invoke, Messages

\* No worker is newly about to notify; none ceases to be.
NoNewNotifier ==
    \A w \in Workers : wpc'[w] = "notify" => wpc[w] = "notify" /\ wid'[w] = wid[w]
NotifiersStay ==
    \A w \in Workers : wpc[w] = "notify" => wpc'[w] = "notify" /\ wid'[w] = wid[w]

\* What each step does to the responses: only ReturnCommit makes a worker a notifier.
LEMMA MessageMoves ==
    ASSUME TypeOK, [Next]_vars
    PROVE  \/ UNCHANGED <<stream, inbox>> /\ NoNewNotifier /\ (NotifiersStay \/ faults' # 0)
           \/ \E w \in Workers, i \in Ids, o \in Final : ReturnCommit(w, i, o)
           \/ \E w \in Workers : ReturnNotify(w)
           \/ \E c \in Callers : Announce(c) \/ TakeResponse(c)
           \/ DeliverInvoke \/ DeliverResponse \/ LoseNotification \/ Crash
<1> DEFINE Quiet == UNCHANGED <<stream, inbox>> /\ NoNewNotifier /\ (NotifiersStay \/ faults' # 0)
<1>t. wpc \in [Workers -> WorkerPC] /\ wid \in [Workers -> Ids \cup {NoId}] /\ faults \in Nat
  BY BoundsAssumption DEF TypeOK
<1>1. ASSUME UNCHANGED <<stream, inbox, wpc, wid>> PROVE Quiet
  BY <1>1 DEF NoNewNotifier, NotifiersStay
<1>2. ASSUME NEW c \in Callers, CallerBegins(c) \/ CallerStep(c)
      PROVE  Quiet \/ Announce(c) \/ TakeResponse(c)
  <2>1. Announce(c) \/ TakeResponse(c) \/ UNCHANGED <<stream, inbox, wpc, wid>>
    BY <1>2 DEF CallerBegins, CallerStep, BeginSync, BeginAsync, BeginGet, Insert, InsertRejected,
          AnnounceFails, AfterAnnounce, WaitExpires, ReadRow, CallerFails
  <2> QED  BY <1>1, <2>1
<1>3. ASSUME NEW w \in Workers, NEW pc \in WorkerPC \ {"notify"}, Goto(w, pc), wpc[w] # "notify",
             \A v \in Workers \ {w} : wid'[v] = wid[v], UNCHANGED <<stream, inbox>>
      PROVE  Quiet
  BY <1>3, <1>t DEF Goto, NoNewNotifier, NotifiersStay
<1>4. {"idle", "poll", "lastPoll", "gap", "parked", "reply", AfterToken, AfterTimeout}
          \subseteq WorkerPC \ {"notify"}
  BY DEF WorkerPC, AfterToken, AfterTimeout
<1>5. ASSUME NEW w \in Workers, WorkerBegins(w) \/ WorkerStep(w)
      PROVE  Quiet \/ ReturnNotify(w) \/ \E i \in Ids, o \in Final : ReturnCommit(w, i, o)
  <2>1. ASSUME NEW i \in Ids, PollTakes(w, i) PROVE Quiet
    BY <1>3, <1>4, <1>t, <2>1 DEF PollTakes
  <2>2. ASSUME PollFindsNone(w) PROVE Quiet
    BY <1>3, <1>4, <2>2 DEF PollFindsNone
  <2>3. ASSUME PollCancelled(w) \/ PollFails(w) PROVE Quiet
    BY <1>3, <1>4, <2>3 DEF PollCancelled, PollFails
  <2>4. ASSUME WaitFor(w) PROVE Quiet
    BY <1>3, <1>4, <2>4 DEF WaitFor
  <2>5. ASSUME WaitForExpires(w) \/ BeginGetNext(w) PROVE Quiet
    BY <1>3, <1>4, <2>5 DEF WaitForExpires, BeginGetNext
  <2>6. ASSUME Reply(w) PROVE Quiet
    BY <1>3, <1>4, <1>t, <2>6 DEF Reply
  <2>7. ASSUME ClientGone(w) PROVE Quiet
    BY <1>1, <2>7 DEF ClientGone
  <2>8. ASSUME ReturnNotifyFails(w) PROVE Quiet
    <3>1. faults' # 0 /\ UNCHANGED <<stream, inbox>>
      BY <1>t, <2>8 DEF ReturnNotifyFails, Fault
    <3>2. NoNewNotifier
      BY <1>t, <2>8 DEF ReturnNotifyFails, Goto, NoNewNotifier
    <3> QED  BY <3>1, <3>2
  <2> HIDE DEF Quiet
  <2> QED
    BY <1>5, <2>1, <2>2, <2>3, <2>4, <2>5, <2>6, <2>7, <2>8 DEF WorkerBegins, WorkerStep
<1>6. ASSUME UNCHANGED vars PROVE Quiet
  BY <1>1, <1>6 DEF vars
<1> HIDE DEF Quiet
<1>7. \/ Quiet
      \/ \E w \in Workers : ReturnNotify(w)
      \/ \E w \in Workers, i \in Ids, o \in Final : ReturnCommit(w, i, o)
      \/ \E c \in Callers : Announce(c) \/ TakeResponse(c)
      \/ DeliverInvoke \/ DeliverResponse \/ LoseNotification \/ Crash
  BY <1>2, <1>5, <1>6 DEF Next, Delivery
<1> QED  BY <1>7 DEF Quiet

\* A row is announced once: only a running row is finished, and what was announced is final
\* (the state = 'running' guards, and one PgNotifyOne for each commit).
LEMMA OnceStep == IInv /\ OnceInv /\ [Next]_vars => OnceInv'
<1> SUFFICES ASSUME IInv, OnceInv, [Next]_vars
             PROVE  OnceInv'
  OBVIOUS
<1> USE ResponsesDiffer
<1>t. /\ stream \in Seq(Messages) /\ inbox \in [Callers -> Seq(Ids)]
      /\ wpc \in [Workers -> WorkerPC] /\ wid \in [Workers -> Ids \cup {NoId}]
      /\ TypeOK
  BY DEF IInv, TypeOK
<1>m. \A k \in 1 .. Len(stream) : stream[k] \in Messages
  BY <1>t
<1>n. \A w \in Workers : wpc[w] = "notify" => wid[w] \in Ids
  BY DEF IInv, WorkerInv
<1>1. CASE UNCHANGED <<stream, inbox>> /\ NoNewNotifier
  BY <1>1 DEF OnceInv, NoNewNotifier
<1>2. ASSUME NEW w \in Workers, NEW i \in Ids, NEW o \in Final, ReturnCommit(w, i, o)
      PROVE  OnceInv'
  <2>0. CASE UNCHANGED workerVars
    BY <1>1, <1>2, <2>0 DEF ReturnCommit, NoNewNotifier
  <2> SUFFICES ASSUME wid' = [wid EXCEPT ![w] = i], Goto(w, "notify")
               PROVE  OnceInv'
    BY <1>2, <2>0 DEF ReturnCommit
  <2>1. /\ UNCHANGED <<stream, inbox>> /\ wpc'[w] = "notify" /\ wid'[w] = i
        /\ \A v \in Workers \ {w} : wpc'[v] = wpc[v] /\ wid'[v] = wid[v]
    BY <1>2, <1>t DEF ReturnCommit, Goto
  <2>2. rows[i].state \notin Final
    BY <1>2 DEF ReturnCommit, MayFinish, Final
  <2>3. \A v \in Workers : wpc[v] = "notify" => wid[v] # i
    BY <2>2 DEF IInv, WorkerInv
  <2>4. \A k \in 1 .. Len(stream) : stream[k] # Response(i)
    BY <2>2 DEF IInv, ResponsesAreTrue
  <2>5. \A c \in Callers : \A k \in 1 .. Len(inbox[c]) : inbox[c][k] # i
    BY <2>2 DEF IInv, ResponsesAreTrue
  <2> QED  BY <2>1, <2>3, <2>4, <2>5 DEF OnceInv
<1>3. ASSUME NEW w \in Workers, ReturnNotify(w) PROVE OnceInv'
  <2>1. /\ wpc[w] = "notify" /\ wpc'[w] # "notify" /\ inbox' = inbox
        /\ stream' = Append(stream, Response(wid[w]))
        /\ \A v \in Workers \ {w} : wpc'[v] = wpc[v] /\ wid'[v] = wid[v]
    BY <1>3, <1>t DEF ReturnNotify, Goto, Sent
  <2>2. Response(wid[w]) \in Messages
    BY <1>n, <2>1, MessageIsTyped
  <2>3. /\ Len(stream) \in Nat /\ Len(stream') = Len(stream) + 1
        /\ \A k \in 1 .. Len(stream) + 1 :
               stream'[k] = IF k = Len(stream) + 1 THEN Response(wid[w]) ELSE stream[k]
    BY <1>t, <2>1, <2>2, AppendHolds
  <2>4. \A k \in 1 .. Len(stream') : \/ k = Len(stream') /\ stream'[k] = Response(wid[w])
                                     \/ k \in 1 .. Len(stream) /\ stream'[k] = stream[k]
    BY <2>3
  <2>5. \A v \in Workers : wpc'[v] = "notify" => v # w /\ wpc[v] = "notify" /\ wid'[v] = wid[v]
    BY <2>1
  <2>6. \A v \in Workers : wpc'[v] = "notify" =>
            \A k \in 1 .. Len(stream') : stream'[k] # Response(wid'[v])
    BY <2>1, <2>4, <2>5 DEF OnceInv
  <2>7. \A k, l \in 1 .. Len(stream') :
            stream'[k].topic = "response" /\ stream'[k] = stream'[l] => k = l
    BY <2>1, <2>4 DEF OnceInv
  <2>8. \A c \in Callers : \A k \in 1 .. Len(inbox[c]) :
            \A l \in 1 .. Len(stream') : stream'[l] # Response(inbox[c][k])
    BY <2>1, <2>4 DEF OnceInv
  <2> QED  BY <2>1, <2>5, <2>6, <2>7, <2>8 DEF OnceInv
<1>4. ASSUME NEW c \in Callers, Announce(c) PROVE OnceInv'
  <2> DEFINE m == Invoke(rows[cid[c]].queue)
  <2>1. stream' = Append(stream, m) /\ UNCHANGED <<inbox, wpc, wid>>
    BY <1>4 DEF Announce, AfterAnnounce, Sent
  <2>2. m \in Messages /\ m.topic = "invoke"
    BY <1>4, MessageIsTyped DEF IInv, CallerInv, CallerOk, TableInv, Announce
  <2> HIDE DEF m
  <2>3. /\ Len(stream) \in Nat /\ Len(stream') = Len(stream) + 1
        /\ \A k \in 1 .. Len(stream) + 1 :
               stream'[k] = IF k = Len(stream) + 1 THEN m ELSE stream[k]
    BY <1>t, <2>1, <2>2, AppendHolds
  <2>4. \A k \in 1 .. Len(stream') : \/ stream'[k] = m
                                     \/ k \in 1 .. Len(stream) /\ stream'[k] = stream[k]
    BY <2>3
  <2>5. \A i : m # Response(i)
    BY <2>2
  <2>6. \A k, l \in 1 .. Len(stream') :
            stream'[k].topic = "response" /\ stream'[k] = stream'[l] => k = l
    BY <2>2, <2>4 DEF OnceInv
  <2> QED  BY <2>1, <2>4, <2>5, <2>6 DEF OnceInv
<1>5. ASSUME NEW c \in Callers, TakeResponse(c) PROVE OnceInv'
  <2>1. /\ UNCHANGED <<stream, wpc, wid>> /\ inbox[c] # << >> /\ inbox'[c] = Tail(inbox[c])
        /\ \A d \in Callers \ {c} : inbox'[d] = inbox[d]
    BY <1>5, <1>t DEF TakeResponse
  <2>2. \A k \in 1 .. Len(inbox'[c]) :
            k \in Nat /\ k + 1 \in 1 .. Len(inbox[c]) /\ inbox'[c][k] = inbox[c][k + 1]
    BY <1>t, <2>1, TailHolds
  <2>3. \A k, l \in 1 .. Len(inbox'[c]) : inbox'[c][k] = inbox'[c][l] => k = l
    <3>1. \A k, l \in 1 .. Len(inbox[c]) : inbox[c][k] = inbox[c][l] => k = l
      BY DEF OnceInv
    <3>2. ASSUME NEW k \in 1 .. Len(inbox'[c]), NEW l \in 1 .. Len(inbox'[c]),
                 inbox'[c][k] = inbox'[c][l]
          PROVE  k + 1 = l + 1
      <4> DEFINE m == k + 1
                 n == l + 1
      <4>1. /\ m \in 1 .. Len(inbox[c]) /\ n \in 1 .. Len(inbox[c])
            /\ inbox[c][m] = inbox[c][n]
        BY <2>2, <3>2
      <4> HIDE DEF m, n
      <4>2. m = n
        BY <3>1, <4>1
      <4> QED  BY <4>2 DEF m, n
    <3>3. ASSUME NEW k \in 1 .. Len(inbox'[c]), NEW l \in 1 .. Len(inbox'[c]),
                 inbox'[c][k] = inbox'[c][l]
          PROVE  k = l
      <4>1. k \in Nat /\ l \in Nat
        BY <2>2
      <4>2. k + 1 = l + 1
        BY <3>2, <3>3
      <4> QED  BY <4>1, <4>2, SuccessorsDiffer
    <3> QED  BY <3>3
  <2>4. \A k \in 1 .. Len(inbox'[c]) :
            /\ \A w \in Workers : wpc[w] = "notify" => wid[w] # inbox'[c][k]
            /\ \A l \in 1 .. Len(stream) : stream[l] # Response(inbox'[c][k])
    BY <2>2 DEF OnceInv
  <2>5. \A d \in Callers : \A k \in 1 .. Len(inbox'[d]) :
            /\ \A w \in Workers : wpc[w] = "notify" => wid[w] # inbox'[d][k]
            /\ \A l \in 1 .. Len(stream) : stream[l] # Response(inbox'[d][k])
            /\ \A l \in 1 .. Len(inbox'[d]) : inbox'[d][k] = inbox'[d][l] => k = l
    <3>1. ASSUME NEW d \in Callers, d # c
          PROVE  \A k \in 1 .. Len(inbox'[d]) :
                     /\ \A w \in Workers : wpc[w] = "notify" => wid[w] # inbox'[d][k]
                     /\ \A l \in 1 .. Len(stream) : stream[l] # Response(inbox'[d][k])
                     /\ \A l \in 1 .. Len(inbox'[d]) : inbox'[d][k] = inbox'[d][l] => k = l
      <4>1. inbox'[d] = inbox[d]
        BY <2>1, <3>1
      <4> QED  BY <4>1 DEF OnceInv
    <3> QED  BY <2>3, <2>4, <3>1
  <2> QED  BY <2>1, <2>5 DEF OnceInv
<1>6. ASSUME stream # << >>, stream' = Tail(stream)
      PROVE  /\ \A k \in 1 .. Len(stream') : k + 1 \in 1 .. Len(stream) /\ k + 1 # 1
                                             /\ stream'[k] = stream[k + 1]
             /\ \A k, l \in 1 .. Len(stream') :
                    stream'[k].topic = "response" /\ stream'[k] = stream'[l] => k = l
  <2>1. \A k \in 1 .. Len(stream') : k \in Nat /\ k + 1 \in 1 .. Len(stream) /\ k + 1 # 1
                                     /\ stream'[k] = stream[k + 1]
    BY <1>6, <1>t, TailHolds
  <2>2. \A k, l \in 1 .. Len(stream') :
            stream'[k].topic = "response" /\ stream'[k] = stream'[l] => k = l
    <3> SUFFICES ASSUME NEW k \in 1 .. Len(stream'), NEW l \in 1 .. Len(stream'),
                        stream'[k].topic = "response", stream'[k] = stream'[l]
                 PROVE  k = l
      OBVIOUS
    <3> DEFINE m == k + 1
               n == l + 1
    <3>1. /\ k \in Nat /\ l \in Nat /\ m \in 1 .. Len(stream) /\ n \in 1 .. Len(stream)
          /\ stream'[k] = stream[m] /\ stream'[l] = stream[n]
      BY <2>1
    <3>2. stream[m].topic = "response" /\ stream[m] = stream[n]
      BY <3>1
    <3> HIDE DEF m, n
    <3>3. m = n
      BY <3>1, <3>2 DEF OnceInv
    <3>4. k + 1 = l + 1
      BY <3>3 DEF m, n
    <3> QED  BY <3>1, <3>4, SuccessorsDiffer
  <2> QED  BY <2>1, <2>2
<1>7. CASE stream # << >> /\ stream' = Tail(stream) /\ inbox' = inbox /\ NoNewNotifier
  <2>1. \A w \in Workers : wpc'[w] = "notify" => wpc[w] = "notify" /\ wid'[w] = wid[w]
    BY <1>7 DEF NoNewNotifier
  <2>2. ASSUME NEW k \in 1 .. Len(stream')
        PROVE  \E m \in 1 .. Len(stream) : stream'[k] = stream[m]
    <3>1. k + 1 \in 1 .. Len(stream) /\ stream'[k] = stream[k + 1]
      BY <1>6, <1>7
    <3> QED  BY <3>1
  <2>3. \A w, v \in Workers :
            wpc'[w] = "notify" /\ wpc'[v] = "notify" /\ wid'[w] = wid'[v] => w = v
    BY <2>1 DEF OnceInv
  <2>4. ASSUME NEW w \in Workers, wpc'[w] = "notify", NEW k \in 1 .. Len(stream')
        PROVE  stream'[k] # Response(wid'[w])
    <3>1. PICK m \in 1 .. Len(stream) : stream'[k] = stream[m]
      BY <2>2
    <3>2. stream[m] # Response(wid[w])
      BY <2>1, <2>4 DEF OnceInv
    <3> QED  BY <2>1, <2>4, <3>1, <3>2
  <2>5. ASSUME NEW c \in Callers, NEW k \in 1 .. Len(inbox[c]), NEW l \in 1 .. Len(stream')
        PROVE  stream'[l] # Response(inbox[c][k])
    <3>1. PICK m \in 1 .. Len(stream) : stream'[l] = stream[m]
      BY <2>2
    <3>2. stream[m] # Response(inbox[c][k])
      BY DEF OnceInv
    <3> QED  BY <3>1, <3>2
  <2>6. ASSUME NEW c \in Callers, NEW k \in 1 .. Len(inbox[c])
        PROVE  /\ \A w \in Workers : wpc'[w] = "notify" => wid'[w] # inbox[c][k]
               /\ \A l \in 1 .. Len(inbox[c]) : inbox[c][k] = inbox[c][l] => k = l
    BY <2>1 DEF OnceInv
  <2>7. \A k, l \in 1 .. Len(stream') :
            stream'[k].topic = "response" /\ stream'[k] = stream'[l] => k = l
    BY <1>6, <1>7
  <2>8. inbox' = inbox
    BY <1>7
  <2>9. \A c \in Callers : \A k \in 1 .. Len(inbox'[c]) :
            /\ \A w \in Workers : wpc'[w] = "notify" => wid'[w] # inbox'[c][k]
            /\ \A l \in 1 .. Len(stream') : stream'[l] # Response(inbox'[c][k])
            /\ \A l \in 1 .. Len(inbox'[c]) : inbox'[c][k] = inbox'[c][l] => k = l
    BY <2>5, <2>6, <2>8
  <2> QED  BY <2>3, <2>4, <2>7, <2>9 DEF OnceInv
<1>8. CASE DeliverInvoke
  <2>1. NoNewNotifier
    BY <1>8, <1>t DEF DeliverInvoke, Dispatch, AfterToken, NoNewNotifier
  <2> QED  BY <1>7, <1>8, <2>1 DEF DeliverInvoke
<1>9. CASE LoseNotification
  BY <1>7, <1>9 DEF LoseNotification, NoNewNotifier
<1>10. CASE DeliverResponse
  <2> DEFINE i == Head(stream).id
  <2>1. stream # << >> /\ stream' = Tail(stream) /\ UNCHANGED <<wpc, wid>>
    BY <1>10 DEF DeliverResponse
  <2>2. 1 \in 1 .. Len(stream) /\ stream[1] = Response(i) /\ i \in Ids
    <3>1. 1 \in 1 .. Len(stream) /\ Head(stream) = stream[1]
      BY <1>t, <2>1, TailHolds
    <3> QED  BY <1>10, <1>m, <3>1 DEF DeliverResponse
  <2>3. \A c \in Callers : inbox'[c] = inbox[c] \/ inbox'[c] = Append(inbox[c], i)
    BY <1>10 DEF DeliverResponse
  <2> HIDE DEF i
  <2>4. \A c \in Callers : \A k \in 1 .. Len(inbox'[c]) :
            \/ k = Len(inbox'[c]) /\ inbox'[c][k] = i
            \/ k \in 1 .. Len(inbox[c]) /\ inbox'[c][k] = inbox[c][k]
    <3> SUFFICES ASSUME NEW c \in Callers, inbox'[c] = Append(inbox[c], i),
                        NEW k \in 1 .. Len(inbox'[c])
                 PROVE  \/ k = Len(inbox'[c]) /\ inbox'[c][k] = i
                        \/ k \in 1 .. Len(inbox[c]) /\ inbox'[c][k] = inbox[c][k]
      BY <2>3
    <3>1. inbox[c] \in Seq(Ids)
      BY <1>t
    <3>2. /\ Len(inbox[c]) \in Nat /\ Len(inbox'[c]) = Len(inbox[c]) + 1
          /\ \A l \in 1 .. Len(inbox[c]) + 1 :
                 inbox'[c][l] = IF l = Len(inbox[c]) + 1 THEN i ELSE inbox[c][l]
      BY <2>2, <3>1, AppendHolds
    <3> QED  BY <3>2
  <2>5. \A w \in Workers : wpc[w] = "notify" => wid[w] # i
    BY <2>2 DEF OnceInv
  <2>6. \A l \in 1 .. Len(stream') : stream'[l] # Response(i)
    BY <1>6, <2>1, <2>2 DEF OnceInv
  <2>7. \A c \in Callers : \A k \in 1 .. Len(inbox[c]) : inbox[c][k] # i
    BY <2>2 DEF OnceInv
  <2>8. \A w \in Workers : wpc[w] = "notify" =>
            \A k \in 1 .. Len(stream') : stream'[k] # Response(wid[w])
    BY <1>6, <2>1 DEF OnceInv
  <2>9. \A c \in Callers : \A k \in 1 .. Len(inbox[c]) : \A l \in 1 .. Len(stream') :
            stream'[l] # Response(inbox[c][k])
    BY <1>6, <2>1 DEF OnceInv
  <2>10. \A c \in Callers : \A k \in 1 .. Len(inbox'[c]) :
            /\ \A w \in Workers : wpc[w] = "notify" => wid[w] # inbox'[c][k]
            /\ \A l \in 1 .. Len(stream') : stream'[l] # Response(inbox'[c][k])
    BY <2>4, <2>5, <2>6, <2>9 DEF OnceInv
  <2>11. \A c \in Callers : \A k, l \in 1 .. Len(inbox'[c]) : inbox'[c][k] = inbox'[c][l] => k = l
    BY <2>4, <2>7 DEF OnceInv
  <2>12. \A w, v \in Workers : wpc'[w] = "notify" /\ wpc'[v] = "notify" /\ wid'[w] = wid'[v]
             => w = v
    BY <2>1 DEF OnceInv
  <2>13. \A k, l \in 1 .. Len(stream') :
             stream'[k].topic = "response" /\ stream'[k] = stream'[l] => k = l
    BY <1>6, <2>1
  <2> QED  BY <2>1, <2>8, <2>10, <2>11, <2>12, <2>13 DEF OnceInv
<1>11. CASE Crash
  BY <1>11 DEF Crash, OnceInv
<1> QED
  BY <1>t, <1>1, <1>2, <1>3, <1>4, <1>5, <1>8, <1>9, <1>10, <1>11, MessageMoves

\* Who writes what a synchronous caller's place in the protocol is.
LEMMA ListenWriters ==
    ASSUME [Next]_vars
    PROVE  \/ UNCHANGED <<cpc, kind, cid, subs>>
           \/ \E c \in Callers : CallerBegins(c) \/ CallerStep(c)
           \/ Crash
BY DEF Next, WorkerBegins, WorkerStep, Delivery, vars, BeginGetNext, ClientGone, ReturnCommit,
   PollTakes, PollFindsNone, PollCancelled, PollFails, WaitFor, WaitForExpires, Reply,
   ReturnNotify, ReturnNotifyFails, DeliverInvoke, DeliverResponse, LoseNotification

\* Faults are only counted up.
LEMMA FaultsGrow ==
    ASSUME TypeOK, [Next]_vars
    PROVE  /\ faults \in Nat /\ (faults' = faults \/ faults' = faults + 1)
           /\ faults' = 0 => faults = 0
<1>1. faults \in Nat
  BY BoundsAssumption DEF TypeOK
<1>2. \A f : Fault(f) => faults' = faults + 1
  BY DEF Fault
<1>3. ASSUME NEW c \in Callers, CallerBegins(c) \/ CallerStep(c)
      PROVE  faults' = faults \/ faults' = faults + 1
  BY <1>2, <1>3 DEF CallerBegins, CallerStep, BeginSync, BeginAsync, BeginGet, Subscribe, Insert,
        InsertRejected, Announce, AnnounceFails, TakeResponse, WaitExpires, ReadRow, CallerFails
<1>4. ASSUME NEW w \in Workers, WorkerBegins(w) \/ WorkerStep(w)
      PROVE  faults' = faults \/ faults' = faults + 1
  BY <1>2, <1>4 DEF WorkerBegins, WorkerStep, BeginGetNext, ClientGone, ReturnCommit, PollTakes,
        PollFindsNone, PollCancelled, PollFails, WaitFor, WaitForExpires, Reply, ReturnNotify,
        ReturnNotifyFails
<1>5. ASSUME DeliverInvoke \/ DeliverResponse \/ LoseNotification \/ Crash \/ UNCHANGED vars
      PROVE  faults' = faults \/ faults' = faults + 1
  BY <1>2, <1>5 DEF DeliverInvoke, DeliverResponse, LoseNotification, Crash, vars
<1>6. faults' = faults \/ faults' = faults + 1
  BY <1>3, <1>4, <1>5 DEF Next, Delivery
<1> QED  BY <1>1, <1>6

\* A row becomes final by its worker's commit only (InvocationSet*IfRunning).
LEMMA NewlyFinal ==
    ASSUME IInv, [Next]_vars, NEW i \in Ids, rows'[i].state \in Final
    PROVE  \/ rows[i].state \in Final
           \/ \E w \in Workers, o \in Final : ReturnCommit(w, i, o)
<1>t. rows \in [Ids -> Row]
  BY DEF IInv, TypeOK
<1>n. "available" \notin Final /\ "running" \notin Final
  BY DEF Final
<1>1. ASSUME NEW c \in Callers, NEW a \in Actors, Insert(c, a) PROVE rows[i].state \in Final
  BY <1>t, <1>n, <1>1 DEF Insert
<1>2. ASSUME NEW w \in Workers, NEW j \in Ids, PollTakes(w, j) PROVE rows[i].state \in Final
  BY <1>t, <1>n, <1>2 DEF PollTakes
<1>3. ASSUME NEW w \in Workers, NEW j \in Ids, NEW o \in Final, ReturnCommit(w, j, o), j # i
      PROVE  rows[i].state \in Final
  BY <1>t, <1>3 DEF ReturnCommit, FinishedRow
<1> QED  BY <1>1, <1>2, <1>3, TableWriters

\* A synchronous caller listens until its handler returns (Listen before the insert, the
\* deferred Unlisten).
LEMMA ListensStep ==
    ASSUME IInv, HeardInv, [Next]_vars, NEW c \in Callers, faults' = 0,
           kind'[c] = "sync", cpc'[c] \in {"insert", "announce", "wait"}
    PROVE  c \in subs'
<1>t. /\ cpc \in [Callers -> CallerPC] /\ kind \in [Callers -> {"none", "sync", "async", "get"}]
      /\ faults = 0
  BY FaultsGrow DEF IInv, TypeOK
<1>s. Subscribe(c) => c \in subs'
  BY <1>t DEF Subscribe, Fault
<1>1. ASSUME kind[c] = "sync", cpc[c] \in {"insert", "announce", "wait"}, c \in subs => c \in subs'
      PROVE  c \in subs'
  BY <1>1, <1>t DEF HeardInv
<1>2. CASE UNCHANGED <<cpc, kind, cid, subs>>
  BY <1>1, <1>2
<1>3. ASSUME NEW d \in Callers, CallerBegins(d) \/ CallerStep(d), d # c
      PROVE  cpc'[c] = cpc[c] /\ kind'[c] = kind[c] /\ (c \in subs => c \in subs')
  BY <1>3, <1>t DEF CallerBegins, CallerStep, BeginSync, BeginAsync, BeginGet, Subscribe, Insert,
        InsertRejected, Announce, AnnounceFails, AfterAnnounce, TakeResponse, WaitExpires, ReadRow,
        CallerFails, Finished
<1>4. ASSUME CallerBegins(c) PROVE c \in subs'
  BY <1>4, <1>s, <1>t DEF CallerBegins, BeginSync, BeginAsync, BeginGet
<1>5. ASSUME CallerStep(c), cpc'[c] # "done"
      PROVE  kind[c] = "sync" /\ cpc[c] \in {"insert", "announce", "wait"} /\ c \in subs
                 => c \in subs'
  BY <1>5, <1>t DEF CallerStep, Insert, InsertRejected, Announce, AnnounceFails, AfterAnnounce,
        TakeResponse, WaitExpires, ReadRow, CallerFails, Finished
<1>6. ASSUME CallerStep(c), cpc'[c] \in {"insert", "announce", "wait"}
      PROVE  kind[c] = kind'[c] /\ cpc[c] \in {"insert", "announce", "wait"}
  BY <1>6, <1>t DEF CallerStep, Insert, InsertRejected, Announce, AnnounceFails, AfterAnnounce,
        TakeResponse, WaitExpires, ReadRow, CallerFails, Finished
<1>7. CASE Crash
  BY <1>7, <1>t DEF Crash
<1> QED  BY <1>1, <1>2, <1>3, <1>4, <1>5, <1>6, <1>7, ListenWriters

\* A synchronous caller that waits for a final row waited before, for the same row.
LEMMA WaitedBefore ==
    ASSUME IInv, [Next]_vars, NEW c \in Callers, faults' = 0,
           kind'[c] = "sync", cpc'[c] \in {"announce", "wait"}, rows'[cid'[c]].state \in Final
    PROVE  /\ kind[c] = "sync" /\ cpc[c] \in {"announce", "wait"}
           /\ cid'[c] = cid[c] /\ cid[c] \in Ids
<1>t. /\ cpc \in [Callers -> CallerPC] /\ kind \in [Callers -> {"none", "sync", "async", "get"}]
      /\ cid \in [Callers -> Ids \cup {NoId}] /\ rows \in [Ids -> Row] /\ TypeOK
  BY DEF IInv, TypeOK
<1>1. kind[c] = "sync" /\ cpc[c] \in {"announce", "wait"} => cid[c] \in Ids
  BY DEF IInv, CallerInv, CallerOk
<1>2. CASE UNCHANGED <<cpc, kind, cid, subs>>
  BY <1>1, <1>2
<1>3. ASSUME NEW d \in Callers, CallerBegins(d) \/ CallerStep(d), d # c
      PROVE  cpc'[c] = cpc[c] /\ kind'[c] = kind[c] /\ cid'[c] = cid[c]
  BY <1>3, <1>t DEF CallerBegins, CallerStep, BeginSync, BeginAsync, BeginGet, Insert,
        InsertRejected, Announce, AnnounceFails, AfterAnnounce, TakeResponse, WaitExpires, ReadRow,
        CallerFails, Finished
<1>4. ASSUME CallerBegins(c) PROVE FALSE
  BY <1>4, <1>t DEF CallerBegins, BeginSync, BeginAsync, BeginGet
<1>5. ASSUME NEW a \in Actors, Insert(c, a) PROVE FALSE
  <2>1. nextId \in Ids /\ rows'[cid'[c]].state = "available"
    BY <1>5, <1>t DEF Insert
  <2> QED  BY <2>1 DEF Final
<1>6. ASSUME CallerStep(c), \A a \in Actors : ~Insert(c, a)
      PROVE  kind[c] = kind'[c] /\ cpc[c] \in {"announce", "wait"} /\ cid'[c] = cid[c]
  BY <1>6, <1>t DEF CallerStep, InsertRejected, Announce, AnnounceFails, AfterAnnounce,
        TakeResponse, WaitExpires, ReadRow, CallerFails, Finished
<1>7. CASE Crash
  BY <1>7, <1>t DEF Crash
<1> QED  BY <1>1, <1>2, <1>3, <1>4, <1>5, <1>6, <1>7, ListenWriters

\* A response stays on its way while nothing is taken from where it is.
LEMMA WayStays ==
    ASSUME NEW c \in Callers, ResponseOnItsWay(c), cid'[c] = cid[c], NotifiersStay,
           stream' = stream, inbox'[c] = inbox[c]
    PROVE  ResponseOnItsWay(c)'
BY DEF ResponseOnItsWay, NotifiersStay

\* The response of a synchronous caller goes from the worker to the stream and from there into
\* its responseCh, or finds that full.
LEMMA WayGoesOn ==
    ASSUME IInv, [Next]_vars, NEW c \in Callers,
           faults' = 0, c \in subs, cpc'[c] \in {"announce", "wait"}, cid'[c] = cid[c],
           cid[c] \in Ids, rows[cid[c]].state \in Final, ResponseOnItsWay(c)
    PROVE  ResponseOnItsWay(c)' \/ c \in missed'
<1> USE ResponsesDiffer
<1> DEFINE i == cid[c]
<1>t. /\ stream \in Seq(Messages) /\ inbox \in [Callers -> Seq(Ids)]
      /\ wpc \in [Workers -> WorkerPC] /\ wid \in [Workers -> Ids \cup {NoId}]
      /\ cpc \in [Callers -> CallerPC] /\ cid \in [Callers -> Ids \cup {NoId}]
      /\ faults \in Nat /\ TypeOK
  BY BoundsAssumption DEF IInv, TypeOK
<1>f. \A f : ~Fault(f)
  BY <1>t DEF Fault
<1>w. /\ \A w \in Workers : wpc'[w] = "notify" /\ wid'[w] = i => ResponseOnItsWay(c)'
      /\ \A k \in 1 .. Len(stream') : stream'[k] = Response(i) => ResponseOnItsWay(c)'
      /\ \A k \in 1 .. Len(inbox'[c]) : inbox'[c][k] = i => ResponseOnItsWay(c)'
  BY DEF ResponseOnItsWay
<1>o. \/ \E w \in Workers : wpc[w] = "notify" /\ wid[w] = i
      \/ \E k \in 1 .. Len(stream) : stream[k] = Response(i)
      \/ \E k \in 1 .. Len(inbox[c]) : inbox[c][k] = i
  BY DEF ResponseOnItsWay
<1>1. CASE UNCHANGED <<stream, inbox>> /\ NotifiersStay
  BY <1>1, WayStays
<1>2. ASSUME NEW w \in Workers, NEW j \in Ids, NEW o \in Final, ReturnCommit(w, j, o)
      PROVE  ResponseOnItsWay(c)'
  <2>1. UNCHANGED <<stream, inbox>> /\ wpc[w] = "idle"
    BY <1>2 DEF ReturnCommit
  <2>2. \/ wpc' = wpc /\ wid' = wid
        \/ wpc' = [wpc EXCEPT ![w] = "notify"] /\ wid' = [wid EXCEPT ![w] = j]
    BY <1>2 DEF ReturnCommit, Goto
  <2>3. NotifiersStay
    BY <1>t, <2>1, <2>2 DEF NotifiersStay
  <2> QED  BY <2>1, <2>3, WayStays
<1>3. ASSUME NEW w \in Workers, ReturnNotify(w) PROVE ResponseOnItsWay(c)'
  <2>1. /\ wpc[w] = "notify" /\ stream' = Append(stream, Response(wid[w])) /\ inbox' = inbox
        /\ \A v \in Workers \ {w} : wpc'[v] = wpc[v] /\ wid'[v] = wid[v]
    BY <1>3, <1>t DEF ReturnNotify, Goto, Sent
  <2>2. Response(wid[w]) \in Messages
    BY <2>1, MessageIsTyped DEF IInv, WorkerInv
  <2>3. /\ Len(stream) \in Nat /\ Len(stream') = Len(stream) + 1
        /\ \A k \in 1 .. Len(stream) + 1 :
               stream'[k] = IF k = Len(stream) + 1 THEN Response(wid[w]) ELSE stream[k]
    BY <1>t, <2>1, <2>2, AppendHolds
  <2>4. stream'[Len(stream')] = Response(wid[w]) /\ Len(stream') \in 1 .. Len(stream')
    BY <2>3
  <2>5. \A k \in 1 .. Len(stream) : k \in 1 .. Len(stream') /\ stream'[k] = stream[k]
    BY <2>3
  <2> HIDE DEF i
  <2> QED  BY <1>o, <1>w, <2>1, <2>4, <2>5
<1>4. ASSUME NEW d \in Callers, Announce(d) PROVE ResponseOnItsWay(c)'
  <2> DEFINE m == Invoke(rows[cid[d]].queue)
  <2>1. stream' = Append(stream, m) /\ UNCHANGED <<inbox, wpc, wid>>
    BY <1>4 DEF Announce, AfterAnnounce, Sent
  <2>2. m \in Messages
    BY <1>4, MessageIsTyped DEF IInv, CallerInv, CallerOk, TableInv, Announce
  <2> HIDE DEF m, i
  <2>3. \A k \in 1 .. Len(stream) : k \in 1 .. Len(stream') /\ stream'[k] = stream[k]
    BY <1>t, <2>1, <2>2, AppendHolds
  <2> QED  BY <1>o, <1>w, <2>1, <2>3
<1>5. ASSUME NEW d \in Callers, TakeResponse(d) PROVE ResponseOnItsWay(c)'
  <2>1. /\ UNCHANGED <<stream, wpc, wid>> /\ inbox[d] # << >> /\ inbox'[d] = Tail(inbox[d])
        /\ \A e \in Callers \ {d} : inbox'[e] = inbox[e]
    BY <1>5, <1>t DEF TakeResponse
  <2>2. NotifiersStay
    BY <2>1 DEF NotifiersStay
  <2>3. CASE d # c
    BY <2>1, <2>2, <2>3, WayStays
  <2>4. CASE d = c
    <3>1. ~IsMine(c)
      BY <1>5, <1>t, <2>4 DEF TakeResponse
    <3>2. inbox[c] \in Seq(Ids) /\ inbox[c] # << >> /\ inbox'[c] = Tail(inbox[c])
      BY <1>t, <2>1, <2>4
    <3>3. /\ Head(inbox[c]) = inbox[c][1]
          /\ \A k \in 1 .. Len(inbox[c]) : k # 1 =>
                 k - 1 \in 1 .. Len(inbox'[c]) /\ inbox'[c][k - 1] = inbox[c][k]
      BY <3>2, TailHolds
    <3>4. inbox[c][1] # i
      BY <3>1, <3>3 DEF IsMine
    <3> HIDE DEF i
    <3> QED  BY <1>o, <1>w, <2>1, <3>3, <3>4
  <2> QED  BY <2>3, <2>4
<1>6. ASSUME stream # << >>, stream' = Tail(stream)
      PROVE  /\ 1 \in 1 .. Len(stream) /\ Head(stream) = stream[1]
             /\ \A k \in 1 .. Len(stream) : k # 1 =>
                    k - 1 \in 1 .. Len(stream') /\ stream'[k - 1] = stream[k]
  BY <1>6, <1>t, TailHolds
<1>7. CASE DeliverInvoke
  <2>1. stream # << >> /\ stream' = Tail(stream) /\ Head(stream).topic = "invoke" /\ inbox' = inbox
    BY <1>7 DEF DeliverInvoke
  <2>2. NotifiersStay
    BY <1>7, <1>t DEF DeliverInvoke, Dispatch, Parked, AfterToken, NotifiersStay
  <2>3. stream[1] # Response(i)
    BY <1>6, <2>1
  <2> HIDE DEF i
  <2>4. ASSUME NEW k \in 1 .. Len(stream), stream[k] = Response(i)
        PROVE  ResponseOnItsWay(c)'
    <3>1. k - 1 \in 1 .. Len(stream') /\ stream'[k - 1] = Response(i)
      BY <1>6, <2>1, <2>3, <2>4
    <3> QED  BY <1>w, <3>1
  <2>5. ASSUME NEW w \in Workers, wpc[w] = "notify", wid[w] = i
        PROVE  ResponseOnItsWay(c)'
    BY <1>w, <2>2, <2>5 DEF NotifiersStay
  <2> QED  BY <1>o, <1>w, <2>1, <2>4, <2>5
<1>8. CASE DeliverResponse
  <2>1. /\ stream # << >> /\ stream' = Tail(stream) /\ UNCHANGED <<wpc, wid>>
        /\ inbox'[c] = IF Accepts(c) THEN Append(inbox[c], Head(stream).id) ELSE inbox[c]
    BY <1>8 DEF DeliverResponse
  <2>2. inbox[c] \in Seq(Ids) /\ Head(stream).id \in Ids
    BY <1>6, <1>8, <1>t, <2>1 DEF DeliverResponse
  <2>3. \A k \in 1 .. Len(inbox[c]) : k \in 1 .. Len(inbox'[c]) /\ inbox'[c][k] = inbox[c][k]
    BY <2>1, <2>2, AppendHolds
  <2>4. ASSUME stream[1] = Response(i) PROVE ResponseOnItsWay(c)' \/ c \in missed'
    <3>1. Head(stream).id = i
      BY <1>6, <2>1, <2>4
    <3>2. CASE Len(inbox[c]) >= ResponseBuffer
      BY <1>8, <3>1, <3>2 DEF DeliverResponse
    <3>3. CASE ~(Len(inbox[c]) >= ResponseBuffer)
      <4>1. Len(inbox[c]) < ResponseBuffer
        BY <2>2, <3>3, BoundsAssumption
      <4>2. inbox'[c] = Append(inbox[c], i)
        BY <2>1, <3>1, <4>1 DEF Accepts
      <4>3. Len(inbox'[c]) \in 1 .. Len(inbox'[c]) /\ inbox'[c][Len(inbox'[c])] = i
        BY <2>2, <4>2, AppendHolds
      <4> HIDE DEF i
      <4> QED  BY <1>w, <4>3
    <3> QED  BY <3>2, <3>3
  <2> HIDE DEF i
  <2>5. ASSUME NEW k \in 1 .. Len(stream), stream[k] = Response(i), k # 1
        PROVE  ResponseOnItsWay(c)'
    <3>1. k - 1 \in 1 .. Len(stream') /\ stream'[k - 1] = Response(i)
      BY <1>6, <2>1, <2>5
    <3> QED  BY <1>w, <3>1
  <2>6. ASSUME NEW k \in 1 .. Len(inbox[c]), inbox[c][k] = i
        PROVE  ResponseOnItsWay(c)'
    BY <1>w, <2>3, <2>6
  <2>7. ASSUME NEW w \in Workers, wpc[w] = "notify", wid[w] = i
        PROVE  ResponseOnItsWay(c)'
    BY <1>w, <2>1, <2>7
  <2> QED  BY <1>o, <2>4, <2>5, <2>6, <2>7
<1>9. ~LoseNotification /\ ~Crash
  BY <1>f DEF LoseNotification, Crash
<1> QED
  BY <1>t, <1>1, <1>2, <1>3, <1>4, <1>5, <1>7, <1>8, <1>9, MessageMoves

\* Only the delivery of a response can find a responseCh full, and what was missed is missed.
LEMMA MissedWriters ==
    ASSUME [Next]_vars
    PROVE  (missed' = missed \/ DeliverResponse) /\ missed \subseteq missed'
<1>1. missed' = missed \/ DeliverResponse
  BY DEF Next, CallerBegins, CallerStep, WorkerBegins, WorkerStep, Delivery, vars, BeginSync,
     BeginAsync, BeginGet, Insert, InsertRejected, Announce, AnnounceFails, AfterAnnounce,
     TakeResponse, WaitExpires, ReadRow, CallerFails, BeginGetNext, ClientGone, ReturnCommit,
     PollTakes, PollFindsNone, PollCancelled, PollFails, WaitFor, WaitForExpires, Reply,
     ReturnNotify, ReturnNotifyFails, DeliverInvoke, LoseNotification, Crash
<1>2. DeliverResponse => missed \subseteq missed'
  BY DEF DeliverResponse
<1> QED  BY <1>1, <1>2

\* A synchronous caller misses its response at a full responseCh only, whoever moves.
LEMMA HeardStep == IInv /\ HeardInv /\ [Next]_vars => HeardInv'
<1> SUFFICES ASSUME IInv, HeardInv, [Next]_vars, NEW c \in Callers, kind'[c] = "sync",
                    faults' = 0
             PROVE  /\ cpc'[c] \in {"insert", "announce", "wait"} => c \in subs'
                    /\ cpc'[c] \in {"announce", "wait"} /\ rows'[cid'[c]].state \in Final
                           => ResponseOnItsWay(c)' \/ c \in missed'
  BY DEF HeardInv
<1>1. cpc'[c] \in {"insert", "announce", "wait"} => c \in subs'
  BY ListensStep
<1>2. ASSUME cpc'[c] \in {"announce", "wait"}, rows'[cid'[c]].state \in Final
      PROVE  ResponseOnItsWay(c)' \/ c \in missed'
  <2>1. /\ kind[c] = "sync" /\ cpc[c] \in {"announce", "wait"}
        /\ cid'[c] = cid[c] /\ cid[c] \in Ids
    BY <1>2, WaitedBefore
  <2>2. faults = 0 /\ c \in subs
    BY <2>1, FaultsGrow DEF IInv, HeardInv
  <2>3. CASE rows[cid[c]].state \in Final
    <3>1. ResponseOnItsWay(c) \/ c \in missed
      BY <2>1, <2>2, <2>3 DEF HeardInv
    <3>2. CASE ResponseOnItsWay(c)
      BY <1>2, <2>1, <2>2, <2>3, <3>2, WayGoesOn
    <3> QED  BY <3>1, <3>2, MissedWriters
  <2>4. ASSUME NEW w \in Workers, NEW o \in Final, ReturnCommit(w, cid[c], o)
        PROVE  ResponseOnItsWay(c)'
    <3>1. wpc \in [Workers -> WorkerPC] /\ wid \in [Workers -> Ids \cup {NoId}]
      BY DEF IInv, TypeOK
    <3>2. ~Fault("dberror")
      BY <2>2 DEF Fault
    <3>3. wpc'[w] = "notify" /\ wid'[w] = cid[c]
      BY <2>4, <3>1, <3>2 DEF ReturnCommit, Goto
    <3> QED  BY <2>1, <3>3 DEF ResponseOnItsWay
  <2>5. rows'[cid[c]].state \in Final
    BY <1>2, <2>1
  <2> QED  BY <2>1, <2>3, <2>4, <2>5, NewlyFinal
<1> QED  BY <1>1, <1>2

\* At the start nothing is announced, and nobody waits.
LEMMA InitOnce == Init => OnceInv /\ HeardInv
BY DEF Init, OnceInv, HeardInv

\* No row is announced twice, under any retries, crashes and losses.
THEOREM AnnouncedOnce == Spec => []OnceInv
BY InitOnce, OnceStep, InductiveInvariant, PTL DEF Spec

\* The response of a synchronous call whose row is final is on its way, for every number of
\* callers, workers and rows, unless it has found the call's responseCh full: the call
\* subscribes before it inserts.
THEOREM SyncIsAnswered == Spec => []SyncResponseNotMissed
<1>1. Init => HeardInv
  BY InitOnce
<1>2. HeardInv => SyncResponseNotMissed
  BY DEF HeardInv, SyncResponseNotMissed
<1> QED  BY <1>1, <1>2, HeardStep, InductiveInvariant, PTL DEF Spec

-------------------------------------------------------------------------------
(* A responseCh overflows.  The caller's own response is dropped, but its row  *)
(* was final by then, so the read that its timer leads to returns a result.    *)

\* A request has a row once its insert is answered, and a subscription only while the handler of
\* a synchronous or waiting request runs.
PlaceInv ==
    \A c \in Callers :
        /\ cpc[c] \in {"idle", "insert"} => cid[c] = NoId
        /\ c \in subs => kind[c] \in {"sync", "get"} /\ cpc[c] \notin {"idle", "done"}

OthersFinal(i) == {j \in Ids \ {i} : rows[j].state \in Final}

\* A caller that missed its response did so after its row was final.
MissedInv ==
    \A c \in missed :
        /\ cid[c] \in Ids /\ rows[cid[c]].state \in Final
        /\ kind[c] \in {"sync", "get"} /\ cpc[c] \notin {"idle", "insert"}
        /\ cpc[c] = "done" /\ answer[c].via # "failed" => answer[c].state \in Final
        /\ Cardinality(OthersFinal(cid[c])) >= ResponseBuffer

\* The handlers keep their places: the id comes with the insert, the subscription goes with the
\* return.
LEMMA PlaceStep == IInv /\ PlaceInv /\ [Next]_vars => PlaceInv'
<1> SUFFICES ASSUME IInv, PlaceInv, [Next]_vars, NEW c \in Callers
             PROVE  /\ cpc'[c] \in {"idle", "insert"} => cid'[c] = NoId
                    /\ c \in subs' => kind'[c] \in {"sync", "get"} /\ cpc'[c] \notin {"idle", "done"}
  BY DEF PlaceInv
<1>t. /\ cpc \in [Callers -> CallerPC] /\ kind \in [Callers -> {"none", "sync", "async", "get"}]
      /\ cid \in [Callers -> Ids \cup {NoId}]
  BY DEF IInv, TypeOK
<1>i. /\ cpc[c] \in {"idle", "insert"} => cid[c] = NoId
      /\ c \in subs => kind[c] \in {"sync", "get"} /\ cpc[c] \notin {"idle", "done"}
  BY DEF PlaceInv
<1>1. CASE UNCHANGED <<cpc, kind, cid, subs>>
  BY <1>1, <1>i
<1>2. ASSUME NEW d \in Callers, CallerBegins(d) \/ CallerStep(d), d # c
      PROVE  /\ cpc'[c] = cpc[c] /\ kind'[c] = kind[c] /\ cid'[c] = cid[c]
             /\ c \in subs' => c \in subs
  BY <1>2, <1>t DEF CallerBegins, CallerStep, BeginSync, BeginAsync, BeginGet, Subscribe, Insert,
        InsertRejected, Announce, AnnounceFails, AfterAnnounce, TakeResponse, WaitExpires, ReadRow,
        CallerFails, Finished
<1>3. CASE CallerBegins(c)
  BY <1>3, <1>i, <1>t DEF CallerBegins, BeginSync, BeginAsync, BeginGet, Subscribe
<1>4. CASE CallerStep(c)
  <2>1. /\ kind'[c] = kind[c] /\ cpc'[c] \notin {"idle", "insert"}
        /\ cpc[c] # "idle" /\ cpc'[c] = "done" => c \notin subs'
        /\ c \in subs' => c \in subs
    BY <1>4, <1>t DEF CallerStep, Insert, InsertRejected, Announce, AnnounceFails, AfterAnnounce,
          TakeResponse, WaitExpires, ReadRow, CallerFails, Finished
  <2> QED  BY <1>i, <2>1
<1>5. CASE Crash
  BY <1>5, <1>i, <1>t DEF Crash
<1> QED  BY <1>i, <1>1, <1>2, <1>3, <1>4, <1>5, ListenWriters

\* Nothing that happens to a caller afterwards takes the row or the result from it.
LEMMA MissedStays ==
    ASSUME IInv, [Next]_vars, NEW c \in Callers, cid[c] \in Ids, rows[cid[c]].state \in Final,
           kind[c] \in {"sync", "get"}, cpc[c] \notin {"idle", "insert"},
           cpc[c] = "done" /\ answer[c].via # "failed" => answer[c].state \in Final
    PROVE  /\ cid'[c] = cid[c] /\ kind'[c] \in {"sync", "get"} /\ cpc'[c] \notin {"idle", "insert"}
           /\ cpc'[c] = "done" /\ answer'[c].via # "failed" => answer'[c].state \in Final
<1>t. /\ cpc \in [Callers -> CallerPC] /\ kind \in [Callers -> {"none", "sync", "async", "get"}]
      /\ cid \in [Callers -> Ids \cup {NoId}] /\ answer \in [Callers -> Answer]
  BY DEF IInv, TypeOK
<1>1. CASE UNCHANGED <<cpc, kind, cid, answer>>
  BY <1>1
<1>2. ASSUME NEW d \in Callers, CallerBegins(d) \/ CallerStep(d), d # c
      PROVE  cpc'[c] = cpc[c] /\ kind'[c] = kind[c] /\ cid'[c] = cid[c] /\ answer'[c] = answer[c]
  BY <1>2, <1>t DEF CallerBegins, CallerStep, BeginSync, BeginAsync, BeginGet, Insert,
        InsertRejected, Announce, AnnounceFails, AfterAnnounce, TakeResponse, WaitExpires, ReadRow,
        CallerFails, Finished
<1>3. ~CallerBegins(c)
  BY DEF CallerBegins, BeginSync, BeginAsync, BeginGet
<1>4. CASE CallerStep(c)
  <2>1. \A a \in Actors : ~Insert(c, a)
    BY DEF Insert
  <2>2. /\ cid'[c] = cid[c] /\ kind'[c] = kind[c] /\ cpc'[c] \notin {"idle", "insert"}
        /\ \/ cpc'[c] # "done"
           \/ answer'[c].via = "failed"
           \/ answer'[c].state = rows[cid[c]].state
    BY <1>4, <1>t, <2>1 DEF CallerStep, InsertRejected, Announce, AnnounceFails, AfterAnnounce,
          TakeResponse, WaitExpires, ReadRow, CallerFails, Finished, Latest
  <2> QED  BY <2>2
<1>5. CASE Crash
  BY <1>5, <1>t DEF Crash, Via
<1>6. \/ UNCHANGED <<cpc, kind, cid, answer>>
      \/ \E d \in Callers : CallerBegins(d) \/ CallerStep(d)
      \/ Crash
  BY DEF Next, WorkerBegins, WorkerStep, Delivery, vars, BeginGetNext, ClientGone, ReturnCommit,
     PollTakes, PollFindsNone, PollCancelled, PollFails, WaitFor, WaitForExpires, Reply,
     ReturnNotify, ReturnNotifyFails, DeliverInvoke, DeliverResponse, LoseNotification
<1> QED  BY <1>1, <1>2, <1>3, <1>4, <1>5, <1>6

\* Whoever misses a response has a full responseCh: as many results of other rows, each once.
LEMMA MissedStep == IInv /\ OnceInv /\ PlaceInv /\ MissedInv /\ [Next]_vars => MissedInv'
<1> SUFFICES ASSUME IInv, OnceInv, PlaceInv, MissedInv, [Next]_vars, NEW c \in missed'
             PROVE  /\ cid'[c] \in Ids /\ rows'[cid'[c]].state \in Final
                    /\ kind'[c] \in {"sync", "get"} /\ cpc'[c] \notin {"idle", "insert"}
                    /\ cpc'[c] = "done" /\ answer'[c].via # "failed" => answer'[c].state \in Final
                    /\ Cardinality(OthersFinal(cid[c])') >= ResponseBuffer
  BY DEF MissedInv
<1>f. IsFiniteSet(Ids)
  BY FS_Interval, BoundsAssumption DEF Ids
<1>1. ASSUME c \in Callers, cid[c] \in Ids, rows[cid[c]].state \in Final,
             kind[c] \in {"sync", "get"}, cpc[c] \notin {"idle", "insert"},
             cpc[c] = "done" /\ answer[c].via # "failed" => answer[c].state \in Final,
             Cardinality(OthersFinal(cid[c])) >= ResponseBuffer
      PROVE  /\ cid'[c] \in Ids /\ rows'[cid'[c]].state \in Final
             /\ kind'[c] \in {"sync", "get"} /\ cpc'[c] \notin {"idle", "insert"}
             /\ cpc'[c] = "done" /\ answer'[c].via # "failed" => answer'[c].state \in Final
             /\ Cardinality(OthersFinal(cid[c])') >= ResponseBuffer
  <2>1. /\ cid'[c] = cid[c] /\ kind'[c] \in {"sync", "get"} /\ cpc'[c] \notin {"idle", "insert"}
        /\ cpc'[c] = "done" /\ answer'[c].via # "failed" => answer'[c].state \in Final
    BY <1>1, MissedStays
  <2>2. TableGrows
    BY TableStep
  <2>3. OthersFinal(cid[c]) \subseteq OthersFinal(cid[c])'
    BY <2>1, <2>2 DEF OthersFinal, TableGrows
  <2>4. IsFiniteSet(OthersFinal(cid[c])') /\ IsFiniteSet(OthersFinal(cid[c]))
    BY <1>f, FS_Subset DEF OthersFinal
  <2>5. Cardinality(OthersFinal(cid[c])) <= Cardinality(OthersFinal(cid[c])')
    BY <2>3, <2>4, FS_Subset
  <2>6. Cardinality(OthersFinal(cid[c])') \in Nat /\ Cardinality(OthersFinal(cid[c])) \in Nat
    BY <2>4, FS_CardinalityType
  <2> HIDE DEF OthersFinal
  <2>7. Cardinality(OthersFinal(cid[c])') >= ResponseBuffer
    BY <1>1, <2>5, <2>6, BoundsAssumption
  <2> QED  BY <1>1, <2>1, <2>2, <2>7 DEF TableGrows
<1>2. CASE c \in missed
  BY <1>1, <1>2 DEF MissedInv, IInv, TypeOK
<1>3. CASE c \notin missed
  <2>1. /\ DeliverResponse /\ c \in subs /\ Len(inbox[c]) >= ResponseBuffer
        /\ cid[c] = Head(stream).id /\ stream # << >> /\ Head(stream).topic = "response"
    BY <1>3, MissedWriters DEF DeliverResponse
  <2>2. c \in Callers /\ inbox[c] \in Seq(Ids) /\ stream \in Seq(Messages)
    BY <2>1 DEF IInv, TypeOK
  <2>3. 1 \in 1 .. Len(stream) /\ Head(stream) = stream[1] /\ stream[1] \in Messages
    BY <2>1, <2>2, TailHolds
  <2>4. /\ cid[c] \in Ids /\ rows[cid[c]].state \in Final /\ stream[1] = Response(cid[c])
    BY <2>1, <2>3, ResponsesDiffer DEF IInv, ResponsesAreTrue
  <2>5. kind[c] \in {"sync", "get"} /\ cpc[c] \notin {"idle", "insert", "done"}
    BY <2>1, <2>2, <2>4 DEF PlaceInv, NoId, Ids
  <2>6. \A k \in 1 .. Len(inbox[c]) :
            /\ inbox[c][k] \in OthersFinal(cid[c])
            /\ \A l \in 1 .. Len(inbox[c]) : inbox[c][k] = inbox[c][l] => k = l
    BY <2>2, <2>3, <2>4 DEF IInv, ResponsesAreTrue, OnceInv, OthersFinal
  <2>7. IsFiniteSet(OthersFinal(cid[c]))
    BY <1>f, FS_Subset DEF OthersFinal
  <2> HIDE DEF OthersFinal
  <2>8. Len(inbox[c]) \in Nat /\ inbox[c] \in [1 .. Len(inbox[c]) -> OthersFinal(cid[c])]
    BY <2>2, <2>6, LenProperties
  <2>9. Len(inbox[c]) <= Cardinality(OthersFinal(cid[c]))
    BY <2>6, <2>7, <2>8, DifferentRowsFit
  <2>10. Cardinality(OthersFinal(cid[c])) \in Nat
    BY <2>7, FS_CardinalityType
  <2>11. Cardinality(OthersFinal(cid[c])) >= ResponseBuffer
    BY <2>1, <2>8, <2>9, <2>10, BoundsAssumption
  <2> QED  BY <1>1, <2>2, <2>4, <2>5, <2>11
<1> QED  BY <1>2, <1>3

\* A caller whose responseCh overflowed is told the result by its timer's read, unless that read
\* fails, and only the results of as many others as the channel has places can do that to it:
\* for every size of the channel and every number of rows and callers, through crashes and losses.
THEOREM MissedAreRead == Spec => []MissedResponsesAreRead
<1>1. Init => PlaceInv /\ MissedInv
  BY DEF Init, PlaceInv, MissedInv
<1>2. MissedInv => MissedResponsesAreRead
  BY DEF MissedInv, MissedResponsesAreRead, OthersFinal
<1> QED  BY <1>1, <1>2, PlaceStep, MissedStep, AnnouncedOnce, InductiveInvariant, PTL DEF Spec

-------------------------------------------------------------------------------
(* A fault costs one wake-up at most.  The inequality of NoLostWakeup is not   *)
(* inductive: it says nothing while nobody is parked, when Dispatch buffers    *)
(* tokens and drops those that find the channel full, and nothing of a client  *)
(* that has hung up, whose handler is yet to spend a wake-up.  Counting the    *)
(* buffered tokens and those handlers makes it so until a token is dropped;    *)
(* from then on the buffer holds one for every handler between its poll and    *)
(* its wait, so none of them parks, until one polls and finds nothing left.    *)

\* Handlers that found nothing and have not reached WaitFor's select.
Gapping(a) == {w \in Workers : ActorOf[w] = a /\ wpc[w] = "gap"}

\* Handlers whose client has hung up: the next poll of each takes nothing.
GoneOf(a) == {w \in gone : ActorOf[w] = a}

Served(a) == {w \in Workers : ActorOf[w] = a}

Owed(a)   == Cardinality(Available(a)) + Cardinality(GoneOf(a))
Coming(a) == Cardinality(Announcing(a)) + Cardinality(InStream(a)) + Cardinality(Polling(a))
                 + tokens[a] + faults

Wakes(a) == \/ Owed(a) <= Coming(a)
            \/ Parked(a) = {} /\ Cardinality(Gapping(a)) <= tokens[a]

Busy == {"poll", "lastPoll", "gap", "parked"}

\* A handler in the loop of GetNextInvocation listens, none is parked beside a token, and only
\* such a handler's client is noticed to hang up.
ListenInv ==
    /\ \A w \in Workers : wpc[w] \in Busy => ActorOf[w] \in channels
    /\ \A w \in Workers : wpc[w] = "parked" => tokens[ActorOf[w]] = 0
    /\ \A w \in gone : wpc[w] \in Busy

WakeInv == ListenInv /\ Cardinality(gone) <= faults /\ \A a \in Actors : Wakes(a)

\* The channel of each actor has a place for every GetNext handler of that actor (32 in the code).
RoomForAll ==
    /\ IsFiniteSet(Workers) /\ IsFiniteSet(Callers)
    /\ \A a \in Actors : Cardinality(Served(a)) <= DispatchBuffer

\* What one step of a GetNext or Return handler does to the dispatcher's channel.
LEMMA HandlerMoves ==
    ASSUME TypeOK, ListenInv, NEW w \in Workers, WorkerBegins(w) \/ WorkerStep(w)
    PROVE  \E pc \in WorkerPC :
               /\ wpc' = [wpc EXCEPT ![w] = pc] /\ channels \subseteq channels'
               /\ \A v : v # w => (v \in gone' <=> v \in gone)
               /\ w \in gone' => pc \in Busy
               /\ pc \in Busy => wpc[w] \in Busy \/ ActorOf[w] \in channels'
               /\ pc = "parked" => tokens[ActorOf[w]] = 0
               /\ \/ tokens' = tokens
                  \/ tokens[ActorOf[w]] > 0 /\ tokens' = [tokens EXCEPT ![ActorOf[w]] = @ - 1]
<1> DEFINE Moved(pc) ==
               /\ wpc' = [wpc EXCEPT ![w] = pc] /\ channels \subseteq channels'
               /\ \A v : v # w => (v \in gone' <=> v \in gone)
               /\ w \in gone' => pc \in Busy
               /\ pc \in Busy => wpc[w] \in Busy \/ ActorOf[w] \in channels'
               /\ pc = "parked" => tokens[ActorOf[w]] = 0
               /\ \/ tokens' = tokens
                  \/ tokens[ActorOf[w]] > 0 /\ tokens' = [tokens EXCEPT ![ActorOf[w]] = @ - 1]
<1>t. wpc \in [Workers -> WorkerPC] /\ (w \in gone => wpc[w] \in Busy)
  BY DEF TypeOK, ListenInv
<1>1. ASSUME NEW pc \in WorkerPC, Goto(w, pc), UNCHANGED dispatchVars,
             pc \in Busy => wpc[w] \in Busy, pc # "parked",
             w \in gone => pc \in Busy \cup {"idle"}
      PROVE  Moved(pc)
  BY <1>1 DEF Goto
<1>2. {"idle", "poll", "lastPoll", "gap", "parked", "reply", "notify"} = WorkerPC
  BY DEF WorkerPC
<1>3. ASSUME NEW i \in Ids, PollTakes(w, i) PROVE Moved("reply") \/ Moved("idle")
  BY <1>1, <1>2, <1>3 DEF PollTakes, Busy
<1>4. ASSUME PollFindsNone(w) PROVE Moved("gap") \/ Moved("idle")
  BY <1>1, <1>2, <1>4 DEF PollFindsNone, Busy
<1>5. ASSUME PollCancelled(w) \/ PollFails(w) \/ Reply(w) \/ ReturnNotify(w) \/ ReturnNotifyFails(w)
      PROVE  Moved("idle")
  BY <1>1, <1>2, <1>5 DEF PollCancelled, PollFails, Reply, ReturnNotify, ReturnNotifyFails, Busy
<1>6. ASSUME WaitForExpires(w) PROVE Moved("lastPoll")
  BY <1>1, <1>2, <1>6 DEF WaitForExpires, AfterTimeout, Busy
<1>7. ASSUME NEW i \in Ids, NEW o \in Final, ReturnCommit(w, i, o) PROVE Moved("notify") \/ Moved("idle")
  <2>1. wpc[w] = "idle" /\ w \notin gone
    BY <1>7, <1>t DEF ReturnCommit, Busy
  <2>2. CASE UNCHANGED workerVars
    <3>1. wpc' = [wpc EXCEPT ![w] = "idle"]
      BY <1>t, <2>1, <2>2
    <3>2. UNCHANGED dispatchVars
      BY <1>7 DEF ReturnCommit
    <3> QED  BY <2>1, <2>2, <3>1, <3>2 DEF Busy
  <2>3. CASE Goto(w, "notify")
    BY <1>1, <1>2, <1>7, <2>1, <2>3 DEF ReturnCommit, Busy
  <2> QED  BY <1>7, <2>2, <2>3 DEF ReturnCommit
<1>8. ASSUME BeginGetNext(w) PROVE Moved("poll")
  <2>1. Goto(w, "poll") /\ channels' = channels \cup {ActorOf[w]} /\ tokens' = tokens
    BY <1>8 DEF BeginGetNext, Listening
  <2> QED  BY <2>1 DEF Goto, Busy
<1>9. ASSUME WaitFor(w) PROVE Moved("poll") \/ Moved("parked")
  BY <1>9 DEF WaitFor, Goto, AfterToken, Busy
<1>10. ASSUME ClientGone(w) PROVE Moved(wpc[w])
  <2>1. wpc' = [wpc EXCEPT ![w] = wpc[w]] /\ wpc[w] \in Busy /\ gone' = gone \cup {w}
    BY <1>10, <1>t DEF ClientGone, Busy
  <2>2. UNCHANGED dispatchVars
    BY <1>10 DEF ClientGone
  <2>3. wpc[w] = "parked" => tokens[ActorOf[w]] = 0
    BY DEF ListenInv
  <2> QED  BY <2>1, <2>2, <2>3
<1>11. wpc[w] \in WorkerPC
  BY <1>t
<1> HIDE DEF Moved
<1>12. \E pc \in WorkerPC : Moved(pc)
  BY <1>2, <1>3, <1>4, <1>5, <1>6, <1>7, <1>8, <1>9, <1>10, <1>11 DEF WorkerBegins, WorkerStep
<1> QED  BY <1>12 DEF Moved

\* Every other step leaves them alone, except Dispatch and a crash.
LEMMA HandlerWriters ==
    ASSUME [Next]_vars
    PROVE  \/ UNCHANGED <<wpc, gone, tokens, channels>>
           \/ \E w \in Workers : WorkerBegins(w) \/ WorkerStep(w)
           \/ DeliverInvoke \/ Crash
BY DEF Next, CallerBegins, CallerStep, Delivery, vars, BeginSync, BeginAsync, BeginGet,
      Insert, InsertRejected, Announce, AnnounceFails, AfterAnnounce, TakeResponse,
      WaitExpires, ReadRow, CallerFails, DeliverResponse, LoseNotification

\* Listen before the first poll, and Dispatch's preference for a blocked receiver.
LEMMA ListenStep == TypeOK /\ ListenInv /\ [Next]_vars => ListenInv'
<1> SUFFICES ASSUME TypeOK, ListenInv, [Next]_vars PROVE ListenInv'
  OBVIOUS
<1>t. /\ wpc \in [Workers -> WorkerPC] /\ tokens \in [Actors -> 0 .. DispatchBuffer]
      /\ gone \subseteq Workers /\ \A w \in Workers : ActorOf[w] \in Actors
  BY ActorOfAssumption DEF TypeOK
<1>1. CASE UNCHANGED <<wpc, gone, tokens, channels>>
  BY <1>1 DEF ListenInv
<1>2. ASSUME NEW w \in Workers, WorkerBegins(w) \/ WorkerStep(w) PROVE ListenInv'
  <2>1. PICK pc \in WorkerPC :
               /\ wpc' = [wpc EXCEPT ![w] = pc] /\ channels \subseteq channels'
               /\ \A v : v # w => (v \in gone' <=> v \in gone)
               /\ w \in gone' => pc \in Busy
               /\ pc \in Busy => wpc[w] \in Busy \/ ActorOf[w] \in channels'
               /\ pc = "parked" => tokens[ActorOf[w]] = 0
               /\ \/ tokens' = tokens
                  \/ tokens[ActorOf[w]] > 0 /\ tokens' = [tokens EXCEPT ![ActorOf[w]] = @ - 1]
    BY <1>2, HandlerMoves
  <2>2. wpc'[w] = pc /\ \A v \in Workers \ {w} : wpc'[v] = wpc[v]
    BY <1>t, <2>1
  <2>3. \A v \in Workers : wpc'[v] \in Busy => ActorOf[v] \in channels'
    BY <2>1, <2>2 DEF ListenInv
  <2>4. \A b \in Actors : tokens[b] = 0 => tokens'[b] = 0
    BY <1>t, <2>1
  <2>5. \A v \in Workers : wpc'[v] = "parked" => tokens[ActorOf[v]] = 0
    BY <2>1, <2>2 DEF ListenInv
  <2>6. \A v \in gone' : wpc'[v] \in Busy
    BY <1>t, <2>1, <2>2 DEF ListenInv
  <2> QED  BY <1>t, <2>3, <2>4, <2>5, <2>6 DEF ListenInv
<1>3. CASE DeliverInvoke
  <2> DEFINE a == Head(stream).queue
  <2>1. channels' = channels /\ gone' = gone
    BY <1>3 DEF DeliverInvoke
  <2>2. CASE Parked(a) # {}
    <3>1. PICK w \in Parked(a) : wpc' = [wpc EXCEPT ![w] = "poll"]
      BY <1>3, <2>2 DEF DeliverInvoke, Dispatch, AfterToken
    <3>2. w \in Workers /\ wpc[w] = "parked" /\ tokens' = tokens
      BY <1>3, <2>2, <3>1 DEF DeliverInvoke, Dispatch, Parked
    <3>3. wpc'[w] = "poll" /\ \A v \in Workers \ {w} : wpc'[v] = wpc[v]
      BY <1>t, <3>1, <3>2
    <3> QED  BY <1>t, <2>1, <3>2, <3>3 DEF ListenInv, Busy
  <2>3. CASE Parked(a) = {}
    <3>1. wpc' = wpc /\ tokens' = IF HasRoom(a) THEN [tokens EXCEPT ![a] = @ + 1] ELSE tokens
      BY <1>3, <2>3 DEF DeliverInvoke, Dispatch
    <3>2. \A v \in Workers : wpc[v] = "parked" => ActorOf[v] # a
      BY <2>3 DEF Parked
    <3>3. \A b \in Actors : b # a => tokens'[b] = tokens[b]
      BY <1>t, <3>1
    <3> HIDE DEF a
    <3> QED  BY <1>t, <2>1, <3>1, <3>2, <3>3 DEF ListenInv
  <2> QED  BY <2>2, <2>3
<1>4. CASE Crash
  BY <1>4 DEF Crash, ListenInv, Busy
<1> QED  BY <1>1, <1>2, <1>3, <1>4, HandlerWriters

\* Counting.
LEMMA CountAdd ==
    ASSUME NEW S, IsFiniteSet(S), NEW x, x \notin S
    PROVE  Cardinality(S \cup {x}) = Cardinality(S) + 1
BY FS_AddElement

\* Taking one element away takes one from the count.
LEMMA CountDrop ==
    ASSUME NEW S, IsFiniteSet(S), NEW x \in S
    PROVE  Cardinality(S \ {x}) = Cardinality(S) - 1
BY FS_RemoveElement

\* A subset counts no more.
LEMMA CountSubset ==
    ASSUME NEW S, NEW T, IsFiniteSet(T), S \subseteq T
    PROVE  IsFiniteSet(S) /\ Cardinality(S) <= Cardinality(T) /\ Cardinality(S) \in Nat
BY FS_Subset, FS_CardinalityType

\* One for a member, none for the others.
One(b) == IF b THEN 1 ELSE 0

\* Two sets that differ in one element at most.
LEMMA CountMoved ==
    ASSUME NEW S, NEW T, IsFiniteSet(S), NEW x, \A v : v # x => (v \in T <=> v \in S)
    PROVE  Cardinality(T) + One(x \in S) = Cardinality(S) + One(x \in T)
<1>1. Cardinality(S) \in Nat
  BY FS_CardinalityType
<1>2. CASE x \in S <=> x \in T
  <2>1. T = S
    BY <1>2
  <2> QED  BY <1>1, <2>1 DEF One
<1>3. CASE x \in S /\ x \notin T
  <2>1. T = S \ {x}
    BY <1>3
  <2> QED  BY <1>1, <1>3, <2>1, CountDrop DEF One
<1>4. CASE x \notin S /\ x \in T
  <2>1. T = S \cup {x}
    BY <1>4
  <2> QED  BY <1>1, <1>4, <2>1, CountAdd DEF One
<1> QED  BY <1>2, <1>3, <1>4

\* Only ClientGone adds to the handlers whose client has hung up, and it is a fault.
LEMMA GoneStep ==
    ASSUME IsFiniteSet(Workers), TypeOK, Cardinality(gone) <= faults, [Next]_vars
    PROVE  Cardinality(gone') <= faults'
<1>1. faults \in Nat /\ (faults' = faults \/ faults' = faults + 1)
  BY FaultsGrow
<1>2. IsFiniteSet(gone) /\ Cardinality(gone) \in Nat
  BY CountSubset DEF TypeOK
<1>3. gone' \subseteq gone \/ \E w \in Workers : ClientGone(w)
  BY HandlerWriters DEF WorkerBegins, WorkerStep, BeginGetNext, ReturnCommit, PollTakes,
     PollFindsNone, PollCancelled, PollFails, WaitFor, WaitForExpires, Reply, ReturnNotify,
     ReturnNotifyFails, Goto, DeliverInvoke, Crash
<1>4. CASE gone' \subseteq gone
  <2>1. Cardinality(gone') <= Cardinality(gone) /\ Cardinality(gone') \in Nat
    BY <1>2, <1>4, CountSubset
  <2> QED  BY <1>1, <1>2, <2>1
<1>5. ASSUME NEW w \in Workers, ClientGone(w) PROVE Cardinality(gone') <= faults'
  <2>1. w \notin gone /\ gone' = gone \cup {w} /\ faults' = faults + 1
    BY <1>5 DEF ClientGone, Fault
  <2>2. Cardinality(gone') = Cardinality(gone) + 1
    BY <1>2, <2>1, CountAdd
  <2> QED  BY <1>1, <1>2, <2>1, <2>2
<1> QED  BY <1>3, <1>4, <1>5

\* What is counted is finite.
LEMMA CountsAreFinite ==
    ASSUME RoomForAll, TypeOK, TypeOK', NEW a \in Actors
    PROVE  /\ IsFiniteSet(Available(a)) /\ IsFiniteSet(Announcing(a)) /\ IsFiniteSet(InStream(a))
           /\ IsFiniteSet(Polling(a)) /\ IsFiniteSet(Gapping(a)) /\ IsFiniteSet(GoneOf(a))
           /\ IsFiniteSet(Available(a)') /\ IsFiniteSet(Announcing(a)') /\ IsFiniteSet(InStream(a)')
           /\ IsFiniteSet(Polling(a)') /\ IsFiniteSet(Gapping(a)') /\ IsFiniteSet(GoneOf(a)')
<1>1. IsFiniteSet(Ids)
  BY FS_Interval, BoundsAssumption DEF Ids
<1>2. IsFiniteSet(1 .. Len(stream)) /\ IsFiniteSet(1 .. Len(stream'))
  BY FS_Interval DEF TypeOK
<1>3. IsFiniteSet(Workers) /\ IsFiniteSet(Callers)
  BY DEF RoomForAll
<1>4. Available(a) \subseteq Ids /\ Available(a)' \subseteq Ids
  BY DEF Available
<1>5. Announcing(a) \subseteq Callers /\ Announcing(a)' \subseteq Callers
  BY DEF Announcing
<1>6. InStream(a) \subseteq 1 .. Len(stream) /\ InStream(a)' \subseteq 1 .. Len(stream')
  BY DEF InStream
<1>7. Polling(a) \subseteq Workers /\ Polling(a)' \subseteq Workers
  BY DEF Polling
<1>8. Gapping(a) \subseteq Workers /\ Gapping(a)' \subseteq Workers
  BY DEF Gapping
<1>9. GoneOf(a) \subseteq Workers /\ GoneOf(a)' \subseteq Workers
  BY DEF GoneOf, TypeOK
<1> QED  BY <1>1, <1>2, <1>3, <1>4, <1>5, <1>6, <1>7, <1>8, <1>9, CountSubset

\* So their sizes are numbers, which arithmetic may compare.
LEMMA CountsAreNumbers ==
    ASSUME RoomForAll, TypeOK, TypeOK', NEW a \in Actors
    PROVE  /\ Cardinality(Available(a)) \in Nat /\ Cardinality(Announcing(a)) \in Nat
           /\ Cardinality(InStream(a)) \in Nat /\ Cardinality(Polling(a)) \in Nat
           /\ Cardinality(Gapping(a)) \in Nat /\ Cardinality(GoneOf(a)) \in Nat
           /\ Cardinality(Available(a)') \in Nat /\ Cardinality(Announcing(a)') \in Nat
           /\ Cardinality(InStream(a)') \in Nat /\ Cardinality(Polling(a)') \in Nat
           /\ Cardinality(Gapping(a)') \in Nat /\ Cardinality(GoneOf(a)') \in Nat
           /\ tokens[a] \in Nat /\ tokens'[a] \in Nat /\ tokens[a] <= DispatchBuffer
           /\ faults \in Nat /\ faults' \in Nat
<1>1. /\ tokens[a] \in Nat /\ tokens'[a] \in Nat /\ tokens[a] <= DispatchBuffer
      /\ faults \in Nat /\ faults' \in Nat
  BY BoundsAssumption DEF TypeOK
<1> QED  BY <1>1, CountsAreFinite, FS_CardinalityType

\* PgNotifyOne adds one notification, and the delivery goroutine takes the oldest.
LEMMA StreamGrows ==
    ASSUME TypeOK, NEW m \in Messages, stream' = Append(stream, m), NEW a \in Actors
    PROVE  IF m = Invoke(a) THEN /\ Len(stream) + 1 \notin InStream(a)
                                 /\ InStream(a)' = InStream(a) \cup {Len(stream) + 1}
                            ELSE InStream(a)' = InStream(a)
<1>1. stream \in Seq(Messages)
  BY DEF TypeOK
<1>2. /\ Len(stream) \in Nat /\ Len(stream') = Len(stream) + 1
      /\ \A k \in 1 .. Len(stream) + 1 : stream'[k] = IF k = Len(stream) + 1 THEN m ELSE stream[k]
  BY <1>1, AppendHolds
<1>3. \A k : k \in 1 .. Len(stream') <=> k \in 1 .. Len(stream) \/ k = Len(stream) + 1
  BY <1>2
<1>4. Len(stream) + 1 \notin 1 .. Len(stream)
  BY <1>2
<1>5. \A k : k \in InStream(a)' <=> k \in InStream(a) \/ (k = Len(stream) + 1 /\ m = Invoke(a))
  <2>1. \A k : k \in InStream(a)' <=> k \in 1 .. Len(stream') /\ stream'[k] = Invoke(a)
    BY DEF InStream
  <2>2. \A k : k \in InStream(a) <=> k \in 1 .. Len(stream) /\ stream[k] = Invoke(a)
    BY DEF InStream
  <2>3. \A k \in 1 .. Len(stream) : k \in 1 .. Len(stream') /\ stream'[k] = stream[k]
    BY <1>2
  <2>4. Len(stream) + 1 \in 1 .. Len(stream') /\ stream'[Len(stream) + 1] = m
    BY <1>2
  <2> QED  BY <1>3, <1>4, <2>1, <2>2, <2>3, <2>4
<1>6. Len(stream) + 1 \notin InStream(a)
  BY <1>4 DEF InStream
<1> QED  BY <1>5, <1>6

\* The delivery of the oldest notification counts for the actor it names only.
LEMMA StreamShrinks ==
    ASSUME TypeOK, stream # << >>, stream' = Tail(stream), NEW a \in Actors,
           IsFiniteSet(InStream(a))
    PROVE  Cardinality(InStream(a)') =
               IF Head(stream) = Invoke(a) THEN Cardinality(InStream(a)) - 1
                                           ELSE Cardinality(InStream(a))
<1> DEFINE old == InStream(a) \ {1}
           new == InStream(a)'
           f == [k \in new |-> k + 1]
<1>1. stream \in Seq(Messages)
  BY DEF TypeOK
<1>2. /\ 1 \in 1 .. Len(stream) /\ Head(stream) = stream[1]
      /\ \A k \in 1 .. Len(stream') :
             k \in Nat /\ k + 1 \in 1 .. Len(stream) /\ k + 1 # 1 /\ stream'[k] = stream[k + 1]
      /\ \A k \in 1 .. Len(stream) : k # 1
             => k - 1 \in 1 .. Len(stream') /\ stream'[k - 1] = stream[k]
  BY <1>1, TailHolds
<1>3. \A k \in new : k \in Nat /\ k + 1 \in old
  BY <1>2 DEF InStream
<1>4. \A k \in old : k - 1 \in new /\ (k - 1) + 1 = k
  BY <1>2 DEF InStream
<1> HIDE DEF old, new
<1>5. f \in Bijection(new, old)
  <2>1. f \in [new -> old]
    BY <1>3
  <2>2. \A k, l \in new : f[k] = f[l] => k = l
    BY <1>3
  <2>3. \A k \in old : \E l \in new : f[l] = k
    BY <1>4
  <2> HIDE DEF f
  <2>4. f \in Injection(new, old)
    BY <2>1, <2>2 DEF Injection, IsInjective
  <2>5. f \in Surjection(new, old)
    BY <2>1, <2>3 DEF Surjection
  <2> QED  BY <2>4, <2>5 DEF Bijection
<1>6. IsFiniteSet(old) /\ Cardinality(old) = IF 1 \in InStream(a) THEN Cardinality(InStream(a)) - 1
                                                               ELSE Cardinality(InStream(a))
  BY FS_RemoveElement DEF old
<1>7. Cardinality(new) = Cardinality(old)
  <2>1. f \in Injection(new, old) /\ f \in Surjection(new, old)
    BY <1>5 DEF Bijection
  <2> HIDE DEF f
  <2> QED  BY <1>6, <2>1, FS_Injection
<1>8. 1 \in InStream(a) <=> Head(stream) = Invoke(a)
  BY <1>2 DEF InStream
<1> QED  BY <1>6, <1>7, <1>8 DEF new

\* What a step may do to queue a: owe no more than comes, and park no handler beside its token.
LEMMA WakesMove ==
    ASSUME RoomForAll, TypeOK, TypeOK', NEW a \in Actors, Wakes(a),
           Owed(a)' + Coming(a) <= Owed(a) + Coming(a)',
           Cardinality(Gapping(a)') + tokens[a] <= Cardinality(Gapping(a)) + tokens'[a],
           Parked(a)' \subseteq Parked(a)
    PROVE  Wakes(a)'
<1>1. /\ Owed(a) \in Nat /\ Owed(a)' \in Nat /\ Coming(a) \in Nat /\ Coming(a)' \in Nat
  BY CountsAreNumbers DEF Owed, Coming
<1>2. CASE Owed(a) <= Coming(a)
  <2>1. Owed(a)' <= Coming(a)'
    BY <1>1, <1>2
  <2> QED  BY <2>1 DEF Wakes
<1>3. CASE Parked(a) = {} /\ Cardinality(Gapping(a)) <= tokens[a]
  <2>1. Cardinality(Gapping(a)') <= tokens'[a]
    BY <1>3, CountsAreNumbers
  <2>2. Parked(a)' = {}
    BY <1>3
  <2> QED  BY <2>1, <2>2 DEF Wakes
<1> QED  BY <1>2, <1>3 DEF Wakes

\* A step that leaves the handlers of queue a and its tokens alone.
LEMMA WakesCalm ==
    ASSUME RoomForAll, TypeOK, TypeOK', NEW a \in Actors, Wakes(a),
           Polling(a)' = Polling(a), Gapping(a)' = Gapping(a), Parked(a)' = Parked(a),
           GoneOf(a)' = GoneOf(a), tokens'[a] = tokens[a],
           Cardinality(Available(a)') + Cardinality(Announcing(a)) + Cardinality(InStream(a)) + faults
               <= Cardinality(Available(a)) + Cardinality(Announcing(a)')
                      + Cardinality(InStream(a)') + faults'
    PROVE  Wakes(a)'
<1>1. /\ Cardinality(Polling(a)') = Cardinality(Polling(a))
      /\ Cardinality(Gapping(a)') = Cardinality(Gapping(a))
      /\ Cardinality(GoneOf(a)') = Cardinality(GoneOf(a))
  OBVIOUS
<1>2. Owed(a)' + Coming(a) <= Owed(a) + Coming(a)'
  BY <1>1, CountsAreNumbers DEF Owed, Coming
<1>3. Cardinality(Gapping(a)') + tokens[a] <= Cardinality(Gapping(a)) + tokens'[a]
  BY <1>1, CountsAreNumbers
<1> QED  BY <1>2, <1>3, WakesMove

\* The handlers of one queue, when one of them moves, and of the other queues.
LEMMA HandlersHere ==
    ASSUME TypeOK, NEW w \in Workers, NEW pc, wpc' = [wpc EXCEPT ![w] = pc],
           NEW a \in Actors, a = ActorOf[w]
    PROVE  /\ wpc'[w] = pc
           /\ w \in Polling(a)' <=> wpc'[w] \in {"poll", "lastPoll"}
           /\ w \in Gapping(a)' <=> wpc'[w] = "gap"
           /\ w \in Parked(a)' <=> wpc'[w] = "parked"
           /\ w \in Polling(a) <=> wpc[w] \in {"poll", "lastPoll"}
           /\ w \in Gapping(a) <=> wpc[w] = "gap"
           /\ w \in Parked(a) <=> wpc[w] = "parked"
           /\ \A v : v # w => /\ v \in Polling(a)' <=> v \in Polling(a)
                              /\ v \in Gapping(a)' <=> v \in Gapping(a)
                              /\ v \in Parked(a)' <=> v \in Parked(a)
<1>1. wpc'[w] = pc /\ \A v \in Workers : v # w => wpc'[v] = wpc[v]
  BY DEF TypeOK
<1>2. /\ w \in Polling(a)' <=> wpc'[w] \in {"poll", "lastPoll"}
      /\ w \in Gapping(a)' <=> wpc'[w] = "gap"
      /\ w \in Parked(a)' <=> wpc'[w] = "parked"
  BY DEF Polling, Gapping, Parked
<1>3. /\ w \in Polling(a) <=> wpc[w] \in {"poll", "lastPoll"}
      /\ w \in Gapping(a) <=> wpc[w] = "gap"
      /\ w \in Parked(a) <=> wpc[w] = "parked"
  BY DEF Polling, Gapping, Parked
<1>4. \A v : v # w => /\ v \in Polling(a)' <=> v \in Polling(a)
                      /\ v \in Gapping(a)' <=> v \in Gapping(a)
                      /\ v \in Parked(a)' <=> v \in Parked(a)
  <2> SUFFICES ASSUME NEW v, v # w
               PROVE  /\ v \in Polling(a)' <=> v \in Polling(a)
                      /\ v \in Gapping(a)' <=> v \in Gapping(a)
                      /\ v \in Parked(a)' <=> v \in Parked(a)
    OBVIOUS
  <2>1. v \in Polling(a)' <=> v \in Polling(a)
    BY <1>1 DEF Polling
  <2>2. v \in Gapping(a)' <=> v \in Gapping(a)
    BY <1>1 DEF Gapping
  <2>3. v \in Parked(a)' <=> v \in Parked(a)
    BY <1>1 DEF Parked
  <2> QED  BY <2>1, <2>2, <2>3
<1> QED  BY <1>1, <1>2, <1>3, <1>4

\* A handler of one actor is not counted for another.
LEMMA HandlersElsewhere ==
    ASSUME TypeOK, NEW w \in Workers, NEW pc, wpc' = [wpc EXCEPT ![w] = pc],
           NEW a \in Actors, a # ActorOf[w]
    PROVE  Polling(a)' = Polling(a) /\ Gapping(a)' = Gapping(a) /\ Parked(a)' = Parked(a)
<1>1. \A v \in Workers : v # w => wpc'[v] = wpc[v]
  BY DEF TypeOK
<1>2. Polling(a)' = Polling(a)
  BY <1>1 DEF Polling
<1>3. Gapping(a)' = Gapping(a)
  BY <1>1 DEF Gapping
<1>4. Parked(a)' = Parked(a)
  BY <1>1 DEF Parked
<1> QED  BY <1>2, <1>3, <1>4

\* What the move of one handler does to the counts of its own queue.
LEMMA WakesOwn ==
    ASSUME RoomForAll, TypeOK, TypeOK', NEW w \in Workers, NEW pc, wpc' = [wpc EXCEPT ![w] = pc],
           \A v : v # w => (v \in gone' <=> v \in gone),
           NEW a \in Actors, a = ActorOf[w], Wakes(a),
           Announcing(a)' = Announcing(a), Cardinality(InStream(a)') = Cardinality(InStream(a)),
           Cardinality(Available(a)') + One(w \in gone') + One(wpc[w] \in {"poll", "lastPoll"})
                   + tokens[a] + faults
               <= Cardinality(Available(a)) + One(w \in gone) + One(pc \in {"poll", "lastPoll"})
                   + tokens'[a] + faults',
           One(pc = "gap") + tokens[a] <= One(wpc[w] = "gap") + tokens'[a],
           pc = "parked" => wpc[w] = "parked"
    PROVE  Wakes(a)'
<1>1. /\ wpc'[w] = pc
      /\ w \in Polling(a)' <=> wpc'[w] \in {"poll", "lastPoll"}
      /\ w \in Gapping(a)' <=> wpc'[w] = "gap"
      /\ w \in Parked(a)' <=> wpc'[w] = "parked"
      /\ w \in Polling(a) <=> wpc[w] \in {"poll", "lastPoll"}
      /\ w \in Gapping(a) <=> wpc[w] = "gap"
      /\ w \in Parked(a) <=> wpc[w] = "parked"
  BY HandlersHere
<1>2. \A v : v # w => /\ v \in Polling(a)' <=> v \in Polling(a)
                      /\ v \in Gapping(a)' <=> v \in Gapping(a)
                      /\ v \in Parked(a)' <=> v \in Parked(a)
  BY HandlersHere
<1>3. /\ w \in GoneOf(a)' <=> w \in gone'
      /\ w \in GoneOf(a) <=> w \in gone
      /\ \A v : v # w => (v \in GoneOf(a)' <=> v \in GoneOf(a))
  BY DEF GoneOf
<1>4. Cardinality(Polling(a)') + One(w \in Polling(a)) = Cardinality(Polling(a)) + One(w \in Polling(a)')
  BY <1>2, CountsAreFinite, CountMoved
<1>5. Cardinality(Gapping(a)') + One(w \in Gapping(a)) = Cardinality(Gapping(a)) + One(w \in Gapping(a)')
  BY <1>2, CountsAreFinite, CountMoved
<1>6. Cardinality(GoneOf(a)') + One(w \in GoneOf(a)) = Cardinality(GoneOf(a)) + One(w \in GoneOf(a)')
  BY <1>3, CountsAreFinite, CountMoved
<1>7. /\ Cardinality(Polling(a)') + One(wpc[w] \in {"poll", "lastPoll"})
             = Cardinality(Polling(a)) + One(pc \in {"poll", "lastPoll"})
      /\ Cardinality(Gapping(a)') + One(wpc[w] = "gap") = Cardinality(Gapping(a)) + One(pc = "gap")
      /\ Cardinality(GoneOf(a)') + One(w \in gone) = Cardinality(GoneOf(a)) + One(w \in gone')
  BY <1>1, <1>3, <1>4, <1>5, <1>6 DEF One
<1>8. Cardinality(Announcing(a)') = Cardinality(Announcing(a))
  OBVIOUS
<1>n. /\ One(wpc[w] \in {"poll", "lastPoll"}) \in Nat /\ One(pc \in {"poll", "lastPoll"}) \in Nat
      /\ One(wpc[w] = "gap") \in Nat /\ One(pc = "gap") \in Nat
      /\ One(w \in gone) \in Nat /\ One(w \in gone') \in Nat
  BY DEF One
<1> HIDE DEF One
<1>9. Owed(a)' + Coming(a) <= Owed(a) + Coming(a)'
  BY <1>7, <1>8, <1>n, CountsAreNumbers DEF Owed, Coming
<1>10. Cardinality(Gapping(a)') + tokens[a] <= Cardinality(Gapping(a)) + tokens'[a]
  BY <1>7, <1>n, CountsAreNumbers
<1>11. Parked(a)' \subseteq Parked(a)
  BY <1>1, <1>2
<1> QED  BY <1>9, <1>10, <1>11, WakesMove

\* The callers about to notify, while none begins or ceases to be (PgNotifyOne after the insert).
LEMMA AnnouncersStay ==
    ASSUME IInv, [Next]_vars, NEW a \in Actors,
           \A c \in Callers : cpc'[c] = "announce" <=> cpc[c] = "announce",
           \A c \in Callers : cpc[c] = "announce" => cid'[c] = cid[c]
    PROVE  Announcing(a)' = Announcing(a)
<1>1. \A c \in Callers : cpc[c] = "announce" => cid[c] \in Ids /\ rows[cid[c]].state # "absent"
  BY DEF IInv, CallerInv, CallerOk
<1>2. \A c \in Callers : cpc[c] = "announce" => rows'[cid[c]].queue = rows[cid[c]].queue
  BY <1>1, TableStep DEF TableGrows
<1>3. \A c \in Callers : cpc[c] = "announce" => rows'[cid'[c]].queue = rows[cid[c]].queue
  BY <1>2
<1> QED  BY <1>3 DEF Announcing

\* The rows that wait, while the table's states and queues stay.
LEMMA AvailableStays ==
    ASSUME NEW a \in Actors, rows' = rows
    PROVE  Available(a)' = Available(a)
BY DEF Available

\* An insert is followed by its notification; when either fails, that is the fault that pays.
LEMMA WakesCaller ==
    ASSUME RoomForAll, IInv, TypeOK', [Next]_vars, NEW a \in Actors, Wakes(a),
           NEW c \in Callers, CallerBegins(c) \/ CallerStep(c)
    PROVE  Wakes(a)'
<1>t. /\ cpc \in [Callers -> CallerPC] /\ cid \in [Callers -> Ids \cup {NoId}]
      /\ rows \in [Ids -> Row] /\ TypeOK
  BY DEF IInv, TypeOK
<1>f. faults \in Nat /\ faults' \in Nat /\ faults <= faults'
  BY <1>t, FaultsGrow
<1>1. UNCHANGED <<wpc, gone, tokens>>
  BY DEF CallerBegins, CallerStep, BeginSync, BeginAsync, BeginGet, Insert, InsertRejected,
     Announce, AnnounceFails, AfterAnnounce, TakeResponse, WaitExpires, ReadRow, CallerFails
<1>2. /\ Polling(a)' = Polling(a) /\ Gapping(a)' = Gapping(a) /\ Parked(a)' = Parked(a)
      /\ GoneOf(a)' = GoneOf(a)
  BY <1>1 DEF Polling, Gapping, Parked, GoneOf
\* What the caller adds to the work is paid for by what it adds to the wake-ups.
<1>p. ASSUME Cardinality(Available(a)') + Cardinality(Announcing(a)) + Cardinality(InStream(a)) + faults
                 <= Cardinality(Available(a)) + Cardinality(Announcing(a)')
                        + Cardinality(InStream(a)') + faults'
      PROVE  Wakes(a)'
  BY <1>t, <1>1, <1>2, <1>p, WakesCalm
<1>q. ASSUME Available(a)' = Available(a), Announcing(a)' = Announcing(a), InStream(a)' = InStream(a)
      PROVE  Wakes(a)'
  <2>1. /\ Cardinality(Available(a)') = Cardinality(Available(a))
        /\ Cardinality(Announcing(a)') = Cardinality(Announcing(a))
        /\ Cardinality(InStream(a)') = Cardinality(InStream(a))
    BY <1>q
  <2> QED  BY <1>t, <1>f, <1>p, <2>1, CountsAreNumbers
<1>3. ASSUME rows' = rows, stream' = stream,
             \A d \in Callers : cpc'[d] = "announce" <=> cpc[d] = "announce",
             \A d \in Callers : cpc[d] = "announce" => cid'[d] = cid[d]
      PROVE  Wakes(a)'
  <2>1. InStream(a)' = InStream(a)
    BY <1>3 DEF InStream
  <2> QED  BY <1>q, <1>3, <2>1, AvailableStays, AnnouncersStay
<1>4. CASE CallerBegins(c)
  <2>1. rows' = rows /\ stream' = stream
    BY <1>4 DEF CallerBegins, BeginSync, BeginAsync, BeginGet
  <2>2. cpc[c] # "announce" /\ cpc'[c] # "announce"
    BY <1>4, <1>t DEF CallerBegins, BeginSync, BeginAsync, BeginGet
  <2>3. \A d \in Callers : d # c => cpc'[d] = cpc[d] /\ cid'[d] = cid[d]
    BY <1>4, <1>t DEF CallerBegins, BeginSync, BeginAsync, BeginGet
  <2> QED  BY <1>3, <2>1, <2>2, <2>3
<1>5. CASE InsertRejected(c) \/ TakeResponse(c) \/ WaitExpires(c) \/ ReadRow(c) \/ CallerFails(c)
  <2>1. rows' = rows /\ stream' = stream /\ cid' = cid
    BY <1>5 DEF InsertRejected, TakeResponse, WaitExpires, ReadRow, CallerFails
  <2>2. cpc[c] # "announce" /\ cpc'[c] # "announce"
    BY <1>5, <1>t DEF InsertRejected, TakeResponse, WaitExpires, ReadRow, CallerFails, Finished
  <2>3. \A d \in Callers : d # c => cpc'[d] = cpc[d]
    BY <1>5, <1>t DEF InsertRejected, TakeResponse, WaitExpires, ReadRow, CallerFails, Finished
  <2> QED  BY <1>3, <2>1, <2>2, <2>3
<1>6. ASSUME NEW b \in Actors, Insert(c, b) PROVE Wakes(a)'
  <2>1. /\ cpc[c] = "insert" /\ nextId \in Ids /\ cid'[c] = nextId
        /\ rows'[nextId].state = "available" /\ rows'[nextId].queue = b /\ stream' = stream
        /\ \A i \in Ids : i # nextId => rows'[i] = rows[i]
        /\ \A d \in Callers : d # c => cpc'[d] = cpc[d] /\ cid'[d] = cid[d]
        /\ cpc'[c] = "announce" \/ (cpc'[c] = "done" /\ faults' = faults + 1)
    BY <1>6, <1>t DEF Insert, Finished, Fault
  <2>2. rows[nextId].state = "absent"
    BY <2>1 DEF IInv, TableInv, Ids
  <2>3. nextId \notin Available(a)
    BY <2>2 DEF Available
  <2>4. \A d \in Callers : d # c /\ cpc[d] = "announce" => rows'[cid'[d]].queue = rows[cid[d]].queue
    BY <2>1, <2>2 DEF IInv, CallerInv, CallerOk
  <2>5. c \notin Announcing(a)
    BY <2>1 DEF Announcing
  <2>6. InStream(a)' = InStream(a)
    BY <2>1 DEF InStream
  <2>7. CASE a # b
    <3>1. Available(a)' = Available(a)
      BY <2>1, <2>3, <2>7 DEF Available
    <3>2. Announcing(a)' = Announcing(a)
      BY <2>1, <2>4, <2>7 DEF Announcing
    <3> QED  BY <1>q, <2>6, <3>1, <3>2
  <2>8. CASE a = b
    <3>1. Available(a)' = Available(a) \cup {nextId}
      BY <2>1, <2>8 DEF Available
    <3>2. Cardinality(Available(a)') = Cardinality(Available(a)) + 1
      BY <1>t, <2>3, <3>1, CountsAreFinite, CountAdd
    <3>3. CASE cpc'[c] = "announce"
      <4>1. Announcing(a)' = Announcing(a) \cup {c}
        BY <2>1, <2>4, <2>8, <3>3 DEF Announcing
      <4>2. Cardinality(Announcing(a)') = Cardinality(Announcing(a)) + 1
        BY <1>t, <2>5, <4>1, CountsAreFinite, CountAdd
      <4>3. Cardinality(InStream(a)') = Cardinality(InStream(a))
        BY <2>6
      <4> QED  BY <1>t, <1>f, <1>p, <3>2, <4>2, <4>3, CountsAreNumbers
    <3>4. CASE cpc'[c] = "done" /\ faults' = faults + 1
      <4>1. Announcing(a)' = Announcing(a)
        BY <2>1, <2>4, <3>4 DEF Announcing
      <4>2. Cardinality(Announcing(a)') = Cardinality(Announcing(a))
        BY <4>1
      <4>3. Cardinality(InStream(a)') = Cardinality(InStream(a))
        BY <2>6
      <4> QED  BY <1>t, <1>f, <1>p, <3>2, <3>4, <4>2, <4>3, CountsAreNumbers
    <3> QED  BY <2>1, <3>3, <3>4
  <2> QED  BY <2>7, <2>8
<1>7. CASE Announce(c) \/ AnnounceFails(c)
  <2> DEFINE b == rows[cid[c]].queue
  <2>1. /\ cpc[c] = "announce" /\ cpc'[c] # "announce" /\ rows' = rows /\ cid' = cid
        /\ \/ stream' = Append(stream, Invoke(b))
           \/ stream' = stream /\ faults' = faults + 1
        /\ \A d \in Callers : d # c => cpc'[d] = cpc[d]
    BY <1>7, <1>t DEF Announce, AnnounceFails, AfterAnnounce, Finished, Sent, Fault
  <2>2. b \in Actors /\ Invoke(b) \in Messages
    BY <2>1, MessageIsTyped DEF IInv, CallerInv, CallerOk, TableInv
  <2>3. Available(a)' = Available(a)
    BY <2>1, AvailableStays
  <2>4. c \in Announcing(b) /\ \A e : c \in Announcing(e) => e = b
    BY <2>1 DEF Announcing
  <2>5. Announcing(a)' = Announcing(a) \ {c}
    BY <2>1 DEF Announcing
  <2> HIDE DEF b
  <2>6. CASE a # b
    <3>1. Announcing(a)' = Announcing(a)
      BY <2>4, <2>5, <2>6
    <3>2. Invoke(b) # Invoke(a)
      BY <2>6, ResponsesDiffer
    <3>3. stream' = Append(stream, Invoke(b)) => InStream(a)' = InStream(a)
      BY <1>t, <2>2, <3>2, StreamGrows
    <3>4. stream' = stream => InStream(a)' = InStream(a)
      BY DEF InStream
    <3> QED  BY <1>q, <2>1, <2>3, <3>1, <3>3, <3>4
  <2>7. CASE a = b
    <3>1. Cardinality(Announcing(a)') = Cardinality(Announcing(a)) - 1
      BY <1>t, <2>4, <2>5, <2>7, CountsAreFinite, CountDrop
    <3>2. Cardinality(Available(a)') = Cardinality(Available(a))
      BY <2>3
    <3>3. CASE stream' = Append(stream, Invoke(b))
      <4>1. Len(stream) + 1 \notin InStream(a) /\ InStream(a)' = InStream(a) \cup {Len(stream) + 1}
        BY <1>t, <2>2, <2>7, <3>3, StreamGrows
      <4>2. Cardinality(InStream(a)') = Cardinality(InStream(a)) + 1
        BY <1>t, <4>1, CountsAreFinite, CountAdd
      <4> QED  BY <1>t, <1>f, <1>p, <3>1, <3>2, <4>2, CountsAreNumbers
    <3>4. CASE stream' = stream /\ faults' = faults + 1
      <4>1. Cardinality(InStream(a)') = Cardinality(InStream(a))
        BY <3>4 DEF InStream
      <4> QED  BY <1>t, <1>f, <1>p, <3>1, <3>2, <3>4, <4>1, CountsAreNumbers
    <3> QED  BY <2>1, <3>3, <3>4
  <2> QED  BY <2>6, <2>7
<1> QED  BY <1>4, <1>5, <1>6, <1>7 DEF CallerStep

\* A handler polls once more for every token it takes, and parks only when it finds none; a poll
\* that takes nothing of what waits is a fault, or pays for a client that hung up.
LEMMA WakesHandler ==
    ASSUME RoomForAll, IInv, TypeOK', [Next]_vars, ListenInv, Cardinality(gone) <= faults,
           NEW a \in Actors, Wakes(a), NEW w \in Workers, WorkerBegins(w) \/ WorkerStep(w)
    PROVE  Wakes(a)'
<1>t. /\ wpc \in [Workers -> WorkerPC] /\ rows \in [Ids -> Row] /\ TypeOK
      /\ tokens \in [Actors -> 0 .. DispatchBuffer] /\ ActorOf[w] \in Actors
  BY ActorOfAssumption DEF IInv, TypeOK
<1>f. faults \in Nat /\ faults' \in Nat /\ faults <= faults'
  BY <1>t, FaultsGrow
<1>c. \A c \in Callers : cpc'[c] = cpc[c] /\ cid'[c] = cid[c]
  BY DEF WorkerBegins, WorkerStep, BeginGetNext, ClientGone, ReturnCommit, PollTakes,
        PollFindsNone, PollCancelled, PollFails, WaitFor, WaitForExpires, Reply, ReturnNotify,
        ReturnNotifyFails
<1>a. Announcing(a)' = Announcing(a) /\ Cardinality(Announcing(a)') = Cardinality(Announcing(a))
  BY <1>c, AnnouncersStay
<1>g. w \in gone => wpc[w] \in {"poll", "lastPoll", "gap", "parked"}
  BY DEF ListenInv, Busy
<1>p. {"idle", "poll", "lastPoll", "gap", "parked", "reply", "notify"} = WorkerPC
  BY DEF WorkerPC
<1>1. stream' = stream => Cardinality(InStream(a)') = Cardinality(InStream(a))
  BY DEF InStream
<1>r. rows' = rows => Cardinality(Available(a)') = Cardinality(Available(a))
  BY AvailableStays
<1>n. /\ Cardinality(Available(a)) \in Nat /\ Cardinality(Available(a)') \in Nat
      /\ tokens[a] \in Nat /\ tokens'[a] \in Nat
  BY <1>t, CountsAreNumbers
<1>s. rows' = rows => Cardinality(Available(a)') <= Cardinality(Available(a))
  BY <1>n, <1>r
\* The queues of other actors.
<1>2. ASSUME a # ActorOf[w], NEW pc, wpc' = [wpc EXCEPT ![w] = pc],
             \A v : v # w => (v \in gone' <=> v \in gone), tokens'[a] = tokens[a],
             Cardinality(Available(a)') <= Cardinality(Available(a)),
             Cardinality(InStream(a)') = Cardinality(InStream(a))
      PROVE  Wakes(a)'
  <2>1. Polling(a)' = Polling(a) /\ Gapping(a)' = Gapping(a) /\ Parked(a)' = Parked(a)
    BY <1>t, <1>2, HandlersElsewhere
  <2>2. GoneOf(a)' = GoneOf(a)
    BY <1>2 DEF GoneOf
  <2>3. Cardinality(Available(a)') + Cardinality(Announcing(a)) + Cardinality(InStream(a)) + faults
            <= Cardinality(Available(a)) + Cardinality(Announcing(a)')
                   + Cardinality(InStream(a)') + faults'
    BY <1>t, <1>f, <1>a, <1>2, CountsAreNumbers
  <2> QED  BY <1>t, <1>2, <2>1, <2>2, <2>3, WakesCalm
\* Any queue, when the handler takes no token, and no job without a poll.
<1>3. ASSUME NEW pc, wpc' = [wpc EXCEPT ![w] = pc],
             \A v : v # w => (v \in gone' <=> v \in gone), tokens' = tokens,
             Cardinality(Available(a)') <= Cardinality(Available(a)),
             Cardinality(InStream(a)') = Cardinality(InStream(a)),
             a = ActorOf[w] =>
                 Cardinality(Available(a)') + One(w \in gone') + One(wpc[w] \in {"poll", "lastPoll"})
                         + faults
                     <= Cardinality(Available(a)) + One(w \in gone)
                         + One(pc \in {"poll", "lastPoll"}) + faults',
             pc = "gap" => wpc[w] = "gap", pc = "parked" => wpc[w] = "parked"
      PROVE  Wakes(a)'
  <2>1. CASE a # ActorOf[w]
    BY <1>2, <1>3, <2>1
  <2>2. CASE a = ActorOf[w]
    <3>1. /\ One(wpc[w] \in {"poll", "lastPoll"}) \in Nat /\ One(pc \in {"poll", "lastPoll"}) \in Nat
          /\ One(w \in gone) \in Nat /\ One(w \in gone') \in Nat
          /\ One(pc = "gap") \in Nat /\ One(wpc[w] = "gap") \in Nat
          /\ One(pc = "gap") <= One(wpc[w] = "gap")
      BY <1>3 DEF One
    <3>2. tokens'[a] = tokens[a]
      BY <1>3
    <3>3. Cardinality(Available(a)') + One(w \in gone') + One(wpc[w] \in {"poll", "lastPoll"})
                  + tokens[a] + faults
              <= Cardinality(Available(a)) + One(w \in gone) + One(pc \in {"poll", "lastPoll"})
                  + tokens'[a] + faults'
      BY <1>f, <1>n, <1>3, <2>2, <3>1, <3>2
    <3>4. One(pc = "gap") + tokens[a] <= One(wpc[w] = "gap") + tokens'[a]
      BY <1>n, <3>1, <3>2
    <3> QED  BY <1>t, <1>a, <1>3, <2>2, <3>3, <3>4, WakesOwn
  <2> QED  BY <2>1, <2>2
<1>4. CASE BeginGetNext(w) \/ WaitForExpires(w) \/ Reply(w) \/ ReturnNotifyFails(w)
  <2>1. /\ rows' = rows /\ stream' = stream /\ tokens' = tokens
        /\ wpc[w] \in {"idle", "parked", "reply", "notify"}
        /\ \E pc \in {"poll", "lastPoll", "idle"} : Goto(w, pc)
    BY <1>4 DEF BeginGetNext, WaitForExpires, Reply, ReturnNotifyFails, AfterTimeout
  <2>2. PICK pc \in {"poll", "lastPoll", "idle"} : Goto(w, pc)
    BY <2>1
  <2>3. /\ wpc' = [wpc EXCEPT ![w] = pc] /\ \A v : v # w => (v \in gone' <=> v \in gone)
        /\ w \in gone' => w \in gone
    BY <2>2 DEF Goto
  <2>4. One(w \in gone') + One(wpc[w] \in {"poll", "lastPoll"})
            <= One(w \in gone) + One(pc \in {"poll", "lastPoll"})
    BY <2>1, <2>3 DEF One
  <2>5. /\ One(w \in gone') \in Nat /\ One(wpc[w] \in {"poll", "lastPoll"}) \in Nat
        /\ One(w \in gone) \in Nat /\ One(pc \in {"poll", "lastPoll"}) \in Nat
    BY DEF One
  <2>6. Cardinality(Available(a)') + One(w \in gone') + One(wpc[w] \in {"poll", "lastPoll"}) + faults
            <= Cardinality(Available(a)) + One(w \in gone) + One(pc \in {"poll", "lastPoll"}) + faults'
    BY <1>f, <1>n, <1>r, <2>1, <2>4, <2>5
  <2> QED  BY <1>1, <1>3, <1>s, <2>1, <2>2, <2>3, <2>6
<1>5. CASE ReturnNotify(w)
  <2>1. /\ rows' = rows /\ stream' = Append(stream, Response(wid[w])) /\ tokens' = tokens
        /\ wpc[w] = "notify" /\ \E pc \in {"idle"} : wpc' = [wpc EXCEPT ![w] = pc]
        /\ gone' = gone \ {w} /\ faults' = faults
    BY <1>5 DEF ReturnNotify, Goto, Sent
  <2>2. Response(wid[w]) \in Messages /\ Response(wid[w]) # Invoke(a)
    BY <2>1, MessageIsTyped, ResponsesDiffer DEF IInv, WorkerInv
  <2>3. Cardinality(InStream(a)') = Cardinality(InStream(a))
    BY <1>t, <2>1, <2>2, StreamGrows
  <2>4. PICK pc \in {"idle"} : wpc' = [wpc EXCEPT ![w] = pc]
    BY <2>1
  <2>5. Cardinality(Available(a)') + One(w \in gone') + One(wpc[w] \in {"poll", "lastPoll"}) + faults
            <= Cardinality(Available(a)) + One(w \in gone) + One(pc \in {"poll", "lastPoll"}) + faults'
    BY <1>f, <1>g, <1>n, <1>r, <2>1 DEF One
  <2> QED  BY <1>3, <1>s, <2>1, <2>3, <2>4, <2>5
<1>6. ASSUME NEW i \in Ids, NEW o \in Final, ReturnCommit(w, i, o) PROVE Wakes(a)'
  <2>1. stream' = stream /\ tokens' = tokens /\ wpc[w] = "idle"
    BY <1>6 DEF ReturnCommit
  <2>2. rows'[i].state # "available" /\ \A j \in Ids : j # i => rows'[j] = rows[j]
    BY <1>t, <1>6 DEF ReturnCommit, FinishedRow, Final
  <2>3. Available(a)' \subseteq Available(a)
    BY <2>2 DEF Available
  <2>4. Cardinality(Available(a)') <= Cardinality(Available(a))
    BY <1>t, <2>3, CountsAreFinite, CountSubset
  <2>5. gone' = gone /\ \E pc \in {"idle", "notify"} : wpc' = [wpc EXCEPT ![w] = pc]
    <3>1. wpc = [wpc EXCEPT ![w] = "idle"]
      BY <1>t, <2>1
    <3> QED  BY <1>6, <3>1 DEF ReturnCommit, Goto
  <2>6. PICK pc \in {"idle", "notify"} : wpc' = [wpc EXCEPT ![w] = pc]
    BY <2>5
  <2>7. Cardinality(Available(a)') + One(w \in gone') + One(wpc[w] \in {"poll", "lastPoll"}) + faults
            <= Cardinality(Available(a)) + One(w \in gone) + One(pc \in {"poll", "lastPoll"}) + faults'
    BY <1>f, <1>g, <1>n, <2>1, <2>4, <2>5 DEF One
  <2> QED  BY <1>1, <1>3, <2>1, <2>4, <2>5, <2>6, <2>7
<1>7. ASSUME NEW i \in Ids, PollTakes(w, i) PROVE Wakes(a)'
  <2>1. /\ stream' = stream /\ tokens' = tokens /\ i \in Available(ActorOf[w])
        /\ wpc[w] \in {"poll", "lastPoll"} /\ w \notin gone
        /\ \E pc \in {"reply", "idle"} : wpc' = [wpc EXCEPT ![w] = pc]
        /\ w \notin gone' /\ \A v : v # w => (v \in gone' <=> v \in gone)
    BY <1>7 DEF PollTakes, Goto, Oldest
  <2>2. rows'[i].state # "available" /\ \A j \in Ids : j # i => rows'[j] = rows[j]
    BY <1>t, <1>7 DEF PollTakes
  <2>3. Available(a)' = Available(a) \ {i}
    BY <2>2 DEF Available
  <2>4. Cardinality(Available(a)') <= Cardinality(Available(a))
    BY <1>t, <2>3, CountsAreFinite, CountSubset
  <2>5. a = ActorOf[w] => Cardinality(Available(a)') = Cardinality(Available(a)) - 1
    BY <1>t, <2>1, <2>3, CountsAreFinite, CountDrop
  <2>6. PICK pc \in {"reply", "idle"} : wpc' = [wpc EXCEPT ![w] = pc]
    BY <2>1
  <2>7. a = ActorOf[w] =>
            Cardinality(Available(a)') + One(w \in gone') + One(wpc[w] \in {"poll", "lastPoll"}) + faults
                <= Cardinality(Available(a)) + One(w \in gone) + One(pc \in {"poll", "lastPoll"}) + faults'
    BY <1>f, <1>n, <2>1, <2>5 DEF One
  <2> QED  BY <1>1, <1>3, <2>1, <2>4, <2>6, <2>7
<1>8. CASE PollCancelled(w) \/ PollFails(w)
  <2>1. /\ rows' = rows /\ stream' = stream /\ tokens' = tokens /\ wpc[w] \in {"poll", "lastPoll"}
        /\ w \in gone \/ faults' = faults + 1
        /\ \E pc \in {"idle"} : wpc' = [wpc EXCEPT ![w] = pc]
        /\ gone' = gone \ {w}
    BY <1>8 DEF PollCancelled, PollFails, Goto, Fault
  <2>2. PICK pc \in {"idle"} : wpc' = [wpc EXCEPT ![w] = pc]
    BY <2>1
  <2>3. Cardinality(Available(a)') + One(w \in gone') + One(wpc[w] \in {"poll", "lastPoll"}) + faults
            <= Cardinality(Available(a)) + One(w \in gone) + One(pc \in {"poll", "lastPoll"}) + faults'
    BY <1>f, <1>n, <1>r, <2>1 DEF One
  <2> QED  BY <1>1, <1>3, <1>s, <2>1, <2>2, <2>3
<1>9. CASE ClientGone(w)
  <2>1. /\ rows' = rows /\ stream' = stream /\ tokens' = tokens /\ wpc' = wpc
        /\ faults' = faults + 1 /\ gone' = gone \cup {w}
    BY <1>9 DEF ClientGone, Fault
  <2>2. PICK pc \in WorkerPC : pc = wpc[w] /\ wpc' = [wpc EXCEPT ![w] = pc]
    BY <1>t, <2>1
  <2>3. Cardinality(Available(a)') + One(w \in gone') + One(wpc[w] \in {"poll", "lastPoll"}) + faults
            <= Cardinality(Available(a)) + One(w \in gone) + One(pc \in {"poll", "lastPoll"}) + faults'
    BY <1>f, <1>n, <1>r, <2>1, <2>2 DEF One
  <2> QED  BY <1>1, <1>3, <1>s, <2>1, <2>2, <2>3
<1>10. CASE PollFindsNone(w)
  <2>1. /\ rows' = rows /\ stream' = stream /\ tokens' = tokens /\ Available(ActorOf[w]) = {}
        /\ w \notin gone /\ \E pc \in {"gap", "idle"} : Goto(w, pc)
    BY <1>10 DEF PollFindsNone
  <2>2. PICK pc \in {"gap", "idle"} : Goto(w, pc)
    BY <2>1
  <2>3. /\ wpc' = [wpc EXCEPT ![w] = pc] /\ gone' \subseteq gone
        /\ \A v : v # w => (v \in gone' <=> v \in gone)
    BY <2>2 DEF Goto
  <2>4. CASE a # ActorOf[w]
    BY <1>1, <1>2, <1>s, <2>1, <2>3, <2>4
  <2>5. CASE a = ActorOf[w]
    <3>1. Cardinality(Available(a)') = 0
      <4>1. Available(a)' = {}
        BY <2>1, <2>5, AvailableStays
      <4> QED  BY <4>1, FS_EmptySet
    <3>2. GoneOf(a)' \subseteq gone /\ gone \subseteq Workers
      BY <1>t, <2>3 DEF GoneOf, TypeOK
    <3>3. IsFiniteSet(gone)
      BY <3>2, CountSubset DEF RoomForAll
    <3>4. Cardinality(GoneOf(a)') <= Cardinality(gone) /\ Cardinality(gone) \in Nat
      BY <3>2, <3>3, CountSubset, FS_CardinalityType
    <3>5. Cardinality(GoneOf(a)') <= faults'
      BY <1>t, <1>f, <3>4, CountsAreNumbers
    <3>6. Owed(a)' <= Coming(a)'
      BY <1>t, <3>1, <3>5, CountsAreNumbers DEF Owed, Coming
    <3> QED  BY <3>6 DEF Wakes
  <2> QED  BY <2>4, <2>5
<1>11. CASE WaitFor(w)
  <2>1. /\ rows' = rows /\ stream' = stream /\ wpc[w] = "gap" /\ gone' = gone /\ faults' = faults
    BY <1>11 DEF WaitFor, Goto, AfterToken
  <2>2. CASE a # ActorOf[w]
    <3>1. tokens'[a] = tokens[a] /\ \E pc \in {"poll", "parked"} : wpc' = [wpc EXCEPT ![w] = pc]
      BY <1>11, <1>t, <2>2 DEF WaitFor, Goto, AfterToken
    <3>2. PICK pc \in {"poll", "parked"} : wpc' = [wpc EXCEPT ![w] = pc]
      BY <3>1
    <3> QED  BY <1>1, <1>2, <1>s, <2>1, <2>2, <3>1, <3>2
  <2>3. ASSUME a = ActorOf[w], tokens[a] > 0, tokens' = [tokens EXCEPT ![a] = @ - 1],
               NEW pc \in {"poll"}, wpc' = [wpc EXCEPT ![w] = pc]
        PROVE  Wakes(a)'
    <3>1. tokens'[a] = tokens[a] - 1
      BY <1>t, <2>3
    <3>2. Cardinality(Available(a)') + One(w \in gone') + One(wpc[w] \in {"poll", "lastPoll"})
                  + tokens[a] + faults
              <= Cardinality(Available(a)) + One(w \in gone) + One(pc \in {"poll", "lastPoll"})
                  + tokens'[a] + faults'
      BY <1>f, <1>n, <1>r, <2>1, <3>1 DEF One
    <3>3. One(pc = "gap") + tokens[a] <= One(wpc[w] = "gap") + tokens'[a]
      BY <1>n, <2>1, <2>3, <3>1 DEF One
    <3>4. /\ Cardinality(InStream(a)') = Cardinality(InStream(a))
          /\ \A v : v # w => (v \in gone' <=> v \in gone)
          /\ pc = "parked" => wpc[w] = "parked"
      BY <1>1, <2>1, <2>3
    <3> QED  BY <1>t, <1>a, <2>3, <3>2, <3>3, <3>4, WakesOwn
  <2>4. ASSUME a = ActorOf[w], tokens[a] = 0, tokens' = tokens, wpc' = [wpc EXCEPT ![w] = "parked"]
        PROVE  Wakes(a)'
    <3>1. w \notin Polling(a) /\ w \in Gapping(a)
      BY <2>1, <2>4 DEF Polling, Gapping
    <3>2. Cardinality(Gapping(a)) # 0
      BY <1>t, <3>1, CountsAreFinite, FS_EmptySet
    <3>3. ~(Cardinality(Gapping(a)) <= tokens[a])
      BY <1>t, <2>4, <3>2, CountsAreNumbers
    <3>4. Owed(a) <= Coming(a)
      BY <3>3 DEF Wakes
    <3>h. Polling(a)' = Polling(a) \ {w}
      <4>1. /\ wpc'[w] = "parked"
            /\ w \in Polling(a)' <=> wpc'[w] \in {"poll", "lastPoll"}
            /\ \A v : v # w => (v \in Polling(a)' <=> v \in Polling(a))
        BY <1>t, <2>4, HandlersHere
      <4> QED  BY <4>1
    <3>5. Polling(a)' = Polling(a) /\ GoneOf(a)' = GoneOf(a)
      BY <2>1, <3>1, <3>h DEF GoneOf
    <3>6. Owed(a)' = Owed(a) /\ Coming(a)' = Coming(a)
      BY <1>1, <1>a, <1>r, <2>1, <2>4, <3>5 DEF Owed, Coming
    <3> QED  BY <3>4, <3>6 DEF Wakes
  <2> QED  BY <1>11, <2>2, <2>3, <2>4 DEF WaitFor, Goto, AfterToken
<1> QED
  BY <1>4, <1>5, <1>6, <1>7, <1>8, <1>9, <1>10, <1>11 DEF WorkerBegins, WorkerStep

\* A notification wakes a handler, is buffered, or is dropped because every handler of the queue
\* has a token waiting for it (Dispatch).
LEMMA WakesDispatch ==
    ASSUME RoomForAll, IInv, TypeOK', [Next]_vars, ListenInv, NEW a \in Actors,
           Wakes(a), DeliverInvoke
    PROVE  Wakes(a)'
<1> DEFINE b == Head(stream).queue
<1>t. /\ stream \in Seq(Messages) /\ wpc \in [Workers -> WorkerPC] /\ TypeOK
      /\ tokens \in [Actors -> 0 .. DispatchBuffer]
  BY DEF IInv, TypeOK
<1>1. /\ stream # << >> /\ Head(stream).topic = "invoke" /\ stream' = Tail(stream)
      /\ UNCHANGED <<rows, gone, faults>>
  BY DEF DeliverInvoke
<1>2. Head(stream) = Invoke(b) /\ b \in Actors
  BY <1>t, <1>1, HeadTailProperties, ResponsesDiffer
<1>3. UNCHANGED <<cpc, cid, channels>> /\ Dispatch(b)
  BY DEF DeliverInvoke
<1>a. Announcing(a)' = Announcing(a) /\ Cardinality(Announcing(a)') = Cardinality(Announcing(a))
  BY <1>3, AnnouncersStay
<1>r. /\ Cardinality(Available(a)') = Cardinality(Available(a))
      /\ GoneOf(a)' = GoneOf(a) /\ Cardinality(GoneOf(a)') = Cardinality(GoneOf(a))
  BY <1>1, AvailableStays DEF GoneOf
<1> HIDE DEF b
<1>4. CASE a # b
  <2>1. Invoke(b) # Invoke(a)
    BY <1>4, ResponsesDiffer
  <2>2. Cardinality(InStream(a)') = Cardinality(InStream(a))
    BY <1>t, <1>1, <1>2, <2>1, CountsAreFinite, StreamShrinks
  <2>3. tokens'[a] = tokens[a]
    BY <1>t, <1>3, <1>4 DEF Dispatch
  <2>4. Polling(a)' = Polling(a) /\ Gapping(a)' = Gapping(a) /\ Parked(a)' = Parked(a)
    <3>1. CASE wpc' = wpc
      BY <3>1 DEF Polling, Gapping, Parked
    <3>2. ASSUME NEW w \in Parked(b), wpc' = [wpc EXCEPT ![w] = "poll"]
          PROVE  Polling(a)' = Polling(a) /\ Gapping(a)' = Gapping(a) /\ Parked(a)' = Parked(a)
      <4>1. w \in Workers /\ a # ActorOf[w]
        BY <1>4, <3>2 DEF Parked
      <4> QED  BY <1>t, <3>2, <4>1, HandlersElsewhere
    <3> QED  BY <1>3, <3>1, <3>2 DEF Dispatch, AfterToken
  <2>5. Cardinality(Available(a)') + Cardinality(Announcing(a)) + Cardinality(InStream(a)) + faults
            <= Cardinality(Available(a)) + Cardinality(Announcing(a)')
                   + Cardinality(InStream(a)') + faults'
    BY <1>t, <1>1, <1>a, <1>r, <2>2, CountsAreNumbers
  <2> QED  BY <1>t, <1>r, <2>3, <2>4, <2>5, WakesCalm
<1>5. CASE a = b
  <2>1. Cardinality(InStream(a)') = Cardinality(InStream(a)) - 1
    BY <1>t, <1>1, <1>2, <1>5, CountsAreFinite, StreamShrinks
  <2>2. Owed(a)' = Owed(a) /\ faults' = faults
    BY <1>1, <1>r DEF Owed
  <2>3. CASE Parked(a) # {}
    <3>1. PICK w \in Parked(a) : wpc' = [wpc EXCEPT ![w] = "poll"]
      BY <1>3, <1>5, <2>3 DEF Dispatch, AfterToken
    <3>2. tokens' = tokens
      BY <1>3, <1>5, <2>3 DEF Dispatch
    <3>3. w \in Workers /\ a = ActorOf[w] /\ wpc[w] = "parked"
      BY DEF Parked
    <3>4. w \notin Polling(a)
      BY <3>3 DEF Polling
    <3>5. Polling(a)' = Polling(a) \cup {w}
      <4>1. /\ wpc'[w] = "poll"
            /\ w \in Polling(a)' <=> wpc'[w] \in {"poll", "lastPoll"}
            /\ \A v : v # w => (v \in Polling(a)' <=> v \in Polling(a))
        BY <1>t, <3>1, <3>3, HandlersHere
      <4> QED  BY <4>1
    <3>6. Cardinality(Polling(a)') = Cardinality(Polling(a)) + 1
      BY <1>t, <3>4, <3>5, CountsAreFinite, CountAdd
    <3>7. Owed(a) <= Coming(a)
      BY <2>3 DEF Wakes
    <3>8. Coming(a)' = Coming(a)
      BY <1>t, <1>a, <2>1, <2>2, <3>2, <3>6, CountsAreNumbers DEF Coming
    <3> QED  BY <2>2, <3>7, <3>8 DEF Wakes
  <2>4. CASE Parked(a) = {}
    <3>1. wpc' = wpc /\ tokens' = IF HasRoom(a) THEN [tokens EXCEPT ![a] = @ + 1] ELSE tokens
      BY <1>3, <1>5, <2>4 DEF Dispatch
    <3>2. Polling(a)' = Polling(a) /\ Gapping(a)' = Gapping(a) /\ Parked(a)' = {}
      BY <2>4, <3>1 DEF Polling, Gapping, Parked
    <3>3. CASE HasRoom(a)
      <4>1. tokens'[a] = tokens[a] + 1
        BY <1>t, <3>1, <3>3
      <4>2. /\ Cardinality(Polling(a)') = Cardinality(Polling(a))
            /\ Cardinality(Gapping(a)') = Cardinality(Gapping(a))
        BY <3>2
      <4>3. Coming(a)' = Coming(a)
        BY <1>t, <1>a, <2>1, <2>2, <4>1, <4>2, CountsAreNumbers DEF Coming
      <4>4. Cardinality(Gapping(a)) <= tokens[a] => Cardinality(Gapping(a)') <= tokens'[a]
        BY <1>t, <4>1, <4>2, CountsAreNumbers
      <4> QED  BY <2>2, <3>2, <4>3, <4>4 DEF Wakes
    <3>4. CASE a \notin channels
      <4>1. Gapping(a) = {}
        BY <3>4 DEF Gapping, ListenInv, Busy
      <4>2. Cardinality(Gapping(a)') = 0
        BY <3>2, <4>1, FS_EmptySet
      <4>3. Cardinality(Gapping(a)') <= tokens'[a]
        BY <1>t, <4>2, CountsAreNumbers
      <4> QED  BY <3>2, <4>3 DEF Wakes
    <3>5. CASE ~(tokens[a] < DispatchBuffer)
      <4>1. tokens' = tokens
        BY <3>1, <3>5 DEF HasRoom
      <4>2. Gapping(a) \subseteq Served(a) /\ Served(a) \subseteq Workers
        BY DEF Gapping, Served
      <4>3. Cardinality(Gapping(a)) <= Cardinality(Served(a)) /\ Cardinality(Served(a)) \in Nat
        BY <4>2, CountSubset DEF RoomForAll
      <4>4. Cardinality(Served(a)) <= DispatchBuffer
        BY DEF RoomForAll
      <4>5. Cardinality(Gapping(a)) <= tokens[a]
        BY <1>t, <3>5, <4>3, <4>4, CountsAreNumbers, BoundsAssumption
      <4> QED  BY <3>2, <4>1, <4>5 DEF Wakes
    <3> QED  BY <3>3, <3>4, <3>5 DEF HasRoom
  <2> QED  BY <2>3, <2>4
<1> QED  BY <1>4, <1>5

\* A restarted server has nobody parked, and no token to miss.
LEMMA WakesAnew ==
    ASSUME NEW a \in Actors, Crash
    PROVE  Wakes(a)'
<1>1. Parked(a)' = {} /\ Gapping(a)' = {} /\ tokens'[a] = 0
  BY DEF Crash, Parked, Gapping
<1>2. Cardinality(Gapping(a)') = 0
  BY <1>1, FS_EmptySet
<1> QED  BY <1>1, <1>2 DEF Wakes

\* No step loses a wake-up, or it is a fault and loses one.
LEMMA WakeStep ==
    ASSUME RoomForAll
    PROVE  IInv /\ WakeInv /\ [Next]_vars => WakeInv'
<1> SUFFICES ASSUME IInv, WakeInv, [Next]_vars
             PROVE  ListenInv' /\ Cardinality(gone') <= faults' /\ \A a \in Actors : Wakes(a)'
  BY DEF WakeInv
<1>1. TypeOK /\ TypeOK'
  BY TypeStep DEF IInv
<1>2. ListenInv /\ Cardinality(gone) <= faults /\ \A a \in Actors : Wakes(a)
  BY DEF WakeInv
<1>3. ListenInv' /\ Cardinality(gone') <= faults'
  BY <1>1, <1>2, ListenStep, GoneStep DEF RoomForAll
<1>4. ASSUME NEW a \in Actors PROVE Wakes(a)'
  <2>1. Wakes(a)
    BY <1>2
  <2>2. ASSUME NEW c \in Callers, CallerBegins(c) \/ CallerStep(c) PROVE Wakes(a)'
    BY <1>1, <2>1, <2>2, WakesCaller
  <2>3. ASSUME NEW w \in Workers, WorkerBegins(w) \/ WorkerStep(w) PROVE Wakes(a)'
    BY <1>1, <1>2, <2>1, <2>3, WakesHandler
  <2>4. CASE DeliverInvoke
    BY <1>1, <1>2, <2>1, <2>4, WakesDispatch
  <2>5. ASSUME Cardinality(InStream(a)) + faults <= Cardinality(InStream(a)') + faults',
               UNCHANGED <<rows, cpc, cid, wpc, gone, tokens>>
        PROVE  Wakes(a)'
    <3>1. /\ Polling(a)' = Polling(a) /\ Gapping(a)' = Gapping(a) /\ Parked(a)' = Parked(a)
          /\ GoneOf(a)' = GoneOf(a)
      BY <2>5 DEF Polling, Gapping, Parked, GoneOf
    <3>2. /\ Cardinality(Announcing(a)') = Cardinality(Announcing(a))
          /\ Cardinality(Available(a)') = Cardinality(Available(a))
      BY <2>5, AnnouncersStay, AvailableStays
    <3>3. Cardinality(Available(a)') + Cardinality(Announcing(a)) + Cardinality(InStream(a)) + faults
              <= Cardinality(Available(a)) + Cardinality(Announcing(a)')
                     + Cardinality(InStream(a)') + faults'
      BY <1>1, <2>5, <3>2, CountsAreNumbers
    <3> QED  BY <1>1, <2>1, <2>5, <3>1, <3>3, WakesCalm
  <2>6. CASE DeliverResponse
    <3>1. /\ stream # << >> /\ stream' = Tail(stream) /\ Head(stream).topic = "response"
          /\ UNCHANGED <<rows, cpc, cid, wpc, gone, tokens, faults>>
      BY <2>6 DEF DeliverResponse
    <3>2. Head(stream) # Invoke(a)
      BY <3>1, ResponsesDiffer
    <3>3. Cardinality(InStream(a)') = Cardinality(InStream(a))
      BY <1>1, <3>1, <3>2, CountsAreFinite, StreamShrinks
    <3>4. Cardinality(InStream(a)) + faults <= Cardinality(InStream(a)') + faults'
      BY <1>1, <3>1, <3>3, CountsAreNumbers
    <3> QED  BY <2>5, <3>1, <3>4
  <2>7. CASE LoseNotification
    <3>1. /\ stream # << >> /\ stream' = Tail(stream) /\ faults' = faults + 1
          /\ UNCHANGED <<rows, cpc, cid, wpc, gone, tokens>>
      BY <2>7 DEF LoseNotification, Fault
    <3>2. Cardinality(InStream(a)') =
              IF Head(stream) = Invoke(a) THEN Cardinality(InStream(a)) - 1
                                          ELSE Cardinality(InStream(a))
      BY <1>1, <3>1, CountsAreFinite, StreamShrinks
    <3>3. Cardinality(InStream(a)) + faults <= Cardinality(InStream(a)') + faults'
      BY <1>1, <3>1, <3>2, CountsAreNumbers
    <3> QED  BY <2>5, <3>1, <3>3
  <2>8. CASE UNCHANGED vars
    <3>1. InStream(a)' = InStream(a) /\ UNCHANGED <<rows, cpc, cid, wpc, gone, tokens, faults>>
      BY <2>8 DEF vars, InStream
    <3>2. Cardinality(InStream(a)) + faults <= Cardinality(InStream(a)') + faults'
      BY <1>1, <3>1, CountsAreNumbers
    <3> QED  BY <2>5, <3>1, <3>2
  <2>9. CASE Crash
    BY <2>9, WakesAnew
  <2> QED  BY <2>2, <2>3, <2>4, <2>6, <2>7, <2>8, <2>9 DEF Next, Delivery
<1> QED  BY <1>3, <1>4

\* Nothing waits at the start.
LEMMA InitWake == Init => WakeInv
<1> SUFFICES ASSUME Init PROVE WakeInv
  OBVIOUS
<1>1. ListenInv
  BY DEF Init, ListenInv, Busy
<1>2. ASSUME NEW a \in Actors PROVE Wakes(a)
  <2>1. Parked(a) = {} /\ Gapping(a) = {} /\ tokens[a] = 0
    BY DEF Init, Parked, Gapping
  <2>2. Cardinality(Gapping(a)) = 0
    BY <2>1, FS_EmptySet
  <2> QED  BY <2>1, <2>2 DEF Wakes
<1>3. Cardinality(gone) <= faults
  BY FS_EmptySet DEF Init
<1> QED  BY <1>1, <1>2, <1>3 DEF WakeInv

\* While a GetNext handler is parked, every available invocation of its queue but for one per
\* fault has a wake-up on its way, for every number of callers, invocations and faults and for as
\* many handlers of one actor as its channel has places.  With more handlers than that it is
\* false: Dispatch drops a token.
THEOREM WakeupsArrive ==
    ASSUME RoomForAll
    PROVE  Spec => []NoLostWakeup
<1>1. IInv /\ WakeInv /\ [Next]_vars => WakeInv'
  BY WakeStep
<1>2. WakeInv /\ TypeOK => NoLostWakeup
  <2> SUFFICES ASSUME WakeInv, TypeOK, NEW a \in Actors, Parked(a) # {}
               PROVE  Cardinality(Available(a)) <= Cardinality(Announcing(a))
                          + Cardinality(InStream(a)) + Cardinality(Polling(a)) + faults
    BY DEF NoLostWakeup
  <2>1. Owed(a) <= Coming(a)
    BY DEF WakeInv, Wakes
  <2>2. tokens[a] = 0 /\ faults \in Nat
    BY BoundsAssumption DEF WakeInv, ListenInv, Parked, TypeOK
  <2>3. /\ Announcing(a) \subseteq Callers /\ Polling(a) \subseteq Workers
        /\ InStream(a) \subseteq 1 .. Len(stream) /\ GoneOf(a) \subseteq Workers
        /\ Available(a) \subseteq Ids
    BY DEF Announcing, Polling, InStream, GoneOf, Available, TypeOK
  <2>4. /\ IsFiniteSet(1 .. Len(stream)) /\ IsFiniteSet(Workers) /\ IsFiniteSet(Callers)
        /\ IsFiniteSet(Ids)
    BY FS_Interval, BoundsAssumption DEF TypeOK, RoomForAll, Ids
  <2>5. /\ Cardinality(Announcing(a)) \in Nat /\ Cardinality(Polling(a)) \in Nat
        /\ Cardinality(InStream(a)) \in Nat /\ Cardinality(GoneOf(a)) \in Nat
        /\ Cardinality(Available(a)) \in Nat
    BY <2>3, <2>4, CountSubset
  <2> QED  BY <2>1, <2>2, <2>5 DEF Owed, Coming
<1>3. IInv => TypeOK
  BY DEF IInv
<1> QED  BY <1>1, <1>2, <1>3, InitWake, InductiveInvariant, PTL DEF Spec
===============================================================================
