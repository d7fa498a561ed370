--------------------------- MODULE DispatcherProofs ---------------------------
(***************************************************************************)
(* Proofs about Dispatcher for every number of goroutines, ids and calls,  *)
(* every capacity, and whichever operations each goroutine calls: also     *)
(* when Close meets the others halfway, up to the panics it may cause.     *)
(***************************************************************************)
EXTENDS Dispatcher, FiniteSetTheorems, SequenceTheorems, TLAPS

-------------------------------------------------------------------------------
(* The inductive invariant *)

\* What a goroutine holds at each point of its call.
InCall(g) ==
    /\ pc[g] # "idle" => op[g] \in Ops /\ id[g] \in QueueIds
    /\ pc[g] = "load" => op[g] # "Close"
    /\ pc[g] = "send" => op[g] = "Dispatch" /\ chan[g] \in Chans
    /\ pc[g] = "receive" => op[g] = "WaitFor" /\ chan[g] \in Chans
    /\ pc[g] \in {"signal", "range", "delete"} => op[g] = "Close"
    /\ pc[g] # "idle" /\ op[g] = "Dispatch" => payload[g] \in 1 .. calls
CallInv == \A g \in Goroutines : InCall(g)

\* One Close at a time is past its close(d.closed), and the channels it has yet
\* to close are in the map.
Closing(g) == pc[g] \in {"range", "delete"}
CloseInv ==
    /\ \A g \in Goroutines : Closing(g) => closed
    /\ \A g, h \in Goroutines : Closing(g) /\ Closing(h) => g = h
    /\ \A g \in Goroutines : toClose[g] # {} => Closing(g)
    /\ \A g \in Goroutines : \A q \in toClose[g] : channels[q] # None

\* Each Listen or WaitFor makes one channel at most, and the map holds made ones.
MayMake == {g \in Goroutines : pc[g] \in {"check", "load"} /\ op[g] \in {"Listen", "WaitFor"}}
MadeInv == /\ IsFiniteSet(MayMake) /\ made + Cardinality(MayMake) <= calls
           /\ \A q \in QueueIds : channels[q] # None => channels[q] <= made

\* A payload is sent by the one Dispatch that was called with it, and then never again.
Sends(g, p) == /\ pc[g] \in {"check", "load", "send"} /\ op[g] = "Dispatch" /\ payload[g] = p
OneSender == \A p \in Payloads : \A g, h \in Goroutines : Sends(g, p) /\ Sends(h, p) => g = h
Sent(p)   == p <= calls /\ \A g \in Goroutines : ~Sends(g, p)
SentInv ==
    /\ OneSender
    /\ \A p \in Payloads : accepted[p] # None => Sent(p)
    /\ \A p \in Payloads : received[p] # None => accepted[p] # None

\* A channel serves one id for good: in the map, with those who wait or send, and by what
\* it buffers, also after Close has taken it out of the map.
InBuffer(p, c, k) == k \in 1 .. Len(buffer[c]) /\ buffer[c][k] = p
Serves(c, q) ==
    \/ channels[q] = c
    \/ \E g \in Goroutines : pc[g] \in {"receive", "send"} /\ chan[g] = c /\ id[g] = q
    \/ \E p \in Payloads, k \in Nat : InBuffer(p, c, k) /\ accepted[p] = q
ServesInv ==
    /\ \A c \in Chans, q, r \in QueueIds : Serves(c, q) /\ Serves(c, r) => q = r
    /\ \A c \in Chans, q \in QueueIds : Serves(c, q) => c <= made
    /\ \A p \in Payloads, c \in Chans, k \in Nat : InBuffer(p, c, k) => accepted[p] # None

\* Until Close, the channel of an id that somebody listened for stays.
HeardInv ==
    /\ ~closed => \A q \in heard : channels[q] # None
    /\ \A g \in expected : op[g] = "Dispatch" /\ id[g] \in heard

IInv == /\ TypeOK /\ CallInv /\ CloseInv /\ MadeInv /\ SentInv /\ ServesInv /\ HeardInv
        /\ OneChannelPerId /\ PayloadsStayInReach /\ ListenersAreHeard

-------------------------------------------------------------------------------
(* The steps *)

mapVars  == <<closed, channels, buffer, shut, made, calls>>
callVars == <<op, id, chan, payload, toClose>>

\* What most steps do: a call returns, or the process dies.
Returns(g) ==
    /\ UNCHANGED <<mapVars, callVars, history>>
    /\ \/ pc' = pc /\ result' = result
       \/ /\ pc' = [pc EXCEPT ![g] = "idle"] /\ (Closing(g) => toClose[g] = {})
          /\ \E r \in {"ok", "closed", "timeout", "noChannel", "full"} :
                 /\ result' = [result EXCEPT ![g] = r]
                 /\ r = "noChannel" => /\ pc[g] = "load" /\ op[g] = "Dispatch"
                                       /\ channels[id[g]] = None
    /\ panicked' \in {panicked, "send on closed channel", "close of closed channel"}

\* The others take a call one step on.
Enters(g) == CheckClosed(g) /\ ~closed
Finds(g)  == Load(g) /\ channels[id[g]] # None
Advances(g) ==
    \/ \E o \in Ops, q \in QueueIds : Call(g, o, q)
    \/ Enters(g) \/ LoadOrCompute(g) \/ Receive(g) \/ Finds(g) \/ Send(g)
    \/ CloseSignal(g) \/ DeleteChannel(g) \/ \E q \in QueueIds : CloseChannel(g, q)

\* The two kinds of steps are all there are.
LEMMA Steps ==
    ASSUME [Next]_vars
    PROVE  \/ UNCHANGED vars \/ \E g \in Goroutines : Returns(g) \/ Advances(g)
<1> SUFFICES ASSUME Next PROVE \E g \in Goroutines : Returns(g) \/ Advances(g)
  OBVIOUS
<1> USE DEF Return, Goto, At, Closing, mapVars, callVars, history, Returns, Panic
<1>1. ASSUME NEW g \in Goroutines
      PROVE  /\ CheckClosed(g) /\ closed => Returns(g)
             /\ ReceiveClosed(g) \/ ReceiveTimeout(g) => Returns(g)
             /\ SendClosed(g) \/ SendDropped(g) \/ CloseReturns(g) => Returns(g)
  BY DEF CheckClosed, ReceiveClosed, ReceiveTimeout, AfterTimeout, SendClosed, SendDropped,
         CloseReturns
<1>2. ASSUME NEW g \in Goroutines
      PROVE  /\ SendPanics(g) \/ CloseSignalPanics(g) => Returns(g)
             /\ Load(g) /\ channels[id[g]] = None => Returns(g)
  BY DEF SendPanics, CloseSignalPanics, Load
<1> HIDE DEF Return, Goto, At, Closing, mapVars, callVars, history, Returns, Panic
<1>3. ASSUME NEW g \in Goroutines, Step(g) \/ ReceiveTimeout(g) PROVE Returns(g) \/ Advances(g)
  <2>1. CheckClosed(g) => Returns(g) \/ Enters(g)
    BY <1>1 DEF Enters
  <2>2. Load(g) => Returns(g) \/ Finds(g)
    BY <1>2 DEF Finds
  <2> QED  BY <1>1, <1>2, <1>3, <2>1, <2>2 DEF Step, Advances
<1>4. ASSUME NEW g \in Goroutines, NEW o \in Ops, NEW q \in QueueIds, Call(g, o, q)
      PROVE  Advances(g)
  BY <1>4 DEF Advances
<1> QED
  BY <1>3, <1>4 DEF Next

\* d.closed is closed once (close(d.closed)).
LEMMA ClosedStays ==
    ASSUME [Next]_vars
    PROVE  closed' = closed \/ (closed' = TRUE /\ \E g \in Goroutines : CloseSignal(g))
<1>1. \A g \in Goroutines : Advances(g) => closed' = closed \/ (closed' = TRUE /\ CloseSignal(g))
  BY DEF Advances, Call, Enters, CheckClosed, LoadOrCompute, Receive, Finds, Load, Send,
     CloseSignal, DeleteChannel, CloseChannel
<1>2. \A g \in Goroutines : Returns(g) => closed' = closed
  BY DEF Returns, mapVars
<1> QED  BY <1>1, <1>2, Steps DEF vars

\* Which steps write which variables.
LEMMA Writers ==
    ASSUME [Next]_vars
    PROVE  /\ UNCHANGED made \/ \E g \in Goroutines : LoadOrCompute(g)
           /\ UNCHANGED channels \/ \E g \in Goroutines : LoadOrCompute(g) \/ DeleteChannel(g)
           /\ UNCHANGED buffer \/ \E g \in Goroutines : Receive(g) \/ Send(g)
           /\ UNCHANGED received \/ \E g \in Goroutines : Receive(g)
           /\ UNCHANGED accepted \/ \E g \in Goroutines : Send(g)
           /\ UNCHANGED shut \/ \E g \in Goroutines, q \in QueueIds : CloseChannel(g, q)
           /\ UNCHANGED heard \/ \E g \in Goroutines : LoadOrCompute(g)
           /\ \/ UNCHANGED <<calls, op, payload, expected>>
              \/ \E g \in Goroutines, o \in Ops, q \in QueueIds : Call(g, o, q)
           /\ \/ UNCHANGED id \/ \E g \in Goroutines, o \in Ops, q \in QueueIds : Call(g, o, q)
              \/ \E g \in Goroutines, q \in QueueIds : CloseChannel(g, q)
           /\ \/ UNCHANGED chan \/ \E g \in Goroutines, o \in Ops, q \in QueueIds : Call(g, o, q)
              \/ \E g \in Goroutines : LoadOrCompute(g) \/ Finds(g)
           /\ UNCHANGED toClose \/ \E g \in Goroutines : CloseSignal(g) \/ DeleteChannel(g)
<1> USE DEF history
<1>1. ASSUME NEW g \in Goroutines, Enters(g) \/ Finds(g)
      PROVE  /\ UNCHANGED <<channels, buffer, shut, made, calls, op, id, payload, toClose, history>>
             /\ UNCHANGED chan \/ Finds(g)
  BY <1>1 DEF Enters, Finds, CheckClosed, Load
<1>2. ASSUME NEW g \in Goroutines, Returns(g)
      PROVE  UNCHANGED <<channels, buffer, shut, made, calls, op, id, chan, payload, toClose,
                         history>>
  BY <1>2 DEF Returns, mapVars, callVars
<1>3. ASSUME NEW g \in Goroutines, Receive(g) \/ Send(g)
      PROVE  /\ UNCHANGED <<channels, shut, made, calls, op, id, chan, payload, toClose, heard, expected>>
             /\ UNCHANGED received \/ Receive(g)
             /\ UNCHANGED accepted \/ Send(g)
  BY <1>3 DEF Receive, Send
<1>4. ASSUME NEW g \in Goroutines, LoadOrCompute(g)
      PROVE  UNCHANGED <<buffer, accepted, received, shut, calls, op, payload, expected, id, toClose>>
  BY <1>4 DEF LoadOrCompute
<1>5. ASSUME NEW g \in Goroutines, NEW o \in Ops, NEW q \in QueueIds, Call(g, o, q)
      PROVE  UNCHANGED <<channels, buffer, accepted, received, shut, made, heard, toClose>>
  BY <1>5 DEF Call
<1>6. ASSUME NEW g \in Goroutines, CloseSignal(g) \/ DeleteChannel(g)
      PROVE  /\ UNCHANGED <<made, buffer, shut, calls, op, id, chan, payload, history>>
             /\ UNCHANGED channels \/ DeleteChannel(g)
  BY <1>6 DEF CloseSignal, DeleteChannel
<1>7. ASSUME NEW g \in Goroutines, NEW q \in QueueIds, CloseChannel(g, q)
      PROVE  UNCHANGED <<channels, made, buffer, calls, op, chan, payload, toClose, history>>
  BY <1>7 DEF CloseChannel
<1>8. CASE UNCHANGED vars
  BY <1>8 DEF vars
<1>9. CASE \E g \in Goroutines : Returns(g)
  BY <1>9, <1>2
<1>10. ASSUME NEW g \in Goroutines, Advances(g)
       PROVE  \/ Enters(g) \/ Finds(g) \/ Receive(g) \/ Send(g) \/ LoadOrCompute(g)
              \/ CloseSignal(g) \/ DeleteChannel(g)
              \/ \E o \in Ops, q \in QueueIds : Call(g, o, q)
              \/ \E q \in QueueIds : CloseChannel(g, q)
  BY <1>10 DEF Advances
<1>11. CASE \E g \in Goroutines : Enters(g) \/ Finds(g)
  BY <1>11, <1>1
<1>12. CASE \E g \in Goroutines : Receive(g) \/ Send(g)
  BY <1>12, <1>3
<1>13. CASE \E g \in Goroutines : LoadOrCompute(g)
  BY <1>13, <1>4
<1>14. CASE \E g \in Goroutines, o \in Ops, q \in QueueIds : Call(g, o, q)
  BY <1>14, <1>5
<1>15. CASE \E g \in Goroutines : CloseSignal(g) \/ DeleteChannel(g)
  BY <1>15, <1>6
<1>16. CASE \E g \in Goroutines, q \in QueueIds : CloseChannel(g, q)
  BY <1>16, <1>7
<1>17. \/ UNCHANGED vars \/ \E g \in Goroutines : Returns(g) \/ Advances(g)
  BY Steps
<1> QED  BY <1>8, <1>9, <1>10, <1>11, <1>12, <1>13, <1>14, <1>15, <1>16, <1>17

\* Where a goroutine stands, and what its last call returned.
PC == {"idle", "check", "load", "send", "receive", "signal", "range", "delete"}
Results == {"none", "ok", "closed", "timeout", "noChannel", "full"}

\* Every step goes to a place of the code (all the operations).
LEMMA PlaceStep ==
    ASSUME TypeOK, [Next]_vars
    PROVE  pc' \in [Goroutines -> PC] /\ result' \in [Goroutines -> Results]
<1> DEFINE Placed == pc' \in [Goroutines -> PC] /\ result' \in [Goroutines -> Results]
<1>a. pc \in [Goroutines -> PC] /\ result \in [Goroutines -> Results]
  BY DEF TypeOK, PC, Results
<1>b. \A g \in Goroutines : Goto(g, "check") \/ Goto(g, "load") \/ Goto(g, "send")
          \/ Goto(g, "receive")
         \/ Goto(g, "signal") \/ Goto(g, "range") \/ Goto(g, "delete") => pc' \in [Goroutines -> PC]
  BY <1>a DEF Goto, PC
<1>c. \A g \in Goroutines : Return(g, "ok") => Placed
  BY <1>a DEF Goto, Return, PC, Results
<1>1. CASE UNCHANGED vars
  BY <1>1, <1>a DEF vars
<1>2. ASSUME NEW g \in Goroutines, Returns(g) PROVE Placed
  <2>1. CASE pc' = pc /\ result' = result
    BY <2>1, <1>a
  <2>2. CASE /\ pc' = [pc EXCEPT ![g] = "idle"]
             /\ \E r \in {"ok", "closed", "timeout", "noChannel", "full"} :
                    result' = [result EXCEPT ![g] = r]
    BY <2>2, <1>a DEF PC, Results
  <2> QED  BY <1>2, <2>1, <2>2 DEF Returns
<1>3. ASSUME NEW g \in Goroutines, NEW o \in Ops, NEW q \in QueueIds, Call(g, o, q) PROVE Placed
  <2>1. Goto(g, "check") /\ result' = [result EXCEPT ![g] = "none"]
    BY <1>3 DEF Call
  <2> QED  BY <2>1, <1>a, <1>b DEF Results
<1>4. ASSUME NEW g \in Goroutines, Enters(g) PROVE Placed
  <2>1. (Goto(g, "signal") \/ Goto(g, "load")) /\ result' = result
    BY <1>4 DEF Enters, CheckClosed, Goto
  <2> QED  BY <2>1, <1>a, <1>b
<1>5. ASSUME NEW g \in Goroutines, LoadOrCompute(g) PROVE Placed
  <2>1. Return(g, "ok") \/ (Goto(g, "receive") /\ result' = result)
    BY <1>5 DEF LoadOrCompute
  <2> QED  BY <2>1, <1>a, <1>b, <1>c
<1>6. ASSUME NEW g \in Goroutines, Receive(g) \/ Send(g) PROVE Placed
  BY <1>6, <1>c DEF Receive, Send
<1>7. ASSUME NEW g \in Goroutines, Finds(g) \/ CloseSignal(g) \/ DeleteChannel(g) PROVE Placed
  <2>1. (Goto(g, "send") \/ Goto(g, "range")) /\ result' = result
    BY <1>7 DEF Finds, Load, CloseSignal, DeleteChannel, Return
  <2> QED  BY <2>1, <1>a, <1>b
<1>8. ASSUME NEW g \in Goroutines, NEW q \in QueueIds, CloseChannel(g, q) PROVE Placed
  <2>1. Goto(g, "delete") /\ result' = result
    BY <1>8 DEF CloseChannel
  <2> QED  BY <2>1, <1>a, <1>b
<1> QED
  BY <1>1, <1>2, <1>3, <1>4, <1>5, <1>6, <1>7, <1>8, Steps DEF Advances

\* LoadOrCompute puts a channel in the map that was in it or is new, and there is
\* room for a new one: no more channels are made than calls.
LEMMA LoadsAChannel ==
    ASSUME TypeOK, CallInv, MadeInv, NEW g \in Goroutines, LoadOrCompute(g)
    PROVE  /\ id[g] \in QueueIds /\ made' \in 0 .. MaxCalls
           /\ \E c \in Chans : /\ channels' = [channels EXCEPT ![id[g]] = c]
                               /\ chan' = [chan EXCEPT ![g] = c]
                               /\ channels[id[g]] # None => c = channels[id[g]]
<1>1. g \in MayMake
  BY DEF LoadOrCompute, At, MayMake
<1>2. Cardinality(MayMake) \in Nat /\ Cardinality(MayMake) # 0
  BY <1>1, FS_CardinalityType, FS_EmptySet DEF MadeInv
<1>3. made \in 0 .. MaxCalls /\ calls \in 0 .. MaxCalls
  BY DEF TypeOK
<1>4. made + 1 \in 1 .. MaxCalls
  BY <1>2, <1>3, MaxCallsAssumption DEF MadeInv
<1> DEFINE c == IF Loaded(g) = None THEN made + 1 ELSE Loaded(g)
<1>5. id[g] \in QueueIds
  BY DEF LoadOrCompute, At, CallInv, InCall
<1>6. channels[id[g]] \in Chans \cup {None}
  BY <1>5 DEF TypeOK
<1>7. c \in Chans
  BY <1>4, <1>6 DEF Loaded, Chans
<1>8. /\ chan' = [chan EXCEPT ![g] = c] /\ channels' = [channels EXCEPT ![id[g]] = c]
      /\ made' = IF c > made THEN c ELSE made
  BY DEF LoadOrCompute
<1>9. channels[id[g]] # None => c = channels[id[g]]
  BY DEF Loaded
<1> HIDE DEF c
<1>10. made' \in 0 .. MaxCalls
  BY <1>3, <1>7, <1>8, MaxCallsAssumption DEF Chans
<1> QED  BY <1>5, <1>7, <1>8, <1>9, <1>10

\* A buffer holds payloads, and no more of them than its capacity.
LEMMA BufferStep ==
    ASSUME TypeOK, CallInv, [Next]_vars
    PROVE  buffer' \in [Chans -> Seq(Payloads)] /\ \A c \in Chans : Len(buffer'[c]) <= Capacity
<1>a. buffer \in [Chans -> Seq(Payloads)] /\ \A c \in Chans : Len(buffer[c]) <= Capacity
  BY DEF TypeOK
<1>b. calls \in 0 .. MaxCalls
  BY DEF TypeOK
<1>1. CASE UNCHANGED buffer
  BY <1>1, <1>a
<1>2. ASSUME NEW g \in Goroutines, Receive(g)
      PROVE  buffer' \in [Chans -> Seq(Payloads)] /\ \A c \in Chans : Len(buffer'[c]) <= Capacity
  <2> DEFINE b == buffer[chan[g]]
  <2>1. chan[g] \in Chans /\ b \in Seq(Payloads) /\ b # << >> /\ Len(b) <= Capacity
    BY <1>2, <1>a DEF Receive, At, CallInv, InCall
  <2>2. Tail(b) \in Seq(Payloads) /\ Len(Tail(b)) <= Capacity
    <3> HIDE DEF b
    <3> QED  BY <2>1, HeadTailProperties, LenProperties, CapacityAssumption
  <2>3. buffer' = [buffer EXCEPT ![chan[g]] = Tail(b)]
    BY <1>2 DEF Receive
  <2> HIDE DEF b
  <2> QED  BY <1>a, <2>1, <2>2, <2>3
<1>3. ASSUME NEW g \in Goroutines, Send(g)
      PROVE  buffer' \in [Chans -> Seq(Payloads)] /\ \A c \in Chans : Len(buffer'[c]) <= Capacity
  <2> DEFINE b == buffer[chan[g]]
  <2>1. chan[g] \in Chans /\ payload[g] \in 1 .. calls
    BY <1>3 DEF Send, At, CallInv, InCall
  <2>2. payload[g] \in Payloads
    BY <2>1, <1>b, MaxCallsAssumption DEF Payloads
  <2>3. b \in Seq(Payloads) /\ ~(Len(b) >= Capacity)
    BY <1>3, <1>a, <2>1 DEF Send, Full
  <2>4. Append(b, payload[g]) \in Seq(Payloads) /\ Len(Append(b, payload[g])) <= Capacity
    <3> HIDE DEF b
    <3> QED  BY <2>2, <2>3, AppendProperties, LenProperties, CapacityAssumption
  <2>5. buffer' = [buffer EXCEPT ![chan[g]] = Append(b, payload[g])]
    BY <1>3 DEF Send
  <2> HIDE DEF b
  <2> QED  BY <1>a, <2>1, <2>4, <2>5
<1> QED  BY <1>1, <1>2, <1>3, Writers

\* Every variable keeps its type (all the operations; LoadOrCompute, Send, Close).
LEMMA TypeStep ==
    ASSUME TypeOK, CallInv, CloseInv, MadeInv, [Next]_vars
    PROVE  TypeOK'
<1>a. closed' \in BOOLEAN
  <2>1. closed \in BOOLEAN
    BY DEF TypeOK
  <2> QED  BY <2>1, ClosedStays
<1>b. channels' \in [QueueIds -> Chans \cup {None}]
  <2>0. channels \in [QueueIds -> Chans \cup {None}]
    BY DEF TypeOK
  <2>1. ASSUME NEW g \in Goroutines, LoadOrCompute(g)
        PROVE  channels' \in [QueueIds -> Chans \cup {None}]
    BY <2>0, <2>1, LoadsAChannel
  <2>2. ASSUME NEW g \in Goroutines, DeleteChannel(g)
        PROVE  channels' \in [QueueIds -> Chans \cup {None}]
    BY <2>0, <2>2 DEF DeleteChannel
  <2> QED  BY <2>0, <2>1, <2>2, Writers
<1>c. shut' \subseteq Chans
  <2>1. ASSUME NEW g \in Goroutines, NEW q \in QueueIds, CloseChannel(g, q)
        PROVE  channels[q] \in Chans
    <3>1. channels \in [QueueIds -> Chans \cup {None}]
      BY DEF TypeOK
    <3>2. channels[q] # None
      BY <2>1 DEF CloseChannel, CloseInv
    <3> QED  BY <3>1, <3>2
  <2>2. shut \subseteq Chans
    BY DEF TypeOK
  <2> QED  BY <2>1, <2>2, Writers DEF CloseChannel
<1>d. made' \in 0 .. MaxCalls
  <2>1. made \in 0 .. MaxCalls
    BY DEF TypeOK
  <2> QED  BY <2>1, LoadsAChannel, Writers
<1>e. calls' \in 0 .. MaxCalls
  <2>1. calls \in 0 .. MaxCalls
    BY DEF TypeOK
  <2>2. ASSUME NEW g \in Goroutines, NEW o \in Ops, NEW q \in QueueIds, Call(g, o, q)
        PROVE  calls < MaxCalls /\ calls' = calls + 1
    BY <2>2 DEF Call
  <2> QED  BY <2>1, <2>2, Writers, MaxCallsAssumption
<1>f. op' \in [Goroutines -> Ops \cup {None}] /\ expected' \subseteq Goroutines
  <2>1. op \in [Goroutines -> Ops \cup {None}] /\ expected \subseteq Goroutines
    BY DEF TypeOK
  <2> QED  BY <2>1, Writers DEF Call
<1>g. payload' \in [Goroutines -> Payloads \cup {None}]
  <2>0. payload \in [Goroutines -> Payloads \cup {None}] /\ calls \in 0 .. MaxCalls
    BY DEF TypeOK
  <2>1. ASSUME NEW g \in Goroutines, NEW o \in Ops, NEW q \in QueueIds, Call(g, o, q)
        PROVE  payload' \in [Goroutines -> Payloads \cup {None}]
    <3>1. calls < MaxCalls
      BY <2>1 DEF Call
    <3>2. calls + 1 \in Payloads
      BY <2>0, <3>1, MaxCallsAssumption DEF Payloads
    <3>3. payload' = [payload EXCEPT ![g] = IF o = "Dispatch" THEN calls + 1 ELSE None]
      BY <2>1 DEF Call
    <3> QED  BY <2>0, <3>2, <3>3
  <2> QED  BY <2>0, <2>1, Writers
<1>h. id' \in [Goroutines -> QueueIds \cup {None}]
  <2>1. id \in [Goroutines -> QueueIds \cup {None}]
    BY DEF TypeOK
  <2> QED  BY <2>1, Writers DEF Call, CloseChannel
<1>i. chan' \in [Goroutines -> Chans \cup {None}]
  <2>0. chan \in [Goroutines -> Chans \cup {None}] /\ channels \in [QueueIds -> Chans \cup {None}]
    BY DEF TypeOK
  <2>1. ASSUME NEW g \in Goroutines, Finds(g) PROVE chan' \in [Goroutines -> Chans \cup {None}]
    BY <2>0, <2>1 DEF Finds, Load, At, CallInv, InCall
  <2>2. ASSUME NEW g \in Goroutines, LoadOrCompute(g)
        PROVE  chan' \in [Goroutines -> Chans \cup {None}]
    BY <2>0, <2>2, LoadsAChannel
  <2> QED  BY <2>0, <2>1, <2>2, Writers DEF Call
<1>j. toClose' \in [Goroutines -> SUBSET QueueIds]
  <2>1. toClose \in [Goroutines -> SUBSET QueueIds]
    BY DEF TypeOK
  <2>2. \A g \in Goroutines : CloseSignal(g) => toClose' \in [Goroutines -> SUBSET QueueIds]
    BY <2>1 DEF CloseSignal
  <2>3. \A g \in Goroutines : DeleteChannel(g) => toClose' \in [Goroutines -> SUBSET QueueIds]
    BY <2>1 DEF DeleteChannel
  <2> QED  BY <2>1, <2>2, <2>3, Writers
<1>k. /\ accepted' \in [Payloads -> QueueIds \cup {None}]
      /\ received' \in [Payloads -> QueueIds \cup {None}]
  <2>1. /\ accepted \in [Payloads -> QueueIds \cup {None}]
        /\ received \in [Payloads -> QueueIds \cup {None}]
    BY DEF TypeOK
  <2>2. \A g \in Goroutines : pc[g] # "idle" => id[g] \in QueueIds
    BY DEF CallInv, InCall
  <2> QED  BY <2>1, <2>2, Writers DEF Receive, Send, At
<1>l. heard' \subseteq QueueIds
  <2>1. heard \subseteq QueueIds
    BY DEF TypeOK
  <2> QED  BY <2>1, Writers, LoadsAChannel DEF LoadOrCompute
<1>m. panicked' \in {"no", "send on closed channel", "close of closed channel"}
  <2>1. panicked \in {"no", "send on closed channel", "close of closed channel"}
    BY DEF TypeOK
  <2>2. \A g \in Goroutines : Advances(g) => panicked' = panicked
    BY DEF Advances, Call, Enters, CheckClosed, LoadOrCompute, Receive, Finds, Load, Send,
       CloseSignal, DeleteChannel, CloseChannel
  <2> QED  BY <2>1, <2>2, Steps DEF Returns, vars
<1> QED
  BY <1>a, <1>b, <1>c, <1>d, <1>e, <1>f, <1>g, <1>h, <1>i, <1>j, <1>k, <1>l, <1>m, PlaceStep,
     BufferStep
  DEF TypeOK, PC, Results

\* A step of one goroutine leaves the calls of the others alone.
Stays(h) == /\ pc'[h] = pc[h] /\ op'[h] = op[h] /\ id'[h] = id[h] /\ chan'[h] = chan[h]
            /\ payload'[h] = payload[h] /\ toClose'[h] = toClose[h] /\ result'[h] = result[h]
            /\ (h \in expected' <=> h \in expected)

\* A call that goes on or returns leaves the locals of the other goroutines alone.
LEMMA OthersStay ==
    ASSUME TypeOK, NEW g \in Goroutines, Returns(g) \/ Advances(g), NEW h \in Goroutines, h # g
    PROVE  Stays(h)
<1>a. pc \in [Goroutines -> PC] /\ result \in [Goroutines -> Results]
  BY DEF TypeOK, PC, Results
<1>b. op \in [Goroutines -> Ops \cup {None}] /\ id \in [Goroutines -> QueueIds \cup {None}]
  BY DEF TypeOK
<1>c. chan \in [Goroutines -> Chans \cup {None}] /\ payload \in [Goroutines -> Payloads \cup {None}]
  BY DEF TypeOK
<1>d. toClose \in [Goroutines -> SUBSET QueueIds]
  BY DEF TypeOK
<1> USE DEF Stays, Return, Goto, history
<1>1. CASE Returns(g)
  BY <1>1, <1>a DEF Returns, callVars
<1>2. CASE \E o \in Ops, q \in QueueIds : Call(g, o, q)
  BY <1>2, <1>a, <1>b, <1>c DEF Call
<1>3. CASE Enters(g)
  BY <1>3, <1>a DEF Enters, CheckClosed
<1>4. CASE LoadOrCompute(g)
  BY <1>4, <1>a, <1>c DEF LoadOrCompute
<1>5. CASE Receive(g) \/ Send(g)
  BY <1>5, <1>a DEF Receive, Send
<1>6. CASE Finds(g)
  BY <1>6, <1>a, <1>c DEF Finds, Load
<1>7. CASE CloseSignal(g) \/ DeleteChannel(g)
  BY <1>7, <1>a, <1>d DEF CloseSignal, DeleteChannel
<1>8. CASE \E q \in QueueIds : CloseChannel(g, q)
  BY <1>8, <1>a, <1>b DEF CloseChannel
<1> QED  BY <1>1, <1>2, <1>3, <1>4, <1>5, <1>6, <1>7, <1>8 DEF Advances

\* Where each step takes the goroutine that makes it.
LEMMA Goes ==
    ASSUME TypeOK, NEW g \in Goroutines
    PROVE  /\ Returns(g) => pc'[g] \in {pc[g], "idle"}
           /\ (\E o \in Ops, q \in QueueIds : Call(g, o, q)) => pc[g] = "idle" /\ pc'[g] = "check"
           /\ Enters(g) => pc[g] = "check" /\ pc'[g] = IF op[g] = "Close" THEN "signal" ELSE "load"
           /\ LoadOrCompute(g) =>
                  /\ pc[g] = "load" /\ op[g] \in {"Listen", "WaitFor"}
                  /\ pc'[g] = IF op[g] = "Listen" THEN "idle" ELSE "receive"
           /\ Receive(g) => pc[g] = "receive" /\ pc'[g] = "idle"
           /\ Finds(g) => pc[g] = "load" /\ op[g] = "Dispatch" /\ pc'[g] = "send"
           /\ Send(g) => pc[g] = "send" /\ pc'[g] = "idle"
           /\ CloseSignal(g) => pc[g] = "signal" /\ pc'[g] = "range"
           /\ DeleteChannel(g) => pc[g] = "delete" /\ pc'[g] = "range"
           /\ (\E q \in QueueIds : CloseChannel(g, q)) => pc[g] = "range" /\ pc'[g] = "delete"
<1>1. pc \in [Goroutines -> PC]
  BY DEF TypeOK, PC
<1> USE DEF Return, Goto, At
<1>2. /\ Returns(g) => pc'[g] \in {pc[g], "idle"}
      /\ (\E o \in Ops, q \in QueueIds : Call(g, o, q)) => pc[g] = "idle" /\ pc'[g] = "check"
  BY <1>1 DEF Returns, Call
<1>3. Enters(g) => pc[g] = "check" /\ pc'[g] = IF op[g] = "Close" THEN "signal" ELSE "load"
  BY <1>1 DEF Enters, CheckClosed
<1>4. LoadOrCompute(g) => /\ pc[g] = "load" /\ op[g] \in {"Listen", "WaitFor"}
                          /\ pc'[g] = IF op[g] = "Listen" THEN "idle" ELSE "receive"
  BY <1>1 DEF LoadOrCompute
<1>5. /\ Receive(g) => pc[g] = "receive" /\ pc'[g] = "idle"
      /\ Send(g) => pc[g] = "send" /\ pc'[g] = "idle"
  BY <1>1 DEF Receive, Send
<1>6. Finds(g) => pc[g] = "load" /\ op[g] = "Dispatch" /\ pc'[g] = "send"
  BY <1>1 DEF Finds, Load
<1>7. /\ CloseSignal(g) => pc[g] = "signal" /\ pc'[g] = "range"
      /\ DeleteChannel(g) => pc[g] = "delete" /\ pc'[g] = "range"
      /\ (\E q \in QueueIds : CloseChannel(g, q)) => pc[g] = "range" /\ pc'[g] = "delete"
  BY <1>1 DEF CloseSignal, DeleteChannel, CloseChannel
<1> QED  BY <1>2, <1>3, <1>4, <1>5, <1>6, <1>7

\* A call keeps what it needs from one of its steps to the next (all the operations).
LEMMA CallInvStep ==
    ASSUME TypeOK, CallInv, MadeInv, [Next]_vars
    PROVE  CallInv'
<1>a. \A p : p \in 1 .. calls => p \in 1 .. calls'
  <2>1. calls \in 0 .. MaxCalls
    BY DEF TypeOK
  <2>2. calls' = calls \/ calls' = calls + 1
    BY Writers DEF Call
  <2> QED  BY <2>1, <2>2, MaxCallsAssumption
<1>1. CASE UNCHANGED vars
  BY <1>1 DEF CallInv, InCall, vars
<1>2. ASSUME NEW g \in Goroutines, Returns(g) \/ Advances(g), InCall(g)' PROVE CallInv'
  <2> SUFFICES ASSUME NEW h \in Goroutines, h # g PROVE InCall(h)'
    BY <1>2 DEF CallInv
  <2>1. Stays(h) /\ InCall(h)
    BY <1>2, OthersStay DEF CallInv
  <2> QED  BY <2>1, <1>a DEF Stays, InCall
<1>3. ASSUME NEW g \in Goroutines, Returns(g) PROVE InCall(g)'
  <2>1. pc'[g] \in {pc[g], "idle"} /\ UNCHANGED <<op, id, chan, payload>> /\ InCall(g)
    BY <1>3, Goes DEF Returns, callVars, CallInv
  <2> QED  BY <2>1, <1>a DEF InCall
<1>4. ASSUME NEW g \in Goroutines, NEW o \in Ops, NEW q \in QueueIds, Call(g, o, q) PROVE InCall(g)'
  <2>1. pc'[g] = "check"
    BY <1>4, Goes
  <2>2. op'[g] = o /\ id'[g] = q /\ (o = "Dispatch" => payload'[g] = calls + 1)
            /\ calls' = calls + 1
    BY <1>4 DEF Call, TypeOK
  <2>3. calls + 1 \in 1 .. calls'
    <3>1. calls \in 0 .. MaxCalls
      BY DEF TypeOK
    <3> QED  BY <2>2, <3>1, MaxCallsAssumption
  <2> QED  BY <2>1, <2>2, <2>3 DEF InCall
<1>5. ASSUME NEW g \in Goroutines, Enters(g) PROVE InCall(g)'
  <2>1. pc[g] = "check" /\ pc'[g] = (IF op[g] = "Close" THEN "signal" ELSE "load") /\ InCall(g)
    BY <1>5, Goes DEF CallInv
  <2>2. UNCHANGED <<op, id, payload>>
    BY <1>5 DEF Enters, CheckClosed
  <2> QED  BY <2>1, <2>2, <1>a DEF InCall
<1>6. ASSUME NEW g \in Goroutines, LoadOrCompute(g) PROVE InCall(g)'
  <2>1. /\ pc[g] = "load" /\ op[g] \in {"Listen", "WaitFor"} /\ InCall(g)
        /\ pc'[g] = IF op[g] = "Listen" THEN "idle" ELSE "receive"
    BY <1>6, Goes DEF CallInv
  <2>2. chan'[g] \in Chans
    <3>1. chan \in [Goroutines -> Chans \cup {None}]
      BY DEF TypeOK
    <3> QED  BY <1>6, <3>1, LoadsAChannel
  <2>3. UNCHANGED <<op, id, payload>>
    BY <1>6 DEF LoadOrCompute
  <2> QED  BY <2>1, <2>2, <2>3 DEF InCall
<1>7. ASSUME NEW g \in Goroutines, Receive(g) \/ Send(g) PROVE InCall(g)'
  <2>1. pc'[g] = "idle"
    BY <1>7, Goes
  <2> QED  BY <2>1 DEF InCall
<1>8. ASSUME NEW g \in Goroutines, Finds(g) PROVE InCall(g)'
  <2>1. pc[g] = "load" /\ op[g] = "Dispatch" /\ pc'[g] = "send" /\ InCall(g)
    BY <1>8, Goes DEF CallInv
  <2>2. chan'[g] = channels[id[g]] /\ channels[id[g]] # None /\ UNCHANGED <<op, id, payload>>
    BY <1>8 DEF Finds, Load, TypeOK
  <2>3. channels[id[g]] \in Chans
    BY <2>1, <2>2 DEF TypeOK, InCall
  <2> QED  BY <2>1, <2>2, <2>3, <1>a DEF InCall
<1>9. ASSUME NEW g \in Goroutines, CloseSignal(g) \/ DeleteChannel(g) PROVE InCall(g)'
  <2>1. pc[g] \in {"signal", "delete"} /\ pc'[g] = "range" /\ InCall(g)
    BY <1>9, Goes DEF CallInv
  <2>2. UNCHANGED <<op, id, payload>>
    BY <1>9 DEF CloseSignal, DeleteChannel
  <2> QED  BY <2>1, <2>2, <1>a DEF InCall
<1>10. ASSUME NEW g \in Goroutines, NEW q \in QueueIds, CloseChannel(g, q) PROVE InCall(g)'
  <2>1. pc[g] = "range" /\ pc'[g] = "delete" /\ InCall(g)
    BY <1>10, Goes DEF CallInv
  <2>2. UNCHANGED <<op, payload>> /\ id'[g] = q
    BY <1>10 DEF CloseChannel, TypeOK
  <2> QED  BY <2>1, <2>2, <1>a DEF InCall
<1>11. ASSUME NEW g \in Goroutines, Advances(g) PROVE InCall(g)'
  BY <1>4, <1>5, <1>6, <1>7, <1>8, <1>9, <1>10, <1>11 DEF Advances
<1> QED  BY <1>1, <1>2, <1>3, <1>11, Steps

\* Close is entered by close(d.closed) and left when no channel is left to close.
LEMMA ClosingMoves ==
    ASSUME TypeOK, CloseInv, [Next]_vars, NEW h \in Goroutines
    PROVE  /\ Closing(h)' => Closing(h) \/ CloseSignal(h)
           /\ Closing(h) => Closing(h)' \/ toClose'[h] = {}
           /\ toClose'[h] \subseteq toClose[h] \/ CloseSignal(h)
<1>1. CASE UNCHANGED vars
  BY <1>1 DEF vars, Closing
<1>2. ASSUME NEW g \in Goroutines, g # h, Returns(g) \/ Advances(g)
      PROVE  pc'[h] = pc[h] /\ toClose'[h] = toClose[h]
  BY <1>2, OthersStay DEF Stays
<1>3. CASE Returns(h)
  <2>1. UNCHANGED toClose
            /\ (UNCHANGED pc \/ (pc' = [pc EXCEPT ![h] = "idle"] /\ (Closing(h) => toClose[h] = {})))
    BY <1>3 DEF Returns, callVars
  <2> QED  BY <2>1, <1>3, Goes DEF Closing
<1>4. CASE Advances(h)
  <2>1. CASE CloseSignal(h)
    BY <2>1, Goes DEF Closing
  <2>2. CASE DeleteChannel(h)
    <3>1. pc[h] = "delete" /\ pc'[h] = "range"
      BY <2>2, Goes
    <3>2. toClose'[h] \subseteq toClose[h]
      BY <2>2 DEF DeleteChannel, TypeOK
    <3> QED  BY <3>1, <3>2 DEF Closing
  <2>3. CASE \E q \in QueueIds : CloseChannel(h, q)
    BY <2>3, Goes DEF Closing, CloseChannel
  <2>4. CASE \/ Enters(h) \/ LoadOrCompute(h) \/ Receive(h) \/ Finds(h) \/ Send(h)
             \/ \E o \in Ops, q \in QueueIds : Call(h, o, q)
    <3>1. ~Closing(h) /\ ~Closing(h)'
      BY <2>4, Goes DEF Closing
    <3>2. UNCHANGED toClose
      BY <2>4 DEF Enters, CheckClosed, LoadOrCompute, Receive, Finds, Load, Send, Call
    <3> QED  BY <3>1, <3>2
  <2> QED  BY <1>4, <2>1, <2>2, <2>3, <2>4 DEF Advances
<1> QED  BY <1>1, <1>2, <1>3, <1>4, Steps DEF Closing

\* One Close closes the channels, all of which are in the map until it deletes them.
LEMMA CloseInvStep ==
    ASSUME TypeOK, CallInv, CloseInv, MadeInv, [Next]_vars
    PROVE  CloseInv'
<1>a. \A g \in Goroutines : CloseSignal(g) => ~closed /\ closed'
  BY DEF CloseSignal
<1>b. closed => closed'
  BY ClosedStays
<1>1. \A g \in Goroutines : Closing(g)' => closed'
  BY <1>a, <1>b, ClosingMoves DEF CloseInv
<1>2. ASSUME NEW g \in Goroutines, NEW h \in Goroutines, Closing(g)', Closing(h)' PROVE g = h
  <2>1. CASE \E k \in Goroutines : CloseSignal(k)
    <3> PICK k \in Goroutines : CloseSignal(k)
      BY <2>1
    <3>1. ~Closing(g) /\ ~Closing(h)
      BY <1>a DEF CloseInv
    <3>2. \A j \in Goroutines : Closing(j)' /\ ~Closing(j) => j = k
      BY <2>1, Goes, OthersStay DEF Closing, Stays, Advances
    <3> QED  BY <1>2, <3>1, <3>2
  <2> QED  BY <1>2, <2>1, ClosingMoves DEF CloseInv
<1>3. ASSUME NEW g \in Goroutines, toClose'[g] # {} PROVE Closing(g)'
  <2>1. CASE CloseSignal(g)
    BY <2>1, Goes DEF Closing
  <2>2. CASE ~CloseSignal(g)
    BY <1>3, <2>2, ClosingMoves DEF CloseInv
  <2> QED  BY <2>1, <2>2
<1>4. ASSUME NEW g \in Goroutines, NEW q \in toClose'[g] PROVE channels'[q] # None
  <2>1. CASE CloseSignal(g)
    <3>1. toClose'[g] = {r \in QueueIds : channels[r] # None} /\ channels' = channels
      BY <2>1 DEF CloseSignal, TypeOK
    <3> QED  BY <3>1
  <2>2. CASE ~CloseSignal(g)
    <3>1. q \in toClose[g] /\ q \in QueueIds /\ channels[q] # None /\ Closing(g)
      BY <2>2, ClosingMoves DEF CloseInv, TypeOK
    <3>2. ASSUME NEW h \in Goroutines, LoadOrCompute(h) PROVE channels'[q] # None
      <4>1. channels \in [QueueIds -> Chans \cup {None}] /\ None \notin Chans
        BY NoneAssumption DEF TypeOK
      <4> QED  BY <3>1, <3>2, <4>1, LoadsAChannel
    <3>3. ASSUME NEW h \in Goroutines, DeleteChannel(h) PROVE channels'[q] # None
      <4>1. h = g
        BY <3>1, <3>3, Goes DEF Closing, CloseInv
      <4>2. toClose'[g] = toClose[g] \ {id[g]} /\ channels' = [channels EXCEPT ![id[g]] = None]
        BY <3>3, <4>1 DEF DeleteChannel, TypeOK
      <4> QED  BY <3>1, <4>2 DEF TypeOK
    <3> QED  BY <3>1, <3>2, <3>3, Writers
  <2> QED  BY <2>1, <2>2
<1> QED  BY <1>1, <1>2, <1>3, <1>4 DEF CloseInv

\* The goroutines that may still make a channel: Call adds to them, LoadOrCompute
\* takes one away.
LEMMA MakersMove ==
    ASSUME TypeOK, CallInv, [Next]_vars
    PROVE  /\ MayMake' \subseteq MayMake \/ \E g \in Goroutines, o \in Ops, q \in QueueIds :
                                                Call(g, o, q) /\ MayMake' \subseteq MayMake \cup {g}
           /\ \A g \in Goroutines : LoadOrCompute(g)
                  => MayMake' \subseteq MayMake \ {g} /\ g \in MayMake
<1>1. ASSUME NEW g \in Goroutines, Returns(g) \/ Advances(g)
      PROVE  MayMake' \subseteq MayMake \cup {g}
  BY <1>1, OthersStay DEF Stays, MayMake
<1>2. ASSUME NEW g \in Goroutines, Returns(g) PROVE g \in MayMake' => g \in MayMake
  BY <1>2, Goes DEF Returns, callVars, MayMake
<1>3. ASSUME NEW g \in Goroutines, Enters(g) PROVE g \in MayMake' => g \in MayMake
  <2>1. op' = op /\ pc[g] = "check"
    BY <1>3, Goes DEF Enters, CheckClosed
  <2> QED  BY <2>1 DEF MayMake
<1>4. ASSUME NEW g \in Goroutines, LoadOrCompute(g) \/ Receive(g) \/ Finds(g) \/ Send(g)
             \/ CloseSignal(g) \/ DeleteChannel(g) \/ \E q \in QueueIds : CloseChannel(g, q)
      PROVE  g \notin MayMake'
  BY <1>4, Goes DEF MayMake
<1>5. ASSUME NEW g \in Goroutines, LoadOrCompute(g) PROVE g \in MayMake
  BY <1>5, Goes DEF MayMake
<1>6. CASE UNCHANGED vars
  BY <1>6, <1>4, <1>5 DEF MayMake, vars
<1>7. ASSUME NEW g \in Goroutines, LoadOrCompute(g)
      PROVE  MayMake' \subseteq MayMake \ {g} /\ g \in MayMake
  BY <1>1, <1>4, <1>5, <1>7 DEF Advances
<1>8. ASSUME NEW g \in Goroutines, Advances(g)
      PROVE  MayMake' \subseteq MayMake \/ \E o \in Ops, q \in QueueIds :
                                                Call(g, o, q) /\ MayMake' \subseteq MayMake \cup {g}
  BY <1>1, <1>3, <1>4, <1>8 DEF Advances
<1>9. ASSUME NEW g \in Goroutines, Returns(g) PROVE MayMake' \subseteq MayMake
  BY <1>1, <1>2, <1>9
<1>10. CASE UNCHANGED vars /\ \A g \in Goroutines : ~LoadOrCompute(g)
  BY <1>10 DEF MayMake, vars
<1> QED  BY <1>6, <1>7, <1>8, <1>9, Steps

\* Every channel made was paid for by a Listen or WaitFor (LoadOrCompute).
LEMMA MadeStep ==
    ASSUME TypeOK, CallInv, MadeInv, [Next]_vars
    PROVE  MadeInv'
<1> DEFINE n == Cardinality(MayMake)
           m == Cardinality(MayMake')
<1>a. IsFiniteSet(MayMake) /\ n \in Nat /\ made + n <= calls
  BY FS_CardinalityType DEF MadeInv
<1>b. made \in 0 .. MaxCalls /\ calls \in 0 .. MaxCalls
          /\ channels \in [QueueIds -> Chans \cup {None}]
  BY DEF TypeOK
<1>c. calls' = calls \/ calls' = calls + 1
  BY Writers DEF Call
<1>1. CASE \E g \in Goroutines : LoadOrCompute(g)
  <2> PICK g \in Goroutines : LoadOrCompute(g)
    BY <1>1
  <2>1. MayMake' \subseteq MayMake \ {g} /\ g \in MayMake
    BY MakersMove
  <2>2. IsFiniteSet(MayMake \ {g}) /\ Cardinality(MayMake \ {g}) = n - 1
    BY <1>a, <2>1, FS_RemoveElement
  <2>3. IsFiniteSet(MayMake') /\ m \in Nat /\ m <= n - 1
    BY <2>1, <2>2, FS_Subset, FS_CardinalityType
  <2>4. calls' = calls /\ id[g] \in QueueIds
    BY LoadsAChannel DEF LoadOrCompute
  <2> DEFINE c == IF Loaded(g) = None THEN made + 1 ELSE Loaded(g)
  <2>5. channels' = [channels EXCEPT ![id[g]] = c] /\ made' = IF c > made THEN c ELSE made
    BY DEF LoadOrCompute
  <2>6. c = made + 1 \/ c \in 1 .. made
    <3>1. channels[id[g]] # None => channels[id[g]] \in 1 .. MaxCalls /\ channels[id[g]] <= made
      BY <1>b, <2>4 DEF MadeInv, Chans
    <3> QED  BY <1>b, <3>1, MaxCallsAssumption DEF Loaded
  <2> HIDE DEF c
  <2>7. (made' = made \/ made' = made + 1) /\ made' >= made /\ c <= made'
    BY <1>b, <2>5, <2>6, MaxCallsAssumption
  <2>8. made' + m <= calls'
    <3>1. made' = made \/ made' = made + 1
      BY <2>7
    <3>2. made \in Nat /\ calls \in Nat /\ calls' = calls
      BY <1>b, <2>4, MaxCallsAssumption
    <3> HIDE DEF n, m
    <3> QED  BY <1>a, <2>3, <3>1, <3>2
  <2>9. ASSUME NEW q \in QueueIds, channels'[q] # None PROVE channels'[q] <= made'
    <3>1. CASE q = id[g]
      BY <1>b, <2>5, <2>7, <3>1
    <3>2. CASE q # id[g]
      <4>1. channels'[q] = channels[q]
        BY <1>b, <2>5, <3>2
      <4>2. channels[q] \in 1 .. MaxCalls /\ channels[q] <= made
        BY <1>b, <2>9, <4>1 DEF MadeInv, Chans
      <4> QED  BY <1>b, <2>7, <4>1, <4>2, MaxCallsAssumption
    <3> QED  BY <3>1, <3>2
  <2> QED  BY <2>3, <2>8, <2>9 DEF MadeInv
<1>2. CASE ~\E g \in Goroutines : LoadOrCompute(g)
  <2>1. made' = made
    BY <1>2, Writers
  <2>2. ASSUME NEW q \in QueueIds, channels'[q] # None PROVE channels'[q] <= made'
    <3>1. channels'[q] = channels[q]
      BY <1>2, <2>2, <1>b, Writers DEF DeleteChannel
    <3> QED  BY <2>1, <2>2, <3>1 DEF MadeInv
  <2>3. CASE MayMake' \subseteq MayMake
    <3>1. IsFiniteSet(MayMake') /\ m \in Nat /\ m <= n
      BY <1>a, <2>3, FS_Subset, FS_CardinalityType
    <3>2. made' + m <= calls'
      <4> HIDE DEF n, m
      <4> QED  BY <1>a, <1>b, <1>c, <2>1, <3>1, MaxCallsAssumption
    <3> QED  BY <2>2, <3>1, <3>2 DEF MadeInv
  <2>4. ASSUME NEW g \in Goroutines, NEW o \in Ops, NEW q \in QueueIds, Call(g, o, q),
               MayMake' \subseteq MayMake \cup {g}
        PROVE  MadeInv'
    <3>1. IsFiniteSet(MayMake \cup {g}) /\ Cardinality(MayMake \cup {g}) \in {n, n + 1}
      BY <1>a, FS_AddElement
    <3>2. IsFiniteSet(MayMake') /\ m \in Nat /\ m <= n + 1
      BY <1>a, <2>4, <3>1, FS_Subset, FS_CardinalityType
    <3>3. calls' = calls + 1
      BY <2>4 DEF Call
    <3>4. made' + m <= calls'
      <4> HIDE DEF n, m
      <4> QED  BY <1>a, <1>b, <2>1, <3>2, <3>3, MaxCallsAssumption
    <3> QED  BY <2>2, <3>2, <3>4 DEF MadeInv
  <2> QED  BY <2>3, <2>4, MakersMove
<1> QED  BY <1>1, <1>2

\* Until Close, a channel stays in the map: so does the channel of an id that was
\* listened for, and that of a call which waits or sends.
LEMMA ChannelsStay ==
    ASSUME TypeOK, CallInv, CloseInv, MadeInv, [Next]_vars, ~closed', NEW q \in QueueIds,
           channels[q] # None
    PROVE  ~closed /\ channels'[q] = channels[q]
<1>1. ~closed
  BY ClosedStays
<1>2. ASSUME NEW g \in Goroutines, DeleteChannel(g) PROVE FALSE
  BY <1>1, <1>2, Goes DEF Closing, CloseInv
<1>3. ASSUME NEW g \in Goroutines, LoadOrCompute(g) PROVE channels'[q] = channels[q]
  <2>1. channels \in [QueueIds -> Chans \cup {None}]
    BY DEF TypeOK
  <2> QED  BY <1>3, <2>1, LoadsAChannel
<1> QED  BY <1>1, <1>2, <1>3, Writers

\* An id the notifier listens for keeps its channel until Close (GetOrCreate, removeIfEmpty).
LEMMA HeardStep ==
    ASSUME TypeOK, CallInv, CloseInv, MadeInv, HeardInv, [Next]_vars
    PROVE  HeardInv'
<1>1. ASSUME ~closed', NEW q \in heard' PROVE channels'[q] # None
  <2>1. CASE q \in heard
    <3>1. q \in QueueIds /\ channels[q] # None
      BY <1>1, <2>1, ClosedStays DEF HeardInv, TypeOK
    <3> QED  BY <1>1, <3>1, ChannelsStay
  <2>2. CASE q \notin heard
    <3>1. PICK g \in Goroutines : LoadOrCompute(g) /\ q = id[g]
      BY <1>1, <2>2, Writers DEF LoadOrCompute
    <3>2. channels \in [QueueIds -> Chans \cup {None}] /\ None \notin Chans
      BY NoneAssumption DEF TypeOK
    <3> QED  BY <3>1, <3>2, LoadsAChannel
  <2> QED  BY <2>1, <2>2
<1>2. heard \subseteq heard'
  BY Writers DEF LoadOrCompute
<1>3. ASSUME NEW h \in expected' PROVE op'[h] = "Dispatch" /\ id'[h] \in heard'
  <2>0. h \in Goroutines /\ op \in [Goroutines -> Ops \cup {None}]
            /\ id \in [Goroutines -> QueueIds \cup {None}]
    BY TypeStep DEF TypeOK
  <2>1. ASSUME NEW g \in Goroutines, NEW o \in Ops, NEW q \in QueueIds, Call(g, o, q)
        PROVE  op'[h] = "Dispatch" /\ id'[h] \in heard'
    <3>1. op' = [op EXCEPT ![g] = o] /\ id' = [id EXCEPT ![g] = q] /\ heard' = heard
      BY <2>1 DEF Call
    <3>2. expected' = IF o = "Dispatch" /\ q \in heard THEN expected \cup {g} ELSE expected \ {g}
      BY <2>1 DEF Call
    <3>3. CASE h = g
      BY <1>3, <2>0, <3>1, <3>2, <3>3
    <3>4. CASE h # g
      BY <1>3, <2>0, <3>1, <3>2, <3>4 DEF HeardInv
    <3> QED  BY <3>3, <3>4
  <2>2. CASE ~\E g \in Goroutines, o \in Ops, q \in QueueIds : Call(g, o, q)
    <3>1. h \in expected /\ op[h] = "Dispatch" /\ id[h] \in heard /\ op' = op
      BY <1>3, <2>2, Writers DEF HeardInv
    <3>2. id'[h] = id[h]
      <4>1. ASSUME NEW g \in Goroutines, NEW q \in QueueIds, CloseChannel(g, q) PROVE id'[h] = id[h]
        <5>1. op[g] = "Close"
          BY <4>1, Goes DEF CallInv, InCall
        <5>2. g # h /\ id' = [id EXCEPT ![g] = q]
          BY <3>1, <4>1, <5>1 DEF CloseChannel
        <5> QED  BY <2>0, <5>2
      <4> QED  BY <2>2, <4>1, Writers
    <3> QED  BY <1>2, <3>1, <3>2
  <2> QED  BY <2>1, <2>2
<1> QED  BY <1>1, <1>3 DEF HeardInv

\* LoadOrCompute and getCh hand out the channel that is in the map, and nothing but
\* Close takes it out.
LEMMA OneChannelStep ==
    ASSUME TypeOK, CallInv, CloseInv, MadeInv, OneChannelPerId, [Next]_vars
    PROVE  OneChannelPerId'
<1> SUFFICES ASSUME NEW h \in Goroutines, pc'[h] \in {"receive", "send"}, ~closed'
             PROVE  chan'[h] = channels'[id'[h]]
  BY DEF OneChannelPerId
<1>0. /\ chan \in [Goroutines -> Chans \cup {None}] /\ channels \in [QueueIds -> Chans \cup {None}]
      /\ None \notin Chans
  BY NoneAssumption DEF TypeOK
<1>1. ASSUME pc[h] = pc'[h], chan'[h] = chan[h], id'[h] = id[h] PROVE chan'[h] = channels'[id'[h]]
  <2>1. ~closed /\ chan[h] \in Chans /\ id[h] \in QueueIds /\ chan[h] = channels[id[h]]
    <3>1. ~closed
      BY ClosedStays
    <3>2. pc[h] \in {"receive", "send"} /\ InCall(h)
      BY <1>1 DEF CallInv
    <3> QED  BY <3>1, <3>2 DEF OneChannelPerId, InCall
  <2> QED  BY <1>0, <1>1, <2>1, ChannelsStay
<1>2. CASE UNCHANGED vars
  BY <1>1, <1>2 DEF vars
<1>3. ASSUME NEW g \in Goroutines, g # h, Returns(g) \/ Advances(g)
      PROVE  chan'[h] = channels'[id'[h]]
  BY <1>1, <1>3, OthersStay DEF Stays
<1>4. ASSUME Returns(h) PROVE chan'[h] = channels'[id'[h]]
  BY <1>1, <1>4, Goes DEF Returns, callVars
<1>5. ASSUME Advances(h) PROVE chan'[h] = channels'[id'[h]]
  <2>1. LoadOrCompute(h) \/ Finds(h)
    BY <1>5, Goes DEF Advances
  <2>2. CASE LoadOrCompute(h)
    <3>1. id' = id
      BY <2>2 DEF LoadOrCompute
    <3> QED  BY <1>0, <2>2, <3>1, LoadsAChannel
  <2>3. CASE Finds(h)
    <3>1. id' = id /\ channels' = channels /\ chan' = [chan EXCEPT ![h] = channels[id[h]]]
      BY <2>3 DEF Finds, Load
    <3> QED  BY <1>0, <3>1
  <2> QED  BY <2>1, <2>2, <2>3
<1> QED  BY <1>2, <1>3, <1>4, <1>5, Steps

\* A Dispatch finds no channel only where none was listened for before it began.
LEMMA ListenersStep ==
    ASSUME TypeOK, CallInv, HeardInv, ListenersAreHeard, [Next]_vars
    PROVE  ListenersAreHeard'
<1> SUFFICES ASSUME NEW h \in Goroutines, h \in expected', result'[h] = "noChannel"
             PROVE  closed'
  BY DEF ListenersAreHeard
<1>0. result \in [Goroutines -> Results]
  BY DEF TypeOK, Results
<1>1. CASE h \in expected /\ result[h] = "noChannel"
  <2>1. closed
    BY <1>1 DEF ListenersAreHeard
  <2> QED  BY <2>1, ClosedStays
<1>2. CASE UNCHANGED vars
  BY <1>1, <1>2 DEF vars
<1>3. ASSUME NEW g \in Goroutines, g # h, Returns(g) \/ Advances(g) PROVE closed'
  BY <1>1, <1>3, OthersStay DEF Stays
<1>4. ASSUME Returns(h) PROVE closed'
  <2>1. expected' = expected /\ closed' = closed
    BY <1>4 DEF Returns, history, mapVars
  <2>2. result'[h] = result[h] \/ channels[id[h]] = None
    BY <1>4, <1>0 DEF Returns
  <2> QED  BY <1>1, <2>1, <2>2 DEF HeardInv
<1>5. ASSUME Advances(h) PROVE closed'
  <2>1. CASE \E o \in Ops, q \in QueueIds : Call(h, o, q)
    BY <2>1, <1>0 DEF Call
  <2>2. CASE Enters(h) \/ Finds(h) \/ LoadOrCompute(h)
    <3>1. result'[h] \in {result[h], "ok"} /\ expected' = expected
      BY <2>2, <1>0 DEF Enters, CheckClosed, Finds, Load, LoadOrCompute, Return, history
    <3> QED  BY <1>1, <3>1
  <2>3. CASE Receive(h) \/ Send(h)
    BY <2>3, <1>0 DEF Receive, Send, Return
  <2>4. CASE CloseSignal(h) \/ DeleteChannel(h) \/ \E q \in QueueIds : CloseChannel(h, q)
    BY <1>1, <2>4 DEF CloseSignal, DeleteChannel, CloseChannel, history
  <2> QED  BY <1>5, <2>1, <2>2, <2>3, <2>4 DEF Advances
<1> QED  BY <1>2, <1>3, <1>4, <1>5, Steps

\* The calls and the channels made are counted (Call, LoadOrCompute).
LEMMA Counts == TypeOK => calls \in Nat /\ made \in Nat
<1>1. TypeOK => calls \in 0 .. MaxCalls /\ made \in 0 .. MaxCalls
  BY DEF TypeOK
<1> QED  BY <1>1, MaxCallsAssumption

\* What is in a buffer after a receive or a send was in it before, or is what was sent.
LEMMA BufferMoves ==
    ASSUME TypeOK, CallInv, NEW g \in Goroutines, NEW p \in Payloads, NEW c \in Chans,
           NEW k \in Nat,
           InBuffer(p, c, k)'
    PROVE  /\ Receive(g) => IF c = chan[g] THEN InBuffer(p, c, k + 1) ELSE InBuffer(p, c, k)
           /\ Send(g) => \/ InBuffer(p, c, k)
                         \/ p = payload[g] /\ c = chan[g] /\ k = Len(buffer[c]) + 1
<1>a. buffer \in [Chans -> Seq(Payloads)]
  BY DEF TypeOK
<1>1. ASSUME Receive(g) PROVE IF c = chan[g] THEN InBuffer(p, c, k + 1) ELSE InBuffer(p, c, k)
  <2>1. chan[g] \in Chans /\ buffer[chan[g]] # << >>
            /\ buffer' = [buffer EXCEPT ![chan[g]] = Tail(buffer[chan[g]])]
    BY <1>1 DEF Receive, At, CallInv, InCall
  <2>2. CASE c = chan[g]
    <3> DEFINE b == buffer[c]
    <3>1. b \in Seq(Payloads) /\ b # << >> /\ buffer'[c] = Tail(b)
      BY <1>a, <2>1, <2>2
    <3>2. k \in 1 .. Len(Tail(b)) /\ Tail(b)[k] = p
      BY <3>1 DEF InBuffer
    <3>3. k + 1 \in 1 .. Len(b) /\ b[k + 1] = p
      <4> HIDE DEF b
      <4> QED  BY <3>1, <3>2, HeadTailProperties, LenProperties
    <3> QED  BY <2>2, <3>3 DEF InBuffer
  <2>3. CASE c # chan[g]
    BY <1>a, <2>1, <2>3 DEF InBuffer
  <2> QED  BY <2>2, <2>3
<1>2. ASSUME Send(g)
      PROVE  InBuffer(p, c, k) \/ (p = payload[g] /\ c = chan[g] /\ k = Len(buffer[c]) + 1)
  <2>1. buffer' = [buffer EXCEPT ![chan[g]] = Append(buffer[chan[g]], payload[g])]
    BY <1>2 DEF Send
  <2>2. CASE c = chan[g]
    <3> DEFINE b == buffer[c]
    <3>1. b \in Seq(Payloads) /\ buffer'[c] = Append(b, payload[g])
      BY <1>a, <2>1, <2>2
    <3>2. k \in 1 .. Len(Append(b, payload[g])) /\ Append(b, payload[g])[k] = p
      BY <3>1 DEF InBuffer
    <3>3. (k \in 1 .. Len(b) /\ b[k] = p) \/ (k = Len(b) + 1 /\ p = payload[g])
      <4>1. payload[g] \in Payloads
        <5>1. payload[g] \in 1 .. calls /\ calls \in 0 .. MaxCalls
          BY <1>2 DEF Send, At, CallInv, InCall, TypeOK
        <5> QED  BY <5>1, MaxCallsAssumption DEF Payloads
      <4> HIDE DEF b
      <4> QED  BY <3>1, <3>2, <4>1, AppendProperties, LenProperties
    <3> QED  BY <2>2, <3>3 DEF InBuffer
  <2>3. CASE c # chan[g]
    BY <1>a, <2>1, <2>3 DEF InBuffer
  <2> QED  BY <2>2, <2>3
<1> QED  BY <1>1, <1>2

\* A payload is sent by the Dispatch it was made for (Call), from then until the send.
LEMMA SendersMove ==
    ASSUME TypeOK, CallInv, [Next]_vars, NEW h \in Goroutines, NEW p \in Payloads, Sends(h, p)'
    PROVE  \/ Sends(h, p)
           \/ /\ \E o \in Ops, q \in QueueIds : Call(h, o, q)
              /\ p = calls + 1 /\ calls' = calls + 1
<1>1. CASE UNCHANGED vars
  BY <1>1 DEF vars, Sends
<1>2. ASSUME NEW g \in Goroutines, g # h, Returns(g) \/ Advances(g) PROVE Sends(h, p)
  BY <1>2, OthersStay DEF Stays, Sends
<1>3. ASSUME Returns(h) PROVE Sends(h, p)
  BY <1>3, Goes DEF Returns, callVars, Sends
<1>4. CASE \E o \in Ops, q \in QueueIds : Call(h, o, q)
  <2> PICK o \in Ops, q \in QueueIds : Call(h, o, q)
    BY <1>4
  <2>1. /\ op' = [op EXCEPT ![h] = o] /\ calls' = calls + 1
        /\ payload' = [payload EXCEPT ![h] = IF o = "Dispatch" THEN calls + 1 ELSE None]
    BY DEF Call
  <2>2. op \in [Goroutines -> Ops \cup {None}] /\ payload \in [Goroutines -> Payloads \cup {None}]
    BY DEF TypeOK
  <2>3. op'[h] = o /\ payload'[h] = IF o = "Dispatch" THEN calls + 1 ELSE None
    BY <2>1, <2>2
  <2> QED  BY <1>4, <2>1, <2>3 DEF Sends
<1>5. ASSUME Enters(h) \/ Finds(h) PROVE Sends(h, p)
  BY <1>5, Goes DEF Enters, CheckClosed, Finds, Load, Sends
<1>6. ASSUME LoadOrCompute(h) \/ Receive(h) \/ Send(h) \/ CloseSignal(h) \/ DeleteChannel(h)
             \/ \E q \in QueueIds : CloseChannel(h, q)
      PROVE  FALSE
  BY <1>6, Goes DEF Sends
<1> QED  BY <1>1, <1>2, <1>3, <1>4, <1>5, <1>6, Steps DEF Advances

\* A payload that was sent is not sent again: payloads are told apart by their calls.
LEMMA SentStays ==
    ASSUME TypeOK, CallInv, [Next]_vars, NEW p \in Payloads, Sent(p)
    PROVE  Sent(p)'
<1>1. calls \in Nat /\ p \in Nat /\ p <= calls
  BY Counts DEF Payloads, Sent
<1>2. calls' = calls \/ calls' = calls + 1
  BY Writers DEF Call
<1>3. p <= calls' /\ p # calls + 1
  BY <1>1, <1>2
<1>4. \A h \in Goroutines : ~Sends(h, p)'
  BY <1>3, SendersMove DEF Sent
<1> QED  BY <1>3, <1>4 DEF Sent

\* The other way round: what is in a buffer stays there, but for the head that is received.
LEMMA BufferKeeps ==
    ASSUME TypeOK, CallInv, [Next]_vars, NEW p \in Payloads, NEW c \in Chans,
           \E k \in 1 .. Len(buffer[c]) : buffer[c][k] = p
    PROVE  \/ \E k \in 1 .. Len(buffer'[c]) : buffer'[c][k] = p
           \/ \E g \in Goroutines : Receive(g) /\ c = chan[g] /\ p = Head(buffer[c])
<1>a. buffer \in [Chans -> Seq(Payloads)]
  BY DEF TypeOK
<1> PICK k \in 1 .. Len(buffer[c]) : buffer[c][k] = p
  OBVIOUS
<1>1. CASE buffer'[c] = buffer[c]
  BY <1>1
<1>2. ASSUME NEW g \in Goroutines, Receive(g), c = chan[g], p # Head(buffer[c])
      PROVE  \E l \in 1 .. Len(buffer'[c]) : buffer'[c][l] = p
  <2> DEFINE b == buffer[c]
  <2>1. b \in Seq(Payloads) /\ b # << >> /\ buffer'[c] = Tail(b)
    BY <1>a, <1>2 DEF Receive
  <2>2. k \in 1 .. Len(b) /\ b[k] = p /\ p # Head(b)
    BY <1>2
  <2> HIDE DEF b
  <2>3. k # 1 /\ k - 1 \in 1 .. Len(Tail(b)) /\ Tail(b)[k - 1] = b[k]
    BY <2>1, <2>2, HeadTailProperties, LenProperties
  <2> QED  BY <2>1, <2>2, <2>3
<1>3. ASSUME NEW g \in Goroutines, Send(g), c = chan[g]
      PROVE  \E l \in 1 .. Len(buffer'[c]) : buffer'[c][l] = p
  <2> DEFINE b == buffer[c]
  <2>1. b \in Seq(Payloads) /\ buffer'[c] = Append(b, payload[g]) /\ payload[g] \in Payloads
    <3>1. payload[g] \in 1 .. calls /\ calls \in 0 .. MaxCalls
      BY <1>3 DEF Send, At, CallInv, InCall, TypeOK
    <3> QED  BY <1>a, <1>3, <3>1, MaxCallsAssumption DEF Send, Payloads
  <2>2. k \in 1 .. Len(b) /\ b[k] = p
    OBVIOUS
  <2> HIDE DEF b
  <2>3. k \in 1 .. Len(Append(b, payload[g])) /\ Append(b, payload[g])[k] = p
    BY <2>1, <2>2, AppendProperties, LenProperties
  <2> QED  BY <2>1, <2>3
<1>4. ASSUME NEW g \in Goroutines, Receive(g) \/ Send(g), c # chan[g]
      PROVE  buffer'[c] = buffer[c]
  BY <1>a, <1>4 DEF Receive, Send
<1> QED  BY <1>1, <1>2, <1>3, <1>4, Writers

\* Who sends a payload has not sent it yet (Call names each payload anew).
LEMMA SendersFirst ==
    ASSUME TypeOK, CallInv, SentInv, NEW g \in Goroutines, Send(g)
    PROVE  /\ payload[g] \in Payloads /\ payload[g] \in 1 .. calls /\ Sends(g, payload[g])
           /\ accepted[payload[g]] = None /\ received[payload[g]] = None
<1>1. payload[g] \in 1 .. calls /\ Sends(g, payload[g])
  BY DEF Send, At, CallInv, InCall, Sends
<1>2. calls \in 0 .. MaxCalls
  BY DEF TypeOK
<1>3. payload[g] \in Payloads
  BY <1>1, <1>2, MaxCallsAssumption DEF Payloads
<1> QED  BY <1>1, <1>3 DEF SentInv, Sent

\* A payload is sent by one Dispatch, once, and received only after that.
LEMMA SentStep ==
    ASSUME TypeOK, CallInv, SentInv, ServesInv, [Next]_vars
    PROVE  SentInv'
<1>a. accepted \in [Payloads -> QueueIds \cup {None}] /\ received \in [Payloads -> QueueIds \cup {None}]
  BY DEF TypeOK
<1>b. calls \in Nat
  BY Counts
<1>1. OneSender'
  <2> SUFFICES ASSUME NEW p \in Payloads, NEW g \in Goroutines, NEW h \in Goroutines, Sends(g, p)',
                      Sends(h, p)'
               PROVE  g = h
    BY DEF OneSender
  <2>1. CASE Sends(g, p) /\ Sends(h, p)
    BY <2>1 DEF SentInv, OneSender
  <2>2. ~(p = calls + 1 /\ \E k \in Goroutines : Sends(k, p))
    <3>1. \A k \in Goroutines : Sends(k, p) => p \in 1 .. calls
      BY DEF Sends, CallInv, InCall
    <3> QED  BY <1>b, <3>1
  <2>3. CASE (\E o \in Ops, q \in QueueIds : Call(g, o, q))
                 /\ \E o \in Ops, q \in QueueIds : Call(h, o, q)
    <3>1. Advances(g) /\ pc[g] = "idle" /\ pc'[g] = "check" /\ pc[h] = "idle" /\ pc'[h] = "check"
      BY <2>3, Goes DEF Advances
    <3> QED  BY <3>1, OthersStay DEF Stays
  <2> QED  BY <2>1, <2>2, <2>3, SendersMove
<1>2. ASSUME NEW p \in Payloads, accepted'[p] # None PROVE Sent(p)'
  <2>1. CASE accepted[p] # None
    BY <2>1, SentStays DEF SentInv
  <2>2. CASE accepted[p] = None
    <3>1. PICK g \in Goroutines : Send(g)
      BY <1>2, <2>2, Writers
    <3>2. accepted' = [accepted EXCEPT ![payload[g]] = id[g]] /\ calls' = calls
      BY <3>1 DEF Send
    <3>3. p = payload[g]
      BY <1>a, <1>2, <2>2, <3>2
    <3>4. p \in 1 .. calls /\ Sends(g, p)
      BY <3>1, <3>3, SendersFirst
    <3>5. ASSUME NEW h \in Goroutines, Sends(h, p)' PROVE FALSE
      <4>1. Sends(h, p)
        BY <1>b, <3>2, <3>5, SendersMove
      <4>2. h = g
        BY <3>4, <4>1 DEF SentInv, OneSender
      <4> QED  BY <3>1, <3>5, <4>2, Goes DEF Sends
    <3>6. p <= calls'
      BY <1>b, <3>2, <3>4
    <3> QED  BY <3>5, <3>6 DEF Sent
  <2> QED  BY <2>1, <2>2
<1>3. ASSUME NEW p \in Payloads, received'[p] # None PROVE accepted'[p] # None
  <2>1. CASE accepted[p] # None
    <3>1. ASSUME NEW g \in Goroutines, Send(g) PROVE accepted'[p] = accepted[p]
      BY <1>a, <2>1, <3>1, SendersFirst DEF Send
    <3> QED  BY <2>1, <3>1, Writers
  <2>2. CASE accepted[p] = None
    <3>1. received[p] = None
      BY <2>2 DEF SentInv
    <3>2. PICK g \in Goroutines : Receive(g)
      BY <1>3, <3>1, Writers
    <3> DEFINE b == buffer[chan[g]]
    <3>3. /\ chan[g] \in Chans /\ b \in Seq(Payloads) /\ b # << >>
          /\ received' = [received EXCEPT ![Head(b)] = id[g]]
      BY <3>2 DEF Receive, At, CallInv, InCall, TypeOK
    <3>4. 1 \in 1 .. Len(b) /\ Head(b) = b[1]
      <4> HIDE DEF b
      <4> QED  BY <3>3, HeadTailProperties, LenProperties, EmptySeq
    <3>5. p = Head(b)
      BY <1>a, <1>3, <3>1, <3>3
    <3>6. InBuffer(p, chan[g], 1)
      BY <3>4, <3>5 DEF InBuffer
    <3> QED  BY <2>2, <3>3, <3>6 DEF ServesInv
  <2> QED  BY <2>1, <2>2
<1> QED  BY <1>1, <1>2, <1>3 DEF SentInv

\* What is in a buffer after a step was in it before, or was sent for the id its channel serves.
LEMMA PlacesMove ==
    ASSUME TypeOK, CallInv, SentInv, ServesInv, [Next]_vars,
           NEW p \in Payloads, NEW c \in Chans, NEW k \in Nat, InBuffer(p, c, k)'
    PROVE  /\ accepted'[p] # None
           /\ accepted'[p] \in QueueIds => Serves(c, accepted'[p])
<1>a. accepted \in [Payloads -> QueueIds \cup {None}]
  BY DEF TypeOK
<1>1. ASSUME NEW l \in Nat, InBuffer(p, c, l)
      PROVE  accepted'[p] = accepted[p] /\ accepted[p] # None /\ Serves(c, accepted[p])
  <2>1. accepted[p] # None
    BY <1>1 DEF ServesInv
  <2>2. ASSUME NEW g \in Goroutines, Send(g) PROVE accepted'[p] = accepted[p]
    BY <1>a, <2>1, <2>2, SendersFirst DEF Send
  <2> QED  BY <1>1, <2>1, <2>2, Writers DEF Serves
<1>2. CASE UNCHANGED buffer
  <2>1. InBuffer(p, c, k)
    BY <1>2 DEF InBuffer
  <2> QED  BY <1>1, <2>1
<1>3. ASSUME NEW g \in Goroutines, Receive(g) PROVE \E l \in Nat : InBuffer(p, c, l)
  <2>1. k + 1 \in Nat
    OBVIOUS
  <2> QED  BY <1>3, <2>1, BufferMoves
<1>4. ASSUME NEW g \in Goroutines, Send(g), ~InBuffer(p, c, k)
      PROVE  accepted'[p] = id[g] /\ id[g] \in QueueIds /\ Serves(c, id[g])
  <2>1. p = payload[g] /\ c = chan[g]
    BY <1>4, BufferMoves
  <2>2. accepted' = [accepted EXCEPT ![payload[g]] = id[g]] /\ pc[g] = "send" /\ id[g] \in QueueIds
    BY <1>4 DEF Send, At, CallInv, InCall
  <2> QED  BY <1>a, <2>1, <2>2 DEF Serves
<1>5. None \notin QueueIds
  BY NoneAssumption
<1> QED  BY <1>1, <1>2, <1>3, <1>4, <1>5, Writers

\* A channel serves no other id after a step; only LoadOrCompute makes one that serves any.
LEMMA ServesMoves ==
    ASSUME TypeOK, CallInv, MadeInv, SentInv, ServesInv, [Next]_vars
    PROVE  \/ \A c \in Chans, q \in QueueIds : Serves(c, q)' => Serves(c, q)
           \/ \E g \in Goroutines :
                  /\ id[g] \in QueueIds /\ made' = made + 1
                  /\ \A c \in Chans, q \in QueueIds :
                         Serves(c, q)' => Serves(c, q) \/ (c = made + 1 /\ q = id[g])
<1>a. /\ channels \in [QueueIds -> Chans \cup {None}] /\ chan \in [Goroutines -> Chans \cup {None}]
      /\ made \in Nat
  BY Counts DEF TypeOK
<1>n. None \notin Chans
  BY NoneAssumption
<1> DEFINE Waits(h, c, q) == pc[h] \in {"receive", "send"} /\ chan[h] = c /\ id[h] = q
<1>1. ASSUME NEW c \in Chans, NEW q \in QueueIds, NEW p \in Payloads, NEW k \in Nat,
             InBuffer(p, c, k)', accepted'[p] = q
      PROVE  Serves(c, q)
  BY <1>1, PlacesMove
<1>2. ASSUME NEW c \in Chans, NEW q \in QueueIds, NEW h \in Goroutines, Waits(h, c, q)
      PROVE  Serves(c, q)
  BY <1>2 DEF Serves
<1>3. ASSUME NEW c \in Chans, NEW q \in QueueIds, NEW h \in Goroutines, Waits(h, c, q)'
      PROVE  Waits(h, c, q) \/ Finds(h) \/ LoadOrCompute(h)
  <2>1. CASE UNCHANGED vars
    BY <1>3, <2>1 DEF vars
  <2>2. ASSUME NEW g \in Goroutines, g # h, Returns(g) \/ Advances(g) PROVE Waits(h, c, q)
    BY <1>3, <2>2, OthersStay DEF Stays
  <2>3. CASE Returns(h)
    BY <1>3, <2>3, Goes DEF Returns, callVars
  <2>4. CASE Advances(h)
    <3>1. pc'[h] \in {"receive", "send"}
      BY <1>3
    <3> HIDE DEF Waits
    <3> QED  BY <2>4, <3>1, Goes DEF Advances
  <2> HIDE DEF Waits
  <2> QED  BY <2>1, <2>2, <2>3, <2>4, Steps
<1>4. ASSUME NEW c \in Chans, NEW q \in QueueIds, NEW h \in Goroutines, Waits(h, c, q)', Finds(h)
      PROVE  Serves(c, q)
  <2>1. id' = id /\ chan' = [chan EXCEPT ![h] = channels[id[h]]]
    BY <1>4 DEF Finds, Load
  <2>2. channels[q] = c
    BY <1>4, <1>a, <2>1
  <2> QED  BY <2>2 DEF Serves
<1>5. CASE \A g \in Goroutines : ~LoadOrCompute(g)
  <2>1. ASSUME NEW c \in Chans, NEW q \in QueueIds, channels'[q] = c PROVE Serves(c, q)
    <3>1. ASSUME NEW g \in Goroutines, DeleteChannel(g) PROVE channels[q] = c
      BY <1>a, <1>n, <2>1, <3>1 DEF DeleteChannel
    <3> QED  BY <1>5, <2>1, <3>1, Writers DEF Serves
  <2>2. ASSUME NEW c \in Chans, NEW q \in QueueIds, Serves(c, q)' PROVE Serves(c, q)
    <3>1. CASE channels'[q] = c
      BY <2>1, <3>1
    <3>2. CASE \E h \in Goroutines : Waits(h, c, q)'
      <4> HIDE DEF Waits
      <4> QED  BY <1>2, <1>3, <1>4, <1>5, <3>2
    <3>3. CASE \E p \in Payloads, k \in Nat : InBuffer(p, c, k)' /\ accepted'[p] = q
      BY <1>1, <3>3
    <3> QED  BY <2>2, <3>1, <3>2, <3>3 DEF Serves
  <2> QED  BY <2>2
<1>6. ASSUME NEW g \in Goroutines, LoadOrCompute(g)
      PROVE  \/ \A c \in Chans, q \in QueueIds : Serves(c, q)' => Serves(c, q)
             \/ /\ id[g] \in QueueIds /\ made' = made + 1
                /\ \A c \in Chans, q \in QueueIds :
                       Serves(c, q)' => Serves(c, q) \/ (c = made + 1 /\ q = id[g])
  <2> DEFINE new == IF channels[id[g]] = None THEN made + 1 ELSE channels[id[g]]
  <2>1. /\ id[g] \in QueueIds /\ id' = id
        /\ chan' = [chan EXCEPT ![g] = new] /\ channels' = [channels EXCEPT ![id[g]] = new]
        /\ made' = IF new > made THEN new ELSE made
    BY <1>6, LoadsAChannel DEF LoadOrCompute, Loaded
  <2>2. pc[g] = "load" /\ Advances(g)
    BY <1>6, Goes DEF Advances
  <2>3. \/ new = made + 1 /\ channels[id[g]] = None
        \/ new = channels[id[g]] /\ channels[id[g]] # None
    OBVIOUS
  <2> HIDE DEF new
  <2>4. ASSUME NEW c \in Chans, NEW q \in QueueIds, Serves(c, q)'
        PROVE  Serves(c, q) \/ (c = new /\ q = id[g])
    <3>1. CASE channels'[q] = c
      BY <1>a, <2>1, <3>1 DEF Serves
    <3>2. ASSUME NEW h \in Goroutines, Waits(h, c, q)' PROVE Serves(c, q) \/ (c = new /\ q = id[g])
      <4>1. CASE h = g
        BY <1>a, <2>1, <3>2, <4>1
      <4>2. CASE h # g
        <5>1. pc'[h] = pc[h] /\ chan'[h] = chan[h] /\ id'[h] = id[h]
          BY <2>2, <4>2, OthersStay DEF Stays
        <5>2. Waits(h, c, q)
          BY <3>2, <5>1
        <5> QED  BY <1>2, <5>2
      <4> QED  BY <4>1, <4>2
    <3>3. CASE \E p \in Payloads, k \in Nat : InBuffer(p, c, k)' /\ accepted'[p] = q
      BY <1>1, <3>3
    <3> QED  BY <2>4, <3>1, <3>2, <3>3 DEF Serves
  <2>5. CASE new = channels[id[g]]
    BY <2>1, <2>4, <2>5 DEF Serves
  <2>6. CASE new = made + 1
    <3>1. made' = made + 1
      BY <1>a, <2>1, <2>6
    <3> QED  BY <2>1, <2>4, <2>6, <3>1
  <2> QED  BY <2>3, <2>5, <2>6
<1> QED  BY <1>5, <1>6

\* A channel is made for one id and keeps it (LoadOrCompute).
LEMMA ServesStep ==
    ASSUME TypeOK, CallInv, MadeInv, SentInv, ServesInv, [Next]_vars
    PROVE  ServesInv'
<1>a. made \in Nat
  BY Counts
<1>1. \A p \in Payloads, c \in Chans, k \in Nat : InBuffer(p, c, k)' => accepted'[p] # None
  BY PlacesMove
<1>2. CASE \A c \in Chans, q \in QueueIds : Serves(c, q)' => Serves(c, q)
  <2>1. \A c \in Chans, q, r \in QueueIds : Serves(c, q)' /\ Serves(c, r)' => q = r
    BY <1>2 DEF ServesInv
  <2>2. \A c \in Chans, q \in QueueIds : Serves(c, q)' => c <= made
    BY <1>2 DEF ServesInv
  <2>3. made' = made \/ (made' \in Nat /\ made <= made')
    <3>1. ASSUME NEW g \in Goroutines, LoadOrCompute(g) PROVE made' \in Nat /\ made <= made'
      <4> DEFINE new == IF Loaded(g) = None THEN made + 1 ELSE Loaded(g)
      <4>1. made' \in 0 .. MaxCalls
        BY <3>1, LoadsAChannel
      <4>2. made' = IF new > made THEN new ELSE made
        BY <3>1 DEF LoadOrCompute
      <4>3. made' \in Nat
        BY <4>1, MaxCallsAssumption
      <4>4. new = made' \/ made' = made
        BY <4>2
      <4> HIDE DEF new
      <4> QED  BY <1>a, <4>2, <4>3, <4>4
    <3> QED  BY <3>1, Writers
  <2>4. \A c \in Chans : c \in Nat
    BY DEF Chans
  <2>5. \A c \in Chans, q \in QueueIds : Serves(c, q)' => c <= made'
    BY <1>a, <2>2, <2>3, <2>4
  <2> QED  BY <1>1, <2>1, <2>5 DEF ServesInv
<1>3. ASSUME NEW g \in Goroutines, made' = made + 1,
             \A c \in Chans, q \in QueueIds :
                 Serves(c, q)' => Serves(c, q) \/ (c = made + 1 /\ q = id[g])
      PROVE  ServesInv'
  <2>1. \A c \in Chans, q \in QueueIds : Serves(c, q) => c <= made /\ c # made + 1
    BY <1>a DEF ServesInv, Chans
  <2>2. \A c \in Chans, q, r \in QueueIds : Serves(c, q)' /\ Serves(c, r)' => q = r
    BY <1>3, <2>1 DEF ServesInv
  <2>3. \A c \in Chans : c \in Nat
    BY DEF Chans
  <2>4. \A c \in Chans, q \in QueueIds : Serves(c, q)' => c <= made'
    BY <1>a, <1>3, <2>1, <2>3
  <2> QED  BY <1>1, <2>2, <2>4 DEF ServesInv
<1> QED  BY <1>2, <1>3, ServesMoves

\* What a Dispatch has put into a channel stays in reach: the map keeps the channel until Close,
\* and who receives from it waits for its id.
LEMMA ReachStep ==
    ASSUME TypeOK, CallInv, CloseInv, MadeInv, SentInv, ServesInv, OneChannelPerId,
           PayloadsStayInReach, [Next]_vars
    PROVE  PayloadsStayInReach'
<1> SUFFICES ASSUME NEW p \in Payloads, accepted'[p] # None
             PROVE  received'[p] = accepted'[p]
                        \/ (received'[p] = None /\ (closed' \/ InReach(p)'))
  BY DEF PayloadsStayInReach
<1>a. /\ accepted \in [Payloads -> QueueIds \cup {None}]
      /\ received \in [Payloads -> QueueIds \cup {None}]
      /\ channels \in [QueueIds -> Chans \cup {None}] /\ buffer \in [Chans -> Seq(Payloads)]
      /\ None \notin Chans
  BY NoneAssumption DEF TypeOK
<1>1. ASSUME accepted[p] # None, NEW g \in Goroutines, Receive(g), p = Head(buffer[chan[g]])
      PROVE  received'[p] = accepted[p]
  <2> DEFINE b == buffer[chan[g]]
  <2>1. /\ chan[g] \in Chans /\ b \in Seq(Payloads) /\ b # << >> /\ pc[g] = "receive"
        /\ id[g] \in QueueIds /\ received' = [received EXCEPT ![p] = id[g]]
    BY <1>a, <1>1 DEF Receive, At, CallInv, InCall
  <2>2. 1 \in 1 .. Len(b) /\ Head(b) = b[1]
    <3> HIDE DEF b
    <3> QED  BY <2>1, HeadTailProperties, LenProperties, EmptySeq
  <2>3. InBuffer(p, chan[g], 1)
    BY <1>1, <2>2 DEF InBuffer
  <2>4. Serves(chan[g], accepted[p]) /\ Serves(chan[g], id[g])
    BY <2>1, <2>3 DEF Serves
  <2>5. id[g] = accepted[p]
    BY <1>a, <1>1, <2>1, <2>4 DEF ServesInv
  <2> QED  BY <1>a, <2>1, <2>5
<1>2. CASE accepted[p] # None
  <2>1. accepted'[p] = accepted[p]
    <3>1. ASSUME NEW g \in Goroutines, Send(g) PROVE accepted'[p] = accepted[p]
      BY <1>a, <1>2, <3>1, SendersFirst DEF Send
    <3> QED  BY <3>1, Writers
  <2>2. CASE \E g \in Goroutines : Receive(g) /\ p = Head(buffer[chan[g]])
    BY <1>1, <1>2, <2>1, <2>2
  <2>3. CASE ~\E g \in Goroutines : Receive(g) /\ p = Head(buffer[chan[g]])
    <3>1. received'[p] = received[p]
      BY <1>a, <2>3, Writers DEF Receive
    <3>2. CASE received[p] = accepted[p]
      BY <2>1, <3>1, <3>2
    <3>3. CASE received[p] = None /\ closed
      BY <3>1, <3>3, ClosedStays
    <3>4. CASE received[p] = None /\ InReach(p) /\ ~closed'
      <4> DEFINE c == channels[accepted[p]]
      <4>1. accepted[p] \in QueueIds /\ c \in Chans
                /\ \E k \in 1 .. Len(buffer[c]) : buffer[c][k] = p
        BY <1>a, <1>2, <3>4 DEF InReach
      <4>2. channels'[accepted[p]] = c
        BY <1>a, <3>4, <4>1, ChannelsStay
      <4> HIDE DEF c
      <4>3. \E k \in 1 .. Len(buffer'[c]) : buffer'[c][k] = p
        BY <2>3, <4>1, BufferKeeps
      <4>4. c # None
        BY <1>a, <4>1
      <4> QED  BY <2>1, <3>1, <3>4, <4>2, <4>3, <4>4 DEF InReach
    <3> QED  BY <1>2, <3>1, <3>2, <3>3, <3>4 DEF PayloadsStayInReach
  <2> QED  BY <2>2, <2>3
<1>3. CASE accepted[p] = None
  <2>1. PICK g \in Goroutines : Send(g)
    BY <1>3, Writers
  <2>2. /\ accepted' = [accepted EXCEPT ![payload[g]] = id[g]]
        /\ UNCHANGED <<channels, received, closed>> /\ pc[g] = "send" /\ chan[g] \in Chans
        /\ id[g] \in QueueIds /\ buffer' = [buffer EXCEPT ![chan[g]] = Append(@, payload[g])]
    BY <2>1 DEF Send, At, CallInv, InCall
  <2>3. p = payload[g] /\ accepted'[p] = id[g]
    BY <1>a, <1>3, <2>2
  <2>4. received'[p] = None
    BY <2>1, <2>2, <2>3, SendersFirst
  <2>5. CASE ~closed'
    <3>1. channels'[accepted'[p]] = chan[g]
      BY <2>2, <2>3, <2>5 DEF OneChannelPerId
    <3> DEFINE b == buffer[chan[g]]
    <3>2. b \in Seq(Payloads) /\ buffer'[chan[g]] = Append(b, p)
      BY <1>a, <2>2, <2>3
    <3> HIDE DEF b
    <3>3. Len(Append(b, p)) \in 1 .. Len(Append(b, p)) /\ Append(b, p)[Len(Append(b, p))] = p
      BY <3>2, AppendProperties, LenProperties
    <3> QED  BY <1>a, <2>2, <2>4, <3>1, <3>2, <3>3 DEF InReach
  <2> QED  BY <2>4, <2>5
<1> QED  BY <1>2, <1>3

-------------------------------------------------------------------------------
(* The theorems *)

\* A new dispatcher, with empty maps, satisfies the invariant (NewDispatcher).
LEMMA Initially == Init => IInv
<1> SUFFICES ASSUME Init PROVE IInv
  OBVIOUS
<1>1. TypeOK
  <2>1. buffer \in [Chans -> Seq(Payloads)] /\ \A c \in Chans : Len(buffer[c]) <= Capacity
    BY CapacityAssumption, EmptySeq DEF Init
  <2>2. made \in 0 .. MaxCalls /\ calls \in 0 .. MaxCalls
    BY MaxCallsAssumption DEF Init
  <2> QED  BY <2>1, <2>2 DEF Init, TypeOK
<1>2. CallInv /\ CloseInv /\ HeardInv /\ OneChannelPerId /\ ListenersAreHeard
  BY DEF Init, CallInv, InCall, CloseInv, Closing, HeardInv, OneChannelPerId, ListenersAreHeard
<1>3. MadeInv
  <2>1. MayMake = {}
    BY DEF Init, MayMake
  <2>2. IsFiniteSet(MayMake) /\ Cardinality(MayMake) = 0
    BY <2>1, FS_EmptySet
  <2>3. made = 0 /\ calls = 0 /\ \A q \in QueueIds : channels[q] = None
    BY DEF Init
  <2> QED  BY <2>2, <2>3 DEF MadeInv
<1>4. /\ \A p \in Payloads : accepted[p] = None /\ received[p] = None
      /\ \A p, c, k : c \in Chans => ~InBuffer(p, c, k)
  <2>1. \A c \in Chans : Len(buffer[c]) = 0
    BY EmptySeq DEF Init
  <2> QED  BY <2>1 DEF Init, InBuffer
<1>5. SentInv /\ PayloadsStayInReach
  BY <1>4 DEF Init, SentInv, OneSender, Sends, PayloadsStayInReach
<1>6. ServesInv
  <2>1. \A c \in Chans, q \in QueueIds : ~Serves(c, q)
    BY <1>4, NoneAssumption DEF Init, Serves
  <2> QED  BY <1>4, <2>1 DEF ServesInv
<1> QED  BY <1>1, <1>2, <1>3, <1>5, <1>6 DEF IInv

\* Every step of every goroutine preserves it.
LEMMA StepIInv == IInv /\ [Next]_vars => IInv'
BY TypeStep, CallInvStep, CloseInvStep, MadeStep, SentStep, ServesStep, HeardStep, OneChannelStep,
   ReachStep, ListenersStep DEF IInv

\* What the goroutines hold, the map and the buffers satisfy in every behaviour
\* (dispatcher.go).
THEOREM Inductive == Spec => []IInv
BY Initially, StepIInv, PTL DEF Spec

\* Every variable keeps its type: no more is buffered than a channel holds, and no
\* goroutine waits on or sends to a channel that was not made (all of dispatcher.go).
THEOREM Types == Spec => []TypeOK
<1>1. IInv => TypeOK
  BY DEF IInv
<1> QED  BY <1>1, Inductive, PTL

\* Until Close, all who wait or send for an id hold the channel that is in the map
\* (LoadOrCompute in getOrCreateCh, getCh in Dispatch).
THEOREM OneChannel == Spec => []OneChannelPerId
<1>1. IInv => OneChannelPerId
  BY DEF IInv
<1> QED  BY <1>1, Inductive, PTL

\* What Dispatch has put into a channel stays there for whoever waits for its id next, until it
\* is received for that id or the dispatcher is closed: whatever waiters time out, and however
\* many make the channel at once (LoadOrCompute; the timeout case leaves the channel).
THEOREM PayloadsInReach == Spec => []PayloadsStayInReach
<1>1. IInv => PayloadsStayInReach
  BY DEF IInv
<1> QED  BY <1>1, Inductive, PTL

\* A Dispatch that began after a Listen for its id had returned finds the channel,
\* unless the dispatcher was closed (GetNextInvocation listens before it polls).
THEOREM ListenersHeard == Spec => []ListenersAreHeard
<1>1. IInv => ListenersAreHeard
  BY DEF IInv
<1> QED  BY <1>1, Inductive, PTL
===============================================================================
