------------------------------ MODULE Dispatcher ------------------------------
(***************************************************************************)
(* src/invocation/dispatcher.go: a concurrent map from queue ids to        *)
(* buffered Go channels.  Goroutines call Listen, WaitFor, Dispatch and    *)
(* Close; a call is cut at every operation on shared state: the test of    *)
(* d.closed, the map operation, the select, and each step of the loop in   *)
(* Close.  A Go panic is unrecovered and stops the process.                *)
(***************************************************************************)
EXTENDS Naturals, Sequences, FiniteSets

CONSTANTS
    Goroutines,   \* the goroutines that call the dispatcher
    MayCall,      \* the operations each of them calls
    QueueIds,     \* the ids of the channels
    Capacity,     \* the size of a channel's buffer, 32 in the code
    MaxCalls,     \* bound: calls in one behaviour
    None          \* no channel, no goroutine

Ops == {"Listen", "WaitFor", "Dispatch", "Close"}

ASSUME CapacityAssumption == Capacity \in Nat \ {0}
ASSUME MaxCallsAssumption == MaxCalls \in Nat
ASSUME MayCallAssumption  == MayCall \in [Goroutines -> SUBSET Ops]

Chans    == 1 .. MaxCalls         \* channels ever made, in order of creation
Payloads == 1 .. MaxCalls         \* payloads, named by the call that sends them

ASSUME NoneAssumption == None \notin Chans \cup Goroutines \cup QueueIds

VARIABLES
    closed,       \* d.closed is closed
    channels,     \* the map d.channels
    buffer,       \* what each channel buffers
    shut,         \* the channels that have been closed
    made,         \* how many channels were made
    calls,        \* how many calls were made
    pc, op, id,   \* per goroutine: where it stands, in which call, for which id
    chan,         \* the channel it loaded
    payload,      \* what it sends
    toClose,      \* ids the Range in Close has yet to visit
    result,       \* what its last call returned
    accepted,     \* the id for which each payload was sent into a channel
    received,     \* the id for which each payload was received
    heard,        \* ids for which a Listen has returned
    expected,     \* the dispatches that began when their id was heard of
    panicked      \* the process died of a panic: where

vars == <<closed, channels, buffer, shut, made, calls, pc, op, id, chan, payload,
          toClose, result, accepted, received, heard, expected, panicked>>

history == <<accepted, received, heard, expected>>

TypeOK ==
    /\ closed \in BOOLEAN
    /\ channels \in [QueueIds -> Chans \cup {None}]
    /\ buffer \in [Chans -> Seq(Payloads)]
    /\ \A c \in Chans : Len(buffer[c]) <= Capacity
    /\ shut \subseteq Chans
    /\ made \in 0 .. MaxCalls /\ calls \in 0 .. MaxCalls
    /\ pc \in [Goroutines -> {"idle", "check", "load", "send", "receive",
                              "signal", "range", "delete"}]
    /\ op \in [Goroutines -> Ops \cup {None}]
    /\ id \in [Goroutines -> QueueIds \cup {None}]
    /\ chan \in [Goroutines -> Chans \cup {None}]
    /\ payload \in [Goroutines -> Payloads \cup {None}]
    /\ toClose \in [Goroutines -> SUBSET QueueIds]
    /\ result \in [Goroutines -> {"none", "ok", "closed", "timeout", "noChannel", "full"}]
    /\ accepted \in [Payloads -> QueueIds \cup {None}]
    /\ received \in [Payloads -> QueueIds \cup {None}]
    /\ heard \subseteq QueueIds
    /\ expected \subseteq Goroutines
    /\ panicked \in {"no", "send on closed channel", "close of closed channel"}

Init ==
    /\ closed = FALSE
    /\ channels = [q \in QueueIds |-> None]
    /\ buffer = [c \in Chans |-> << >>]
    /\ shut = {}
    /\ made = 0 /\ calls = 0
    /\ pc = [g \in Goroutines |-> "idle"]
    /\ op = [g \in Goroutines |-> None]
    /\ id = [g \in Goroutines |-> None]
    /\ chan = [g \in Goroutines |-> None]
    /\ payload = [g \in Goroutines |-> None]
    /\ toClose = [g \in Goroutines |-> {}]
    /\ result = [g \in Goroutines |-> "none"]
    /\ accepted = [p \in Payloads |-> None]
    /\ received = [p \in Payloads |-> None]
    /\ heard = {} /\ expected = {}
    /\ panicked = "no"

-------------------------------------------------------------------------------
Running  == panicked = "no"
At(g, l) == Running /\ pc[g] = l
Goto(g, l) == pc' = [pc EXCEPT ![g] = l]
Return(g, r) == Goto(g, "idle") /\ result' = [result EXCEPT ![g] = r]

Panic(why) ==
    /\ panicked' = why
    /\ UNCHANGED <<closed, channels, buffer, shut, made, calls, pc, op, id, chan,
                   payload, toClose, result, history>>

Call(g, o, q) ==
    /\ At(g, "idle") /\ calls < MaxCalls /\ o \in MayCall[g]
    /\ calls' = calls + 1
    /\ op' = [op EXCEPT ![g] = o]
    /\ id' = [id EXCEPT ![g] = q]
    /\ chan' = [chan EXCEPT ![g] = None]
    /\ payload' = [payload EXCEPT ![g] = IF o = "Dispatch" THEN calls + 1 ELSE None]
    /\ result' = [result EXCEPT ![g] = "none"]
    /\ expected' = IF o = "Dispatch" /\ q \in heard THEN expected \cup {g} ELSE expected \ {g}
    /\ Goto(g, "check")
    /\ UNCHANGED <<closed, channels, buffer, shut, made, toClose, accepted, received, heard,
                   panicked>>

\* select { case <-d.closed: ...; default: } at the head of every operation
CheckClosed(g) ==
    /\ At(g, "check")
    /\ \/ closed /\ Return(g, "closed")
       \/ /\ ~closed /\ Goto(g, IF op[g] = "Close" THEN "signal" ELSE "load")
          /\ UNCHANGED result
    /\ UNCHANGED <<closed, channels, buffer, shut, made, calls, op, id, chan, payload,
                   toClose, history, panicked>>

-------------------------------------------------------------------------------
(* Listen and WaitFor *)

\* channels.LoadOrCompute is atomic.
\* An operator Op_Variant states Op with one mistake in it; nothing uses it.
Loaded_Anew(g) == None
Loaded(g)      == channels[id[g]]

LoadOrCompute(g) ==
    /\ At(g, "load") /\ op[g] \in {"Listen", "WaitFor"}
    /\ LET c == IF Loaded(g) = None THEN made + 1 ELSE Loaded(g) IN
       /\ chan' = [chan EXCEPT ![g] = c]
       /\ channels' = [channels EXCEPT ![id[g]] = c]
       /\ made' = IF c > made THEN c ELSE made
    /\ \/ op[g] = "Listen" /\ Return(g, "ok") /\ heard' = heard \cup {id[g]}
       \/ op[g] = "WaitFor" /\ Goto(g, "receive") /\ UNCHANGED <<result, heard>>
    /\ UNCHANGED <<closed, buffer, shut, calls, op, id, payload, toClose, accepted, received,
                   expected, panicked>>

Receive(g) ==                       \* payload, ok := <-ch
    /\ At(g, "receive") /\ buffer[chan[g]] # << >>
    /\ buffer' = [buffer EXCEPT ![chan[g]] = Tail(@)]
    /\ received' = [received EXCEPT ![Head(buffer[chan[g]])] = id[g]]
    /\ Return(g, "ok")
    /\ UNCHANGED <<closed, channels, shut, made, calls, op, id, chan, payload, toClose,
                   accepted, heard, expected, panicked>>

\* What wakes a receiver with an error: its channel closed and drained, d.closed.
Ended_ChannelOnly(g) == chan[g] \in shut /\ buffer[chan[g]] = << >>
Ended(g) == closed \/ (chan[g] \in shut /\ buffer[chan[g]] = << >>)

ReceiveClosed(g) ==
    /\ At(g, "receive") /\ Ended(g)
    /\ Return(g, "closed")
    /\ UNCHANGED <<closed, channels, buffer, shut, made, calls, op, id, chan, payload,
                   toClose, history, panicked>>

AfterTimeout_Deleted(g) == [channels EXCEPT ![id[g]] = None]
AfterTimeout(g)         == channels

ReceiveTimeout(g) ==                \* <-time.After(timeout): the channel stays
    /\ At(g, "receive")
    /\ channels' = AfterTimeout(g)
    /\ Return(g, "timeout")
    /\ UNCHANGED <<closed, buffer, shut, made, calls, op, id, chan, payload, toClose,
                   history, panicked>>

-------------------------------------------------------------------------------
(* Dispatch *)

Load(g) ==                          \* getCh; without a channel it is a no-op
    /\ At(g, "load") /\ op[g] = "Dispatch"
    /\ \/ channels[id[g]] = None /\ Return(g, "noChannel") /\ UNCHANGED chan
       \/ /\ channels[id[g]] # None /\ Goto(g, "send")
          /\ chan' = [chan EXCEPT ![g] = channels[id[g]]]
          /\ UNCHANGED result
    /\ UNCHANGED <<closed, channels, buffer, shut, made, calls, op, id, payload, toClose,
                   history, panicked>>

Full_Never(g) == FALSE
Full(g)       == Len(buffer[chan[g]]) >= Capacity

Send(g) ==                          \* case ch <- payload
    /\ At(g, "send") /\ chan[g] \notin shut /\ ~Full(g)
    /\ buffer' = [buffer EXCEPT ![chan[g]] = Append(@, payload[g])]
    /\ accepted' = [accepted EXCEPT ![payload[g]] = id[g]]
    /\ Return(g, "ok")
    /\ UNCHANGED <<closed, channels, shut, made, calls, op, id, chan, payload, toClose,
                   received, heard, expected, panicked>>

SendPanics(g) ==                    \* the same case, when ch has been closed
    /\ At(g, "send") /\ chan[g] \in shut
    /\ Panic("send on closed channel")

SendClosed(g) ==                    \* case <-d.closed
    /\ At(g, "send") /\ closed
    /\ Return(g, "closed")
    /\ UNCHANGED <<closed, channels, buffer, shut, made, calls, op, id, chan, payload,
                   toClose, history, panicked>>

SendDropped(g) ==                   \* default: no case was ready
    /\ At(g, "send") /\ ~closed /\ chan[g] \notin shut /\ Full(g)
    /\ Return(g, "full")
    /\ UNCHANGED <<closed, channels, buffer, shut, made, calls, op, id, chan, payload,
                   toClose, history, panicked>>

-------------------------------------------------------------------------------
(* Close *)

CloseSignal(g) ==                   \* close(d.closed), the Range begins
    /\ At(g, "signal") /\ ~closed
    /\ closed' = TRUE
    /\ toClose' = [toClose EXCEPT ![g] = {q \in QueueIds : channels[q] # None}]
    /\ Goto(g, "range")
    /\ UNCHANGED <<channels, buffer, shut, made, calls, op, id, chan, payload, result,
                   history, panicked>>

CloseSignalPanics(g) ==
    /\ At(g, "signal") /\ closed
    /\ Panic("close of closed channel")

CloseChannel(g, q) ==               \* close(ch)
    /\ At(g, "range") /\ q \in toClose[g]
    /\ shut' = shut \cup {channels[q]}
    /\ id' = [id EXCEPT ![g] = q]
    /\ Goto(g, "delete")
    /\ UNCHANGED <<closed, channels, buffer, made, calls, op, chan, payload, toClose,
                   result, history, panicked>>

DeleteChannel(g) ==                 \* d.channels.Delete(id)
    /\ At(g, "delete")
    /\ channels' = [channels EXCEPT ![id[g]] = None]
    /\ toClose' = [toClose EXCEPT ![g] = @ \ {id[g]}]
    /\ Goto(g, "range")
    /\ UNCHANGED <<closed, buffer, shut, made, calls, op, id, chan, payload, result,
                   history, panicked>>

CloseReturns(g) ==
    /\ At(g, "range") /\ toClose[g] = {}
    /\ Return(g, "ok")
    /\ UNCHANGED <<closed, channels, buffer, shut, made, calls, op, id, chan, payload,
                   toClose, history, panicked>>

-------------------------------------------------------------------------------
\* The steps of a call under way; the timer of WaitFor is not among them.
Step(g) ==
    \/ CheckClosed(g) \/ LoadOrCompute(g) \/ Receive(g) \/ ReceiveClosed(g)
    \/ Load(g) \/ Send(g) \/ SendPanics(g) \/ SendClosed(g) \/ SendDropped(g)
    \/ CloseSignal(g) \/ CloseSignalPanics(g) \/ DeleteChannel(g) \/ CloseReturns(g)
    \/ \E q \in QueueIds : CloseChannel(g, q)

Next == \E g \in Goroutines :
            \/ \E o \in Ops, q \in QueueIds : Call(g, o, q)
            \/ Step(g) \/ ReceiveTimeout(g)

Spec     == Init /\ [][Next]_vars
FairSpec == Spec /\ \A g \in Goroutines : WF_vars(Step(g))

-------------------------------------------------------------------------------
(* Properties *)

\* Until Close, all who hold the channel of an id hold the one in the map, so a
\* payload sent for the id reaches whoever waits for it (LoadOrCompute).
OneChannelPerId ==
    \A g \in Goroutines :
        pc[g] \in {"receive", "send"} /\ ~closed => chan[g] = channels[id[g]]

\* A payload that Dispatch has put into a channel stays in reach of whoever waits
\* for its id next, also when the waiter it was meant for has timed out or several
\* made the channel at once, until it is received for that id or the dispatcher is
\* closed (the map keeps the channel of an id, and only Close removes it).
InReach(p) == LET c == channels[accepted[p]] IN
                  c # None /\ \E k \in 1 .. Len(buffer[c]) : buffer[c][k] = p
PayloadsStayInReach ==
    \A p \in Payloads : accepted[p] # None =>
        received[p] = accepted[p] \/ (received[p] = None /\ (closed \/ InReach(p)))

\* A Dispatch that began after a Listen for its id had returned finds the
\* channel, unless the dispatcher was closed (GetNextInvocation listens before
\* it polls for exactly this reason).
ListenersAreHeard ==
    \A g \in Goroutines :
        g \in expected /\ result[g] = "noChannel" => closed

\* Close releases everybody who waits, without waiting for their timers (the
\* d.closed case of the select in WaitFor).
CloseReleasesWaiters ==
    \A g \in Goroutines :
        closed /\ pc[g] = "receive" ~> pc[g] # "receive" \/ ~Running
=============================================================================
