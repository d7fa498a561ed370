--------------------------- MODULE InvocationQueue ---------------------------
(***************************************************************************)
(* What maos-core promises about an invocation, seen from outside: it is   *)
(* submitted to the queue of one actor, handed over at most once, oldest   *)
(* first, to that actor, and finished at most once, by the actor that took *)
(* it.  A finished invocation never changes again.                         *)
(***************************************************************************)
EXTENDS Naturals

CONSTANTS Actors,       \* the actors, each of which owns one queue
          Ids,          \* invocation ids, allocated in increasing order
          NoActor       \* the taker of an invocation that nobody took

VARIABLES state,        \* the life cycle of every invocation
          queue,        \* the actor the invocation was submitted to
          taker         \* the actor the invocation was handed to

vars == <<state, queue, taker>>

Final == {"completed", "discarded"}

TypeOK ==
    /\ state \in [Ids -> {"absent", "available", "running"} \cup Final]
    /\ queue \in [Ids -> Actors \cup {NoActor}]
    /\ taker \in [Ids -> Actors \cup {NoActor}]

Init ==
    /\ state = [i \in Ids |-> "absent"]
    /\ queue = [i \in Ids |-> NoActor]
    /\ taker = [i \in Ids |-> NoActor]

Submit(i, a) ==
    /\ state[i] = "absent"
    /\ \A j \in Ids : j < i => state[j] # "absent"
    /\ state' = [state EXCEPT ![i] = "available"]
    /\ queue' = [queue EXCEPT ![i] = a]
    /\ UNCHANGED taker

Take(i, a) ==
    /\ state[i] = "available" /\ queue[i] = a
    /\ \A j \in Ids : state[j] = "available" /\ queue[j] = a => i <= j
    /\ state' = [state EXCEPT ![i] = "running"]
    /\ taker' = [taker EXCEPT ![i] = a]
    /\ UNCHANGED queue

Finish(i, a, outcome) ==
    /\ state[i] = "running" /\ taker[i] = a
    /\ state' = [state EXCEPT ![i] = outcome]
    /\ UNCHANGED <<queue, taker>>

Next == \E i \in Ids, a \in Actors :
            \/ Submit(i, a)
            \/ Take(i, a)
            \/ \E outcome \in Final : Finish(i, a, outcome)

Spec == Init /\ [][Next]_vars
=============================================================================
