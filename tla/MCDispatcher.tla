----------------------------- MODULE MCDispatcher -----------------------------
(* Instances of Dispatcher for TLC. *)
EXTENDS Dispatcher, TLC

CONSTANTS w1, w2, d1, k1

\* Two GetNext handlers, the delivery goroutine and Manager.Close; w2 may also
\* close, so that two Close calls meet.
Server == w1 :> {"Listen", "WaitFor"} @@ w2 :> {"WaitFor", "Close"}
          @@ d1 :> {"Dispatch"} @@ k1 :> {"Close"}
===============================================================================
