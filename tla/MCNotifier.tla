------------------------------ MODULE MCNotifier ------------------------------
(* Instances of Notifier for TLC. *)
EXTENDS Notifier, TLC

CONSTANTS a, b, p, q, invoke, response

\* Two clients of one topic and one of another.
TwoTopics == a :> response @@ b :> response @@ p :> invoke

\* The subscriptions of Manager.Start (p, q) and two handlers that listen for
\* responses while the manager is running.
Manager == a :> response @@ b :> response @@ p :> invoke @@ q :> response
===============================================================================
