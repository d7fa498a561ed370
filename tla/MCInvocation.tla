----------------------------- MODULE MCInvocation -----------------------------
(* Instances of Invocation for TLC. *)
EXTENDS Invocation, TLC

CONSTANTS a1, w1, w2, c1, c2

\* Two workers serve one queue.
SharedQueue == w1 :> a1 @@ w2 :> a1

\* One worker serves it.
OneWorker == w1 :> a1

\* Callers are interchangeable; so are the workers of one queue.
SharedSymmetry == Permutations(Callers) \cup Permutations(Workers)
===============================================================================
