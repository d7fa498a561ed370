----------------------------- MODULE MCDeployment -----------------------------
(* Instances of Deployment for TLC. *)
EXTENDS Deployment, TLC

CONSTANTS p1, p2

\* Requests are interchangeable.
SlotSymmetry == Permutations(Slots)
===============================================================================
