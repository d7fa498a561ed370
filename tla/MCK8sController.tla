---------------------------- MODULE MCK8sController ----------------------------
(* Instances of K8sController for TLC. *)
EXTENDS K8sController

CONSTANTS c1, c2, c3

At(name, service, ingress) == [name |-> name, service |-> service, ingress |-> ingress]

\* Two publishes with one migration job, and a restart of another deployment between.
ThreeSets == [c \in Calls |->
    CASE c = c1 -> <<At("x", "s", TRUE)>>
      [] c = c2 -> <<At("y", "s", FALSE)>>
      [] c = c3 -> <<At("x", None, TRUE)>>]
OneJob == [c \in Calls |-> IF c = c2 THEN {} ELSE {"j"}]
===============================================================================
