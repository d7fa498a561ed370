------------------------------- MODULE MCAccess -------------------------------
(* Instances of Access for TLC. *)
EXTENDS Access

CONSTANTS a1, t1, t2, boot

Owners   == [t \in Tokens |-> a1]
AllPerms == {Permissions}
===============================================================================
