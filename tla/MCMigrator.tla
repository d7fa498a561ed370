------------------------------ MODULE MCMigrator ------------------------------
(* Instances of Migrator for TLC. *)
EXTENDS Migrator, TLC

CONSTANTS p1, p2

Processes == Permutations(Runs)

\* None at all, or any limit and target, each with one that is too large.
SomeOptions ==
    {[nil |-> TRUE, DryRun |-> FALSE, MaxSteps |-> 0, TargetVersion |-> 0]}
    \cup [nil : {FALSE}, DryRun : BOOLEAN, MaxSteps : {-1, 0, 2}, TargetVersion : {-1, 0, 2, Newest + 1}]
===============================================================================
