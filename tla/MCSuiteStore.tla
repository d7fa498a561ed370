----------------------------- MODULE MCSuiteStore -----------------------------
(* Instances of SuiteStore for TLC. *)
EXTENDS SuiteStore, TLC

CONSTANTS s1, s2

\* The server itself is listed between two others.
ThreeNames == <<"east", "here", "west">>

SyncSymmetry == Permutations(Syncs)
===============================================================================
