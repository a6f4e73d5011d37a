----------------------------- MODULE JobStoreMC -----------------------------
(* Small instances of the job registry for TLC.                            *)
EXTENDS JobStore, TLC

Symmetric == Permutations(Job) \cup Permutations(Pod)
=============================================================================
