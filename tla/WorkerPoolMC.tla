---------------------------- MODULE WorkerPoolMC ----------------------------
(* Small instances of the worker pool for TLC.                             *)
EXTENDS WorkerPool, TLC

ChunkSymmetry == Permutations(Task)
=============================================================================
