------------------------------ MODULE MCWorkerPool ------------------------------
(* The TLC instance of WorkerPool. *)
EXTENDS WorkerPool, TLC

\* All sound for invariants.
Symmetry == Permutations(Threads) \cup Permutations(Calls) \cup Permutations(Types)

AllOps == OnAll \cup OnOne \cup InPlace
===============================================================================
