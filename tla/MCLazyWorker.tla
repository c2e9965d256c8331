------------------------------ MODULE MCLazyWorker -----------------------------
(* The TLC instance of LazyWorker. *)
EXTENDS LazyWorker, TLC

\* Closures are interchangeable, and so are names: sound for invariants.
Symmetry == Permutations(Tasks) \cup Permutations(Names)
===============================================================================
