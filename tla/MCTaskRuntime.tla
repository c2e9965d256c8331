----------------------------- MODULE MCTaskRuntime -----------------------------
(* TLC instances of TaskRuntime. *)
EXTENDS TaskRuntime, TLC

\* Owners of one sort are interchangeable, and so are guards: sound for safety.
Symmetry == Permutations(Tasks) \cup Permutations(Callers) \cup Permutations(Guards)

\* All but criticalBlocking, which the run with fairness has.
AlmostAll == AllKinds \ {"criticalBlocking"}

\* A task the runtime stops and one it waits for, both watched for panics.
Watched == {"criticalBlocking", "criticalGraceful"}

GracefulOnly == {"critical", "graceful"}
===============================================================================
