------------------------------ MODULE MCCliRunner ------------------------------
(* TLC instances of CliRunner. *)
EXTENDS CliRunner

\* A task the runner waits for and one on a blocking thread, both critical.
Watched == {"criticalBlocking", "criticalGraceful"}

\* The same, but the task that is waited for is not watched for panics.
HalfWatched == {"criticalBlocking", "graceful"}

NoClosure == Holders \ {Closure}
===============================================================================
