------------------------------- MODULE WorkerPool -------------------------------
(***************************************************************************)
(* pool.rs: closures on a rayon pool whose threads have a Worker each, a   *)
(* RefCell in a thread local.  A call runs its closure on all threads      *)
(* (broadcast, init, clear), on one (install, install_fn, spawn, and the   *)
(* spawn of BlockingTaskPool) or where it is made (with_worker, _mut); of  *)
(* in_place_scope the pool sees a job spawned in the scope.  A thread      *)
(* whose closure waits inside rayon, for a nested call or for a join, runs *)
(* other jobs meanwhile, on top of that closure.                           *)
(***************************************************************************)
EXTENDS Integers, Sequences, FiniteSets, Functions

CONSTANTS Threads,  \* of the pool
          Calls,    \* of the methods of the pool
          Types,    \* of worker states
          Ops,      \* the methods in use
          None

ASSUME ThreadsAssumption == IsFiniteSet(Threads) /\ Threads # {} /\ None \notin Types

OnAll   == {"broadcast", "init", "clear"}
OnOne   == {"install", "install_fn", "in_place_scope", "spawn", "task"}
InPlace == {"with_worker", "with_worker_mut"}

ASSUME OpsAssumption == Ops \subseteq OnAll \cup OnOne \cup InPlace

Detached == {"spawn", "task"}                     \* the caller does not wait
Mut      == OnAll \cup {"with_worker_mut"}        \* with_borrow_mut
Shared   == {"install", "with_worker"}            \* with_borrow

\* Called from a thread of the pool too, they leave jobs for whoever comes first.
Posted == OnAll \cup Detached \cup {"in_place_scope"}

VARIABLES
    op, type,    \* of each call: the method, the T of init
    parent,      \* the closure <<call, thread>> it was made in, or <<>>
    remaining,   \* the budget of a broadcast
    result,      \* none, open, ok, panicked
    job,         \* of each call on each thread
    seen,        \* the budget it has last read
    stack,       \* of each thread: the calls whose closures it is in
    state,       \* of each thread: Worker::state
    initing,     \* the T of a Worker::init in progress
    want,        \* the number of threads a broadcast was asked for
    last         \* history: the init that no other call that can change a state
                 \* overlaps or follows

callVars   == <<op, type, parent>>
workerVars == <<state, initing>>
history    == <<want, last>>
vars == <<callVars, remaining, result, job, seen, stack, workerVars, history>>

Active == {"claiming", "claimed", "running", "waiting"}
Ended  == {"skipped", "ran", "refused", "panicked"}

Init ==
    /\ op = [c \in Calls |-> "none"] /\ type = [c \in Calls |-> None]
    /\ parent = [c \in Calls |-> <<>>]
    /\ remaining = [c \in Calls |-> 0]
    /\ result = [c \in Calls |-> "none"]
    /\ job = [c \in Calls |-> [th \in Threads |-> "none"]]
    /\ seen = [c \in Calls |-> [th \in Threads |-> 0]]
    /\ stack = [th \in Threads |-> <<>>]
    /\ state = [th \in Threads |-> None] /\ initing = [th \in Threads |-> None]
    /\ want = [c \in Calls |-> 0] /\ last = None

OnTop(c, th) == stack[th] # <<>> /\ Head(stack[th]) = c
In(c, th, place) == OnTop(c, th) /\ job[c][th] = place
Borrows(S, th) == \E d \in Calls : /\ op[d] \in S
                                   /\ job[d][th] \in {"running", "waiting"}

\* The code of a closure that was handed to the call is running; what init and
\* clear do themselves calls nobody and does not wait.
InCode(c, th) ==
    /\ In(c, th, "running") /\ op[c] # "clear"
    /\ op[c] = "init" => initing[th] # None

-------------------------------------------------------------------------------
(* Calls.                                                                  *)

\* broadcast compares num_threads with the size of the pool; init and clear
\* are for all threads.  Jobs on one thread are queued for whoever comes first.
Call(c, o, T, n, from) ==
    /\ result[c] = "none"
    /\ o # "broadcast" => n = Cardinality(Threads)
    /\ op' = [op EXCEPT ![c] = o]
    /\ type' = [type EXCEPT ![c] = IF o = "init" THEN T ELSE None]
    /\ parent' = [parent EXCEPT ![c] = from]
    /\ remaining' = [remaining EXCEPT ![c] = n]
    /\ result' = [result EXCEPT ![c] = "open"]
    /\ want' = [want EXCEPT ![c] = n]
    /\ last' = IF o \notin Mut THEN last
               ELSE IF o = "init" /\ ~\E d \in Calls : op[d] \in Mut /\ result[d] = "open"
                    THEN c ELSE None
    /\ UNCHANGED <<seen, workerVars>>

Queue(c) == job' = [job EXCEPT ![c] = [th \in Threads |-> "queued"]]

CallFromOutside(c, o, T, n) ==
    /\ o \notin InPlace
    /\ Call(c, o, T, n, <<>>)
    /\ Queue(c)
    /\ UNCHANGED stack

\* A closure calls the pool it runs on: rayon runs install at once, on the same
\* thread, and queues the rest.
CallFromClosure(c, o, T, n, d, th) ==
    /\ InCode(d, th)
    /\ Call(c, o, T, n, <<d, th>>)
    /\ IF o \in Posted
       THEN /\ job' = [job EXCEPT ![c] = [h \in Threads |-> "queued"],
                                  ![d][th] = IF o \in Detached THEN @ ELSE "waiting"]
            /\ UNCHANGED stack
       ELSE /\ job' = [job EXCEPT ![c][th] = "claimed", ![d][th] = "waiting"]
            /\ stack' = [stack EXCEPT ![th] = <<c>> \o @]

-------------------------------------------------------------------------------
(* Jobs.                                                                   *)

Budgeted(c) == op[c] = "broadcast" /\ remaining[c] < Cardinality(Threads)

Free(th) == stack[th] = <<>> \/ In(Head(stack[th]), th, "waiting")

\* A thread that is free or whose closure waits takes a job.
Begin(c, th) ==
    /\ job[c][th] = "queued"
    /\ Free(th)
    /\ stack' = [stack EXCEPT ![th] = <<c>> \o @]
    /\ job' = IF op[c] \in OnAll
              THEN [job EXCEPT ![c][th] = IF Budgeted(c) THEN "claiming" ELSE "claimed"]
              ELSE [job EXCEPT ![c] = [h \in Threads |->
                                          IF h = th THEN "claimed" ELSE "none"]]
    /\ seen' = [seen EXCEPT ![c][th] = remaining[c]]
    /\ UNCHANGED <<callVars, remaining, result, workerVars, history>>

Ends(c, th, how) ==
    /\ job' = [job EXCEPT ![c][th] = how]
    /\ stack' = [stack EXCEPT ![th] = Tail(@)]

FindNone(c, th) ==
    /\ In(c, th, "claiming")
    /\ seen[c][th] = 0
    /\ Ends(c, th, "skipped")
    /\ UNCHANGED <<callVars, remaining, result, seen, workerVars, history>>

\* Mutant: a store of current - 1 instead of the compare_exchange.
ClaimBlindly(c, th) ==
    /\ In(c, th, "claiming")
    /\ seen[c][th] > 0
    /\ remaining' = [remaining EXCEPT ![c] = seen[c][th] - 1]
    /\ job' = [job EXCEPT ![c][th] = "claimed"]
    /\ UNCHANGED <<callVars, result, seen, stack, workerVars, history>>

\* Mutant: fetch_sub with no test for 0.
ClaimUnchecked(c, th) ==
    /\ In(c, th, "claiming")
    /\ remaining' = [remaining EXCEPT ![c] = @ - 1]
    /\ job' = [job EXCEPT ![c][th] = "claimed"]
    /\ UNCHANGED <<callVars, result, seen, stack, workerVars, history>>

\* compare_exchange_weak finds the value it expects.
Claim(c, th) ==
    /\ In(c, th, "claiming")
    /\ seen[c][th] > 0 /\ remaining[c] = seen[c][th]
    /\ remaining' = [remaining EXCEPT ![c] = @ - 1]
    /\ job' = [job EXCEPT ![c][th] = "claimed"]
    /\ UNCHANGED <<callVars, result, seen, stack, workerVars, history>>

\* Mutant: Err(_) => continue, with the value that was read first.
Retry(c, th) ==
    /\ In(c, th, "claiming")
    /\ UNCHANGED vars

\* It finds another value (or fails for no reason, and finds the same).
ClaimFails(c, th) ==
    /\ In(c, th, "claiming")
    /\ seen[c][th] > 0
    /\ seen' = [seen EXCEPT ![c][th] = remaining[c]]
    /\ UNCHANGED <<callVars, remaining, result, job, stack, workerVars, history>>

\* Mutant: try_borrow_mut, and no call of f where it fails.
BorrowOrSkip(c, th) ==
    /\ In(c, th, "claimed")
    /\ IF (op[c] \in Mut /\ Borrows(Mut \cup Shared, th))
          \/ (op[c] \in Shared /\ Borrows(Mut, th))
       THEN Ends(c, th, "skipped")
       ELSE job' = [job EXCEPT ![c][th] = "running"] /\ UNCHANGED stack
    /\ UNCHANGED <<callVars, remaining, result, seen, workerVars, history>>

\* RefCell: panics when a closure further down the stack is in the way.
Borrow(c, th) ==
    /\ In(c, th, "claimed")
    /\ IF (op[c] \in Mut /\ Borrows(Mut \cup Shared, th))
          \/ (op[c] \in Shared /\ Borrows(Mut, th))
       THEN Ends(c, th, "refused")
       ELSE job' = [job EXCEPT ![c][th] = "running"] /\ UNCHANGED stack
    /\ UNCHANGED <<callVars, remaining, result, seen, workerVars, history>>

-------------------------------------------------------------------------------
(* What closures do.                                                       *)

\* rayon::join, a scope, an iterator: the thread may find other work.
Yield(c, th) ==
    /\ InCode(c, th)
    /\ job' = [job EXCEPT ![c][th] = "waiting"]
    /\ UNCHANGED <<callVars, remaining, result, seen, stack, workerVars, history>>

\* What a closure waits for: the calls it made.
Answered(c, th) ==
    \A d \in Calls : parent[d] = <<c, th>> /\ op[d] \notin Detached => result[d] # "open"

Resume(c, th) ==
    /\ In(c, th, "waiting")
    /\ Answered(c, th)
    /\ job' = [job EXCEPT ![c][th] = "running"]
    /\ UNCHANGED <<callVars, remaining, result, seen, stack, workerVars, history>>

\* Mutant: the state is left in place while f runs.
InitInPlace(c, th, T) ==
    /\ In(c, th, "running") /\ op[c] \in Mut \ {"clear"}
    /\ op[c] = "init" => T = type[c]
    /\ initing[th] = None
    /\ initing' = [initing EXCEPT ![th] = T]
    /\ UNCHANGED <<callVars, remaining, result, job, seen, stack, state, history>>

\* Worker::init takes the state out, calls f with it or, when it has another
\* type, without, and puts the new one in.
InitBegins(c, th, T) ==
    /\ In(c, th, "running") /\ op[c] \in Mut \ {"clear"}
    /\ op[c] = "init" => T = type[c]
    /\ initing[th] = None
    /\ initing' = [initing EXCEPT ![th] = T]
    /\ state' = [state EXCEPT ![th] = None]
    /\ UNCHANGED <<callVars, remaining, result, job, seen, stack, history>>

InitEnds(c, th) ==
    /\ In(c, th, "running") /\ op[c] \in Mut
    /\ initing[th] # None
    /\ state' = [state EXCEPT ![th] = initing[th]]
    /\ initing' = [initing EXCEPT ![th] = None]
    /\ IF op[c] = "init" THEN Ends(c, th, "ran") ELSE UNCHANGED <<job, stack>>
    /\ UNCHANGED <<callVars, remaining, result, seen, history>>

\* Worker::get_or_init and Worker::clear, in a closure with a mutable borrow.
GetOrInit(c, th, T) ==
    /\ In(c, th, "running") /\ op[c] \in {"broadcast", "with_worker_mut"}
    /\ initing[th] = None /\ state[th] = None
    /\ state' = [state EXCEPT ![th] = T]
    /\ UNCHANGED <<callVars, remaining, result, job, seen, stack, initing, history>>

ClearState(c, th) ==
    /\ In(c, th, "running") /\ op[c] \in Mut \ {"init"}
    /\ initing[th] = None
    /\ state' = [state EXCEPT ![th] = None]
    /\ IF op[c] = "clear" THEN Ends(c, th, "ran") ELSE UNCHANGED <<job, stack>>
    /\ UNCHANGED <<callVars, remaining, result, seen, initing, history>>

ClosureEnds(c, th) ==
    /\ In(c, th, "running") /\ op[c] \notin {"init", "clear"}
    /\ op[c] \in Mut => initing[th] = None
    /\ Ends(c, th, "ran")
    /\ UNCHANGED <<callVars, remaining, result, seen, workerVars, history>>

\* Also a get of a state that is not there or has another type.
ClosurePanics(c, th) ==
    /\ InCode(c, th)
    /\ Ends(c, th, "panicked")
    /\ initing' = IF op[c] \in Mut THEN [initing EXCEPT ![th] = None] ELSE initing
    /\ UNCHANGED <<callVars, remaining, result, seen, state, history>>

-------------------------------------------------------------------------------
(* Rayon collects the jobs: the call returns when all have ended, and raises *)
(* a panic of any.  The panic of a task is in the result it sends, that of a *)
(* spawned closure goes to the panic handler of the pool.                    *)

Jobs(c) == {th \in Threads : job[c][th] # "none"}
Done(c) == \A th \in Jobs(c) : job[c][th] \in Ended

Return(c) ==
    /\ result[c] = "open"
    /\ Done(c)
    /\ result' = [result EXCEPT ![c] =
                    IF \E th \in Jobs(c) : job[c][th] \in {"refused", "panicked"}
                    THEN "panicked" ELSE "ok"]
    /\ UNCHANGED <<callVars, remaining, job, seen, stack, workerVars, history>>

-------------------------------------------------------------------------------
CallStep(c) ==
    \E o \in Ops, T \in Types, n \in 0..Cardinality(Threads) :
        \/ CallFromOutside(c, o, T, n)
        \/ \E d \in Calls, th \in Threads : CallFromClosure(c, o, T, n, d, th)

PoolStep(c, th) == Begin(c, th) \/ FindNone(c, th) \/ Borrow(c, th) \/ Resume(c, th)

WorkerStep(c, th) ==
    \/ \E T \in Types : InitBegins(c, th, T) \/ GetOrInit(c, th, T)
    \/ InitEnds(c, th) \/ ClearState(c, th)

ClosureStep(c, th) ==
    Yield(c, th) \/ ClosureEnds(c, th) \/ ClosurePanics(c, th) \/ WorkerStep(c, th)

Next ==
    \E c \in Calls :
        \/ CallStep(c) \/ Return(c)
        \/ \E th \in Threads : \/ PoolStep(c, th) \/ ClosureStep(c, th)
                               \/ Claim(c, th) \/ ClaimFails(c, th)

Spec == Init /\ [][Next]_vars

-------------------------------------------------------------------------------
(* Properties.                                                             *)

\* Every variable has its type.  The budget never wraps below 0, a closure is
\* on the stack of its thread exactly while it runs there, and a Worker has no
\* state while one is being made: a panic then leaves none.
TypeOK ==
    /\ op \in [Calls -> Ops \cup {"none"}] /\ type \in [Calls -> Types \cup {None}]
    /\ parent \in [Calls -> (Calls \X Threads) \cup {<<>>}]
    /\ remaining \in [Calls -> 0..Cardinality(Threads)]
    /\ result \in [Calls -> {"none", "open", "ok", "panicked"}]
    /\ job \in [Calls -> [Threads -> Active \cup Ended \cup {"none", "queued"}]]
    /\ seen \in [Calls -> [Threads -> 0..Cardinality(Threads)]]
    /\ want \in [Calls -> 0..Cardinality(Threads)] /\ last \in Calls \cup {None}
    /\ stack \in [Threads -> Seq(Calls)]
    /\ state \in [Threads -> Types \cup {None}]
    /\ initing \in [Threads -> Types \cup {None}]
    /\ \A th \in Threads :
        /\ \A c \in Calls : job[c][th] \in Active <=> c \in Range(stack[th])
        /\ initing[th] # None => state[th] = None

\* A broadcast calls its closure on as many threads as it was asked for: on no
\* more at any time, and on no fewer when it returns.
ExactThreads ==
    \A c \in Calls : op[c] = "broadcast" =>
        LET Called == {th \in Threads : job[c][th] \in {"running", "waiting", "ran",
                                                       "panicked"}} IN
        /\ Cardinality(Called) <= want[c]
        /\ result[c] = "ok" => Cardinality(Called) = want[c]

\* After init has returned every thread has a state of its type, whatever jobs,
\* nested calls and panics there were, until the next call that can change one.
InitReachesAll ==
    last # None /\ result[last] = "ok" => \A th \in Threads : state[th] = type[last]

\* What the threads and rayon do by themselves, closures coming to an end.
Moves == \E c \in Calls :
    \/ Return(c)
    \/ \E th \in Threads : \/ PoolStep(c, th) \/ Claim(c, th) \/ ClaimFails(c, th)
                           \/ \E T \in Types : InitBegins(c, th, T)
                           \/ InitEnds(c, th) \/ ClearState(c, th) \/ ClosureEnds(c, th)
                           \/ ClosurePanics(c, th)

\* Somebody is where one of these steps begins, as far as guards tell.
CanGo == \E c \in Calls :
    \/ result[c] = "open" /\ Done(c)
    \/ \E th \in Threads :
          \/ job[c][th] = "queued" /\ Free(th)
          \/ In(c, th, "claiming") \/ In(c, th, "claimed")
          \/ In(c, th, "running") /\ (op[c] = "clear" => initing[th] = None)
          \/ In(c, th, "waiting") /\ Answered(c, th)

Served == (\E c \in Calls : result[c] = "open") => CanGo

\* No call is stranded: not by threads that wait for calls their own closures
\* made, which take the jobs others wait for, nor by a race for the budget.
NoneStranded == Served /\ (CanGo <=> ENABLED <<Moves>>_vars)
===============================================================================
