------------------------------- MODULE CliRunner -------------------------------
(***************************************************************************)
(* CliRunner (runner.rs) on top of TaskRuntime: the main thread runs a     *)
(* command until it ends, a signal of the operating system arrives or the  *)
(* TaskManager is done, asks for a graceful shutdown, and lets go of the   *)
(* runtime.  Every step is a step of TaskRuntime or leaves it alone.       *)
(***************************************************************************)
EXTENDS Integers, FiniteSets

CONSTANTS Tasks, Guards, NoOne, Kinds, MaxCalls,    \* of TaskRuntime
          Main, Command,      \* callers: the main thread, the command,
          Closure,            \* and the closure given to spawn_blocking
          Clients,            \* who may be given a clone of Runtime
          MaxAskers           \* how many of them ask for a shutdown

\* run_command_until_exit, run_blocking_command_until_exit, run_until_ctrl_c
\* and run_blocking_until_ctrl_c.
Methods == {"command", "blockingCommand", "future", "blockingFuture"}
WithManager == {"command", "blockingCommand"}
OnMain == {"command", "future"}        \* the command is polled by the main thread

\* A task calls the runtime from the thread that polls it.
Asker(t) == <<t>>
Holders  == {Command, Closure} \cup {Asker(t) : t \in Tasks}
Callers  == {Main} \cup Holders

ASSUME CallersAssumption ==
    /\ Main \notin Holders /\ Command # Closure
    /\ \A t \in Tasks : Asker(t) \notin {Command, Closure}
    /\ Tasks \cap Callers = {}
    /\ NoOne \notin Tasks \cup Callers
    /\ Clients \subseteq Holders /\ Command \in Clients

VARIABLES
    events, managerPc, taken, fired, handles, down, kind, pc, at, by,
    gracefulTasks, call, calls, started, finished,    \* of TaskRuntime
    method,        \* the method that was called
    main,          \* where the main thread is in it
    command,       \* the command's future
    result,        \* what the method returns
    interrupted,   \* SIGINT or SIGTERM has arrived
    clones,        \* the callers that hold a clone of Runtime
    lastHolder,    \* {} or {who dropped the last one}
    closure,       \* a closure given to spawn_blocking is running
    shutdownThread \* the thread of runtime_shutdown

R == INSTANCE TaskRuntime

\* What TaskRuntime assumes of the constants it is given.
ASSUME RuntimeAssumption ==
    IsFiniteSet(Guards) /\ Kinds \subseteq R!AllKinds /\ MaxCalls \in Nat

runtimeVars == <<events, managerPc, taken, fired, handles, down, kind, pc, at, by,
                 gracefulTasks, call, calls, started, finished>>
runnerVars == <<method, main, command, result, interrupted, clones, lastHolder,
                closure, shutdownThread>>
vars == <<runtimeVars, runnerVars>>

Init ==
    /\ R!Init
    /\ method \in Methods
    /\ clones \in {{Main, Command}, {Main}}
    /\ method \in WithManager => Command \in clones    \* CliContext
    /\ main = "select"
    /\ command = IF method \in OnMain THEN "running" ELSE "queued"
    /\ result = "none"
    /\ interrupted = FALSE
    /\ lastHolder = {}
    /\ closure = FALSE
    /\ shutdownThread = "none"

-------------------------------------------------------------------------------
(* Steps of the runtime, taken by those who hold a clone of it.  The poll   *)
(* of a task is held up by a call that the task makes.                     *)

Active(c) == \/ c = Command /\ command = "running"
             \/ c = Closure /\ closure
             \/ \E t \in Tasks : c = Asker(t) /\ pc[t] = "running"

Free(c)  == Active(c) /\ call[c] \in R!Answered
Using(c) == c \in clones /\ Free(c)

\* Any holder spawns a task, and may give it a clone.
Spawn(t) ==
    /\ \E c \in Holders : Using(c)
    /\ \E k \in Kinds : R!SpawnPlain(t, k) \/ R!SpawnGraceful(t, k)
    /\ clones' \in {clones, clones \cup ({Asker(t)} \cap Clients)}
    /\ UNCHANGED <<method, main, command, result, interrupted, lastHolder, closure,
                   shutdownThread>>

\* Nothing is left in the frame of c.
FrameGone(c) == c \notin clones /\ R!HeldBy(c) = {}

SpawnClosure ==
    /\ \E c \in Holders : Using(c)
    /\ closure \/ FrameGone(Closure)
    /\ closure' = TRUE
    /\ clones' \in {clones, clones \cup ({Closure} \cap Clients)}
    /\ UNCHANGED <<runtimeVars, method, main, command, result, interrupted,
                   lastHolder, shutdownThread>>

ClosureEnds ==
    /\ Free(Closure)
    /\ closure' = FALSE
    /\ UNCHANGED <<runtimeVars, method, main, command, result, interrupted, clones,
                   lastHolder, shutdownThread>>

\* A panic is reported after the future has been dropped.
TaskRuns(t) ==
    /\ call[Asker(t)] \in R!Answered
    /\ \/ R!FirstPoll(t) \/ R!PollTask(t) \/ R!Yield(t) \/ R!Repoll(t)
       \/ R!Cancel(t) \/ R!Complete(t) \/ R!Panic(t) \/ R!Abort(t)
       \/ FrameGone(Asker(t)) /\ R!ReportPanic(t)
       \/ \E g \in Guards : R!OwnerStep(t, g)
    /\ UNCHANGED runnerVars

ManagerRuns == R!ManagerStep /\ UNCHANGED runnerVars

\* The command, a task or a closure asks for a shutdown, on its own thread.
HolderCalls(c) ==
    /\ Using(c)
    /\ Cardinality({d \in Holders \ {c} : calls[d] > 0}) < MaxAskers
    /\ \/ \E how \in {"waiting", "timing"} : R!CallShutdown(c, how)
       \/ R!InitiateSend(c)
    /\ UNCHANGED runnerVars

CallGoesOn(c) ==
    /\ R!SeeDrained(c) \/ R!SeeDeadline(c) \/ R!InitiateReturn(c)
    /\ UNCHANGED runnerVars

\* What it does with the guards of the requests it made.
HolderActs(c) ==
    /\ Free(c)
    /\ \E g \in Guards : R!OwnerStep(c, g)
    /\ UNCHANGED runnerVars

\* Mutant: the runtime is owned by the first frame that drops it, not shared.
DropCloneOwned(c) ==
    /\ c \in clones
    /\ clones' = clones \ {c}
    /\ R!DropHandles
    /\ lastHolder' = {c}

\* A clone is dropped.  With the last one, RuntimeInner is dropped.
DropClone(c) ==
    /\ c \in clones
    /\ clones' = clones \ {c}
    /\ IF clones = {c} THEN R!DropHandles /\ lastHolder' = {c}
                       ELSE UNCHANGED <<runtimeVars, lastHolder>>

CommandOver == command \in {"ok", "err", "panicked", "dropped"}

Over(c) == \/ c = Command /\ CommandOver
           \/ c = Closure /\ ~closure
           \/ \E t \in Tasks : c = Asker(t) /\ pc[t] \in R!Ended \cup {"unwound"}

\* A frame that is over is dropped with all it holds: guards, then the clone.
FrameDrops(c) ==
    /\ Over(c)
    /\ \/ /\ \E g \in R!HeldBy(c) : R!Release(c, g)
          /\ UNCHANGED <<clones, lastHolder>>
       \/ R!HeldBy(c) = {} /\ DropClone(c)
    /\ UNCHANGED <<method, main, command, result, interrupted, closure, shutdownThread>>

\* Its first field is the tokio runtime.
TokioShutdown ==
    /\ ~handles
    /\ R!TokioShutdown
    /\ UNCHANGED runnerVars

\* The drop of the tokio runtime waits for every task and blocking thread, and
\* for what their frames hold.
WaitOver ==
    /\ down
    /\ \A t \in Tasks : pc[t] \in R!Ended \cup {"none"}
    /\ \A c \in Holders : FrameGone(c)
    /\ ~closure
    /\ method \notin OnMain => command \notin {"queued", "running"}

-------------------------------------------------------------------------------
(* The command.                                                            *)

\* A blocking thread takes the command, or tokio going down drops it.
StartCommand ==
    /\ command = "queued"
    /\ command' = IF down THEN "dropped" ELSE "running"
    /\ UNCHANGED <<runtimeVars, method, main, result, interrupted, clones, lastHolder,
                   closure, shutdownThread>>

\* The future of the command resolves or panics.  On the main thread it is the
\* select that sees it at once; on another, the join handle has its outcome.
CommandEnds(outcome) ==
    /\ command = "running" /\ call[Command] \in R!Answered
    /\ command' = outcome
    /\ \/ method \notin OnMain /\ UNCHANGED <<main, result>>
       \/ /\ method \in OnMain
          /\ main' = "leaving"
          /\ result' = outcome
    /\ UNCHANGED <<runtimeVars, method, interrupted, clones, lastHolder, closure, shutdownThread>>

-------------------------------------------------------------------------------
(* The main thread.                                                        *)

Interrupt ==
    /\ main = "select" /\ ~interrupted
    /\ interrupted' = TRUE
    /\ UNCHANGED <<runtimeVars, method, main, command, result, clones, lastHolder, closure,
                   shutdownThread>>

\* A thread that is inside a call of the command does not poll the select.
Polling == main = "select" /\ (method \in OnMain => call[Command] \in R!Answered)

\* The select ends; with it goes a command it polled itself.
SelectEnds(outcome) ==
    /\ Polling
    /\ main' = "leaving"
    /\ result' = outcome
    /\ command' = IF method \in OnMain THEN "dropped" ELSE command
    /\ UNCHANGED <<runtimeVars, method, interrupted, clones, lastHolder, closure, shutdownThread>>

SeeInterrupt == interrupted /\ SelectEnds("ok")

\* Mutant: the outcome of the manager's task is thrown away.
SeeManagerDiscarded ==
    /\ method \in WithManager
    /\ managerPc = "done"
    /\ SelectEnds("ok")

\* The task of the manager has ended: a panic is an error, anything else is not.
SeeManager ==
    /\ method \in WithManager
    /\ managerPc = "done"
    /\ SelectEnds(IF \E t \in Tasks : taken = {R!PanicEvent(t)} THEN "panic" ELSE "ok")

\* The join handle of a command on another thread.
SeeCommand ==
    /\ method \notin OnMain
    /\ command \in {"ok", "err", "panicked"}
    /\ SelectEnds(command)

\* What follows the select, when the frame of a command on main is gone.
Leave ==
    /\ main = "leaving"
    /\ method \in OnMain => FrameGone(Command)
    /\ \/ /\ method \in WithManager /\ result = "ok"
          /\ R!CallShutdown(Main, "timing")
          /\ main' = "draining"
       \/ /\ \/ method \in WithManager /\ result \in {"err", "panic"}
             \/ method = "blockingFuture" /\ result = "ok"
          /\ main' = "handOff"
          /\ UNCHANGED runtimeVars
       \/ /\ \/ method = "future"
             \/ method = "blockingFuture" /\ result # "ok"
             \/ result = "panicked"
          /\ main' = "dropping"
          /\ UNCHANGED runtimeVars
    /\ UNCHANGED <<method, command, result, interrupted, clones, lastHolder, closure,
                   shutdownThread>>

\* graceful_shutdown_with_timeout returns one way or the other.
Drained ==
    /\ main = "draining"
    /\ \/ R!SeeDrained(Main) \/ R!SeeDeadline(Main)
    /\ main' = "handOff"
    /\ UNCHANGED <<method, command, result, interrupted, clones, lastHolder, closure,
                   shutdownThread>>

\* runtime_shutdown: the runner's clone moves to a thread of its own, and only
\* the methods with a manager wait for that thread.
HandOff ==
    /\ main = "handOff"
    /\ shutdownThread' = "dropping"
    /\ main' = IF method \in WithManager THEN "waiting" ELSE "returned"
    /\ UNCHANGED <<runtimeVars, method, command, result, interrupted, clones, lastHolder, closure>>

\* Dropping the runner's clone, on the main thread or on that one.
RunnerDrops ==
    /\ DropClone(Main)
    /\ UNCHANGED <<method, main, command, result, interrupted, closure, shutdownThread>>

\* Mutant: tokio is left to shut down in the background.
DropReturnsAtOnce == Main \notin clones

\* The drop is over at once, unless the clone was the last one.
DropReturns == Main \notin clones /\ (lastHolder = {Main} => WaitOver)

ThreadDone ==
    /\ shutdownThread = "dropping" /\ DropReturns
    /\ shutdownThread' = "done"
    /\ UNCHANGED <<runtimeVars, method, main, command, result, interrupted, clones, lastHolder, closure>>

\* recv_timeout, or the end of the drop in place.
Return ==
    /\ \/ main = "waiting" /\ shutdownThread = "done"
       \/ main = "dropping" /\ DropReturns
    /\ main' = "returned"
    /\ UNCHANGED <<runtimeVars, method, command, result, interrupted, clones, lastHolder, closure,
                   shutdownThread>>

\* Mutant: recv instead of recv_timeout.
RecvForever ==
    /\ main = "waiting" /\ shutdownThread = "done"
    /\ main' = "gaveUp"
    /\ UNCHANGED <<runtimeVars, method, command, result, interrupted, clones, lastHolder, closure,
                   shutdownThread>>

TimeOut ==
    /\ main = "waiting"
    /\ main' = "gaveUp"
    /\ UNCHANGED <<runtimeVars, method, command, result, interrupted, clones, lastHolder, closure,
                   shutdownThread>>

-------------------------------------------------------------------------------
MainStep ==
    \/ SeeInterrupt \/ SeeManager \/ SeeCommand
    \/ Leave \/ Drained \/ HandOff \/ Return \/ TimeOut
    \/ main = "dropping" /\ RunnerDrops

ThreadStep ==
    \/ shutdownThread = "dropping" /\ RunnerDrops
    \/ ThreadDone

HolderStep(c) ==
    \/ HolderCalls(c) \/ CallGoesOn(c) \/ HolderActs(c) \/ FrameDrops(c)

Next ==
    \/ \E t \in Tasks : Spawn(t) \/ TaskRuns(t)
    \/ \E c \in Holders : HolderStep(c)
    \/ SpawnClosure \/ ClosureEnds
    \/ ManagerRuns \/ TokioShutdown
    \/ StartCommand
    \/ \E outcome \in {"ok", "err", "panicked"} : CommandEnds(outcome)
    \/ Interrupt
    \/ MainStep \/ ThreadStep

Spec == Init /\ [][Next]_vars

\* Threads run, tokio polls what is ready or to be dropped, frames that ended
\* are dropped and time passes.  Nothing forces the code of the command, of a
\* task or of a closure to end, nor a request or a signal to come.
TokioPolls(t) ==
    /\ call[Asker(t)] \in R!Answered
    /\ \/ R!FirstPoll(t) \/ R!PollTask(t) \/ R!Cancel(t)
       \/ FrameGone(Asker(t)) /\ R!ReportPanic(t)
       \/ down /\ R!Abort(t)
    /\ UNCHANGED runnerVars

ThreadGoesOn(c) == CallGoesOn(c) \/ FrameDrops(c)

SystemStep ==
    \/ MainStep \/ ThreadStep \/ ManagerRuns \/ TokioShutdown \/ StartCommand
    \/ \E c \in Holders \ {Closure} : ThreadGoesOn(c)

\* Each step of the system happens finitely often, so that fairness for their
\* disjunction is fairness for each; closures come and go for ever, and so do
\* the polls of a task.
Fairness ==
    /\ WF_vars(SystemStep)
    /\ WF_vars(ThreadGoesOn(Closure))
    /\ \A t \in Tasks : WF_vars(TokioPolls(t))

FairSpec == Spec /\ Fairness

-------------------------------------------------------------------------------
(* Properties.                                                             *)

Returned == main \in {"returned", "gaveUp"}

\* Every variable of the runner has its type, and a clone of Runtime is what
\* keeps its handles alive.
TypeOK ==
    /\ method \in Methods
    /\ main \in {"select", "leaving", "draining", "handOff", "waiting", "dropping",
                 "returned", "gaveUp"}
    /\ command \in {"queued", "running", "ok", "err", "panicked", "dropped"}
    /\ result \in {"none", "ok", "err", "panicked", "panic"}
    /\ interrupted \in BOOLEAN /\ closure \in BOOLEAN
    /\ clones \subseteq Callers
    /\ handles <=> clones # {}
    /\ Cardinality(lastHolder) = (IF handles THEN 0 ELSE 1)
    /\ shutdownThread \in {"none", "dropping", "done"}

\* The runner uses the runtime as TaskRuntime describes it: what is checked and
\* proved there holds under it.
ImplementsRuntime == R!Spec

\* What the method reports has happened: an error is the command's, a panic is
\* the one the manager took, and success without the command's needs a signal
\* or a request for a shutdown.
ResultJustified ==
    /\ result = "err" => command = "err"
    /\ result = "panic" => \E t \in Tasks : taken = {R!PanicEvent(t)} /\ pc[t] = "panicked"
    /\ result = "ok" =>
           \/ command = "ok"
           \/ interrupted
           \/ taken = {R!ShutdownEvent} /\ \E c \in Holders : calls[c] > 0

\* A method that waited for the drop of the last clone, and did not give up,
\* leaves nothing running: no task, no closure, no command on another thread, and
\* no guard in a frame of theirs.
Waited == method \in WithManager \/ method = "future" \/ result # "ok"
NothingLeftRunning ==
    main = "returned" /\ lastHolder = {Main} /\ Waited =>
        /\ \A t \in Tasks : pc[t] \in R!Ended \cup {"none"}
        /\ ~closure
        /\ command \notin {"queued", "running"}
        /\ \A g \in Guards : at[g] = "free"

\* Once there is a reason to stop the method returns, whatever tasks and
\* closures do.  What can hold it back for ever is a command that waits on the
\* main thread itself for guards that never go, and when the runtime is dropped
\* in place code on a blocking thread or a poll that does not return.
Reason == \/ interrupted
          \/ command \in {"ok", "err", "panicked"}
          \/ method \in WithManager /\ managerPc = "done"
Stuck(t) == pc[t] = "running" /\ (kind[t] \in R!SelectKinds \/ call[Asker(t)] \notin R!Answered)
Obstacle ==
    \/ method \in OnMain /\ call[Command] \in {"waiting", "initiating"}
    \/ /\ main = "dropping" /\ ~WaitOver
       /\ closure \/ \E t \in Tasks : Stuck(t)
ReturnsOnReason == []<>(Reason => Returned) \/ <>[]Obstacle
===============================================================================
