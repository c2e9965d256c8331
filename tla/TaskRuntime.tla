------------------------------ MODULE TaskRuntime ------------------------------
(***************************************************************************)
(* The task runtime of crates/exe-runners: the tasks that Runtime spawns   *)
(* (runtime.rs), the TaskManager that watches them (lib.rs), the shutdown  *)
(* signal with its graceful guards (shutdown.rs), the counters of          *)
(* metrics.rs, and the threads that ask for a graceful shutdown.           *)
(* One action is one step between two points where another thread can      *)
(* observe the state: a channel send, an atomic operation, the poll of a   *)
(* future up to its next await, the drop of a field.                       *)
(***************************************************************************)
EXTENDS Integers, Sequences, FiniteSets

CONSTANTS Tasks,      \* one per spawn
          Callers,    \* threads that call the graceful_shutdown methods
          Guards,     \* GracefulShutdownGuards that may be alive together
          NoOne,      \* the owner of a guard that does not exist
          Kinds,      \* the spawn methods in use
          MaxCalls    \* calls each thread makes

AllKinds == {"regular", "regularBlocking", "critical", "criticalBlocking",
             "signal", "graceful", "criticalGraceful"}

\* Tasks wrapped in select(on_shutdown, fut): the runtime stops them itself.
SelectKinds   == {"regular", "regularBlocking", "critical", "criticalBlocking"}
\* Tasks wrapped in catch_unwind: their panic is reported to the manager.
CriticalKinds == {"critical", "criticalBlocking", "criticalGraceful"}
\* Tasks that are handed a GracefulShutdown.
GracefulKinds == {"graceful", "criticalGraceful"}
\* Tasks driven by block_on on a blocking thread: abort cannot reach them
\* once they have started.
BlockingKinds == {"regularBlocking", "criticalBlocking"}

ASSUME OwnersAssumption ==
    /\ Tasks \cap Callers = {}
    /\ NoOne \notin Tasks \cup Callers
ASSUME GuardsAssumption == IsFiniteSet(Guards)
ASSUME BoundsAssumption == Kinds \subseteq AllKinds /\ MaxCalls \in Nat

Owners == Tasks \cup Callers

PanicEvent(t) == [type |-> "Panic", task |-> t]
ShutdownEvent == [type |-> "GracefulShutdown"]
TaskEvent     == [type : {"Panic"}, task : Tasks] \cup [type : {"GracefulShutdown"}]

\* Where a task is: spawned, past the look of its select at the signal, inside
\* its own future, between two polls, or with its panic still to be reported.
Alive == {"ready", "looked", "running", "pending", "unwound"}
Ended == {"completed", "cancelled", "panicked", "aborted", "dropped"}

VARIABLES
    events,         \* task_events channel
    managerPc,      \* the TaskManager: polled, then dropped field by field
    taken,          \* {} or {the event its poll returned on}
    fired,          \* the shutdown signal has resolved
    handles,        \* some clone of Runtime is alive
    down,           \* the tokio runtime is shutting down
    kind, pc,       \* of each task
    at, by,         \* of each guard: where it is held, and by whom
    gracefulTasks,  \* the AtomicUsize that counts guards
    call, calls,    \* of each caller: its current or last call, calls made
    started, finished   \* counters of metrics.rs

managerVars == <<events, managerPc, taken, fired>>
runtimeVars == <<handles, down>>
taskVars    == <<kind, pc>>
guardVars   == <<at, by, gracefulTasks>>
callVars    == <<call, calls>>
metricVars  == <<started, finished>>
vars == <<managerVars, runtimeVars, taskVars, guardVars, callVars, metricVars>>

-------------------------------------------------------------------------------
(* Metrics: one pair of totals per class of task wrapped in select.        *)

Classes  == {"regular", "regularBlocking", "critical"}
Class(k) == IF k \in CriticalKinds THEN "critical" ELSE k

CountStart(k) ==
    started' = IF k \in SelectKinds THEN [started EXCEPT ![Class(k)] = @ + 1]
                                    ELSE started

\* IncCounterOnDrop: dropped with the task's frame, however the task ends.
CountFinish(t) ==
    finished' = IF kind[t] \in SelectKinds
                THEN [finished EXCEPT ![Class(kind[t])] = @ + 1] ELSE finished

-------------------------------------------------------------------------------
(* The event channel and the graceful guards.                              *)

RxOpen == managerPc \in {"polling", "dropRx"}

Send(e) == events' = IF RxOpen THEN Append(events, e) ELSE events

Live       == {g \in Guards : at[g] # "free"}
HeldBy(a)  == {g \in Guards : by[g] = a}

\* GracefulShutdownGuard::new, inside a GracefulShutdown of a.
NewGuard(a) ==
    \E g \in Guards :
        /\ at[g] = "free"
        /\ at' = [at EXCEPT ![g] = "future"]
        /\ by' = [by EXCEPT ![g] = a]
        /\ gracefulTasks' = gracefulTasks + 1

\* Drop for GracefulShutdownGuard.
DropGuard(g) ==
    /\ at' = [at EXCEPT ![g] = "free"]
    /\ by' = [by EXCEPT ![g] = NoOne]
    /\ gracefulTasks' = gracefulTasks - 1

\* A frame is dropped with every guard in it.
DropAll(a) ==
    /\ at' = [g \in Guards |-> IF by[g] = a THEN "free" ELSE at[g]]
    /\ by' = [g \in Guards |-> IF by[g] = a THEN NoOne ELSE by[g]]
    /\ gracefulTasks' = gracefulTasks - Cardinality(HeldBy(a))

-------------------------------------------------------------------------------
Init ==
    /\ events = <<>>
    /\ managerPc = "polling"
    /\ taken = {}
    /\ fired = FALSE
    /\ handles = TRUE
    /\ down = FALSE
    /\ kind = [t \in Tasks |-> "none"]
    /\ pc = [t \in Tasks |-> "none"]
    /\ at = [g \in Guards |-> "free"]
    /\ by = [g \in Guards |-> NoOne]
    /\ gracefulTasks = 0
    /\ call = [c \in Callers |-> "idle"]
    /\ calls = [c \in Callers |-> 0]
    /\ started = [k \in Classes |-> 0]
    /\ finished = [k \in Classes |-> 0]

-------------------------------------------------------------------------------
(* Spawning.  The guard of a graceful task is counted on the caller's      *)
(* thread, before the task first runs.  On a tokio runtime that is down    *)
(* the future is dropped at once, with its guard.                          *)

SpawnPlain(t, k) ==
    /\ handles
    /\ ~down
    /\ pc[t] = "none"
    /\ k \notin GracefulKinds
    /\ kind' = [kind EXCEPT ![t] = k]
    /\ pc' = [pc EXCEPT ![t] = "ready"]
    /\ CountStart(k)
    /\ UNCHANGED <<managerVars, runtimeVars, guardVars, callVars, finished>>

SpawnGraceful(t, k) ==
    /\ handles
    /\ ~down
    /\ pc[t] = "none"
    /\ k \in GracefulKinds
    /\ NewGuard(t)
    /\ kind' = [kind EXCEPT ![t] = k]
    /\ pc' = [pc EXCEPT ![t] = "ready"]
    /\ UNCHANGED <<managerVars, runtimeVars, callVars, metricVars>>

SpawnRejected(t, k) ==
    /\ handles
    /\ down
    /\ pc[t] = "none"
    /\ kind' = [kind EXCEPT ![t] = k]
    /\ pc' = [pc EXCEPT ![t] = "dropped"]
    /\ CountStart(k)
    /\ UNCHANGED <<managerVars, runtimeVars, guardVars, callVars, finished>>

-------------------------------------------------------------------------------
(* Running.  A poll of select(on_shutdown, fut) looks at the signal and then *)
(* polls fut; the signal may fire between the two, on another thread.      *)

\* Mutant: select given the future first, the signal second.
FirstPollTaskFirst(t) ==
    /\ pc[t] = "ready"
    /\ pc' = [pc EXCEPT ![t] = "running"]
    /\ UNCHANGED <<managerVars, runtimeVars, kind, guardVars, callVars, metricVars>>

FirstPoll(t) ==
    /\ pc[t] = "ready"
    /\ \/ /\ kind[t] \in SelectKinds /\ fired
          /\ pc' = [pc EXCEPT ![t] = "cancelled"]
          /\ CountFinish(t)
       \/ /\ kind[t] \in SelectKinds /\ ~fired
          /\ pc' = [pc EXCEPT ![t] = "looked"]
          /\ UNCHANGED finished
       \/ /\ kind[t] \notin SelectKinds
          /\ pc' = [pc EXCEPT ![t] = "running"]
          /\ UNCHANGED finished
    /\ UNCHANGED <<managerVars, runtimeVars, kind, guardVars, callVars, started>>

\* The second half of the poll enters the task's own future.
PollTask(t) ==
    /\ pc[t] = "looked"
    /\ pc' = [pc EXCEPT ![t] = "running"]
    /\ UNCHANGED <<managerVars, runtimeVars, kind, guardVars, callVars, metricVars>>

\* The future is pending, and the poll returns.
Yield(t) ==
    /\ pc[t] = "running"
    /\ kind[t] \in SelectKinds
    /\ pc' = [pc EXCEPT ![t] = "pending"]
    /\ UNCHANGED <<managerVars, runtimeVars, kind, guardVars, callVars, metricVars>>

\* Something wakes the task, and its select does not find the signal.
Repoll(t) ==
    /\ pc[t] = "pending"
    /\ ~fired
    /\ pc' = [pc EXCEPT ![t] = "looked"]
    /\ UNCHANGED <<managerVars, runtimeVars, kind, guardVars, callVars, metricVars>>

\* Mutant: a blocking task is not raced with the signal.
CancelAsyncOnly(t) ==
    /\ pc[t] = "pending"
    /\ kind[t] \notin BlockingKinds
    /\ fired
    /\ pc' = [pc EXCEPT ![t] = "cancelled"]
    /\ DropAll(t)
    /\ CountFinish(t)
    /\ UNCHANGED <<managerVars, runtimeVars, kind, callVars, started>>

\* It finds the signal, and drops the future.
Cancel(t) ==
    /\ pc[t] = "pending"
    /\ fired
    /\ pc' = [pc EXCEPT ![t] = "cancelled"]
    /\ DropAll(t)
    /\ CountFinish(t)
    /\ UNCHANGED <<managerVars, runtimeVars, kind, callVars, started>>

\* Mutant: a guard returned with the task's result outlives the task.
CompleteKeepingGuards(t) ==
    /\ pc[t] = "running"
    /\ pc' = [pc EXCEPT ![t] = "completed"]
    /\ CountFinish(t)
    /\ UNCHANGED <<managerVars, runtimeVars, kind, guardVars, callVars, started>>

Complete(t) ==
    /\ pc[t] = "running"
    /\ pc' = [pc EXCEPT ![t] = "completed"]
    /\ DropAll(t)
    /\ CountFinish(t)
    /\ UNCHANGED <<managerVars, runtimeVars, kind, callVars, started>>

\* The panic unwinds the future and drops its guards; catch_unwind then hands
\* a critical task's panic to map_err, in the same poll.
Panic(t) ==
    /\ pc[t] = "running"
    /\ DropAll(t)
    /\ \/ /\ kind[t] \in CriticalKinds
          /\ pc' = [pc EXCEPT ![t] = "unwound"]
          /\ UNCHANGED finished
       \/ /\ kind[t] \notin CriticalKinds
          /\ pc' = [pc EXCEPT ![t] = "panicked"]
          /\ CountFinish(t)
    /\ UNCHANGED <<managerVars, runtimeVars, kind, callVars, started>>

ReportPanic(t) ==
    /\ pc[t] = "unwound"
    /\ Send(PanicEvent(t))
    /\ pc' = [pc EXCEPT ![t] = "panicked"]
    /\ CountFinish(t)
    /\ UNCHANGED <<managerPc, taken, fired, runtimeVars, kind, guardVars,
                   callVars, started>>

\* A task is aborted before its first poll or between two polls; one driven by
\* block_on is out of reach.
Abortable(t) ==
    \/ kind[t] \in SelectKinds \ BlockingKinds /\ pc[t] = "pending"
    \/ kind[t] \notin SelectKinds /\ pc[t] = "running"

\* Mutant: the counter is incremented by the last statement of the task
\* instead of by a value that is dropped with it.
AbortUncounted(t) ==
    /\ \/ pc[t] = "ready" /\ pc' = [pc EXCEPT ![t] = "dropped"]
       \/ Abortable(t) /\ pc' = [pc EXCEPT ![t] = "aborted"]
    /\ DropAll(t)
    /\ UNCHANGED <<managerVars, runtimeVars, kind, callVars, metricVars>>

\* JoinHandle::abort, or the tokio runtime dropping its tasks.
Abort(t) ==
    /\ \/ /\ pc[t] = "ready"
          /\ pc' = [pc EXCEPT ![t] = "dropped"]
          /\ UNCHANGED finished
       \/ /\ Abortable(t)
          /\ pc' = [pc EXCEPT ![t] = "aborted"]
          /\ CountFinish(t)
    /\ DropAll(t)
    /\ UNCHANGED <<managerVars, runtimeVars, kind, callVars, started>>

-------------------------------------------------------------------------------
(* What the owner of a GracefulShutdown does with it, between its polls.   *)

Answered == {"idle", "drained", "timedOut", "initiated", "refused"}

CanAct(a) == IF a \in Tasks THEN pc[a] = "running" ELSE call[a] \in Answered

AwaitShutdown(a, g) ==
    /\ CanAct(a) /\ by[g] = a
    /\ at[g] = "future"
    /\ fired
    /\ at' = [at EXCEPT ![g] = "guard"]
    /\ UNCHANGED <<managerVars, runtimeVars, taskVars, by, gracefulTasks,
                   callVars, metricVars>>

\* Mutant: derive(Clone) on the guard, which copies the Arc and counts nothing.
CloneUncounted(a, g) ==
    /\ CanAct(a) /\ by[g] = a
    /\ at[g] = "future"
    /\ \E h \in Guards : /\ at[h] = "free"
                         /\ at' = [at EXCEPT ![h] = "future"]
                         /\ by' = [by EXCEPT ![h] = a]
    /\ UNCHANGED <<managerVars, runtimeVars, taskVars, gracefulTasks, callVars,
                   metricVars>>

CloneShutdown(a, g) ==
    /\ CanAct(a) /\ by[g] = a
    /\ at[g] = "future"
    /\ NewGuard(a)
    /\ UNCHANGED <<managerVars, runtimeVars, taskVars, callVars, metricVars>>

IgnoreGuard(a, g) ==
    /\ CanAct(a) /\ by[g] = a
    /\ at[g] = "future"
    /\ at' = [at EXCEPT ![g] = "ignored"]
    /\ UNCHANGED <<managerVars, runtimeVars, taskVars, by, gracefulTasks,
                   callVars, metricVars>>

\* self.map(drop): the guard is dropped by the poll that finds the signal.
AwaitIgnored(a, g) ==
    /\ CanAct(a) /\ by[g] = a
    /\ at[g] = "ignored"
    /\ fired
    /\ DropGuard(g)
    /\ UNCHANGED <<managerVars, runtimeVars, taskVars, callVars, metricVars>>

Release(a, g) ==
    /\ CanAct(a) /\ by[g] = a
    /\ DropGuard(g)
    /\ UNCHANGED <<managerVars, runtimeVars, taskVars, callVars, metricVars>>

-------------------------------------------------------------------------------
(* The TaskManager.                                                        *)

\* Mutant: RuntimeInner keeps no sender, critical tasks have the only ones.
SendersGoneEarly ==
    \A t \in Tasks : pc[t] \in Alive => kind[t] \notin CriticalKinds

\* Clones of task_events_tx: one in RuntimeInner, one in each critical task.
SendersGone ==
    /\ ~handles
    /\ \A t \in Tasks : pc[t] \in Alive => kind[t] \notin CriticalKinds

\* The poll that resolves the manager.  A panic keeps the signal for the drop
\* of the manager, anything else fires it now.
ManagerPoll ==
    /\ managerPc = "polling"
    /\ \/ /\ events # <<>>
          /\ taken' = {Head(events)}
          /\ events' = Tail(events)
          /\ fired' = (fired \/ Head(events) = ShutdownEvent)
       \/ /\ events = <<>>
          /\ SendersGone
          /\ fired' = TRUE
          /\ UNCHANGED <<taken, events>>
    /\ managerPc' = "dropRx"
    /\ UNCHANGED <<runtimeVars, taskVars, guardVars, callVars, metricVars>>

\* The manager's task is dropped unresolved by a tokio runtime going down.
ManagerAborted ==
    /\ managerPc = "polling"
    /\ down
    /\ managerPc' = "dropRx"
    /\ UNCHANGED <<events, taken, fired, runtimeVars, taskVars, guardVars,
                   callVars, metricVars>>

\* Fields drop in declaration order: task_events_rx, then signal.
ManagerDropRx ==
    /\ managerPc = "dropRx"
    /\ managerPc' = "dropSignal"
    /\ events' = <<>>
    /\ UNCHANGED <<taken, fired, runtimeVars, taskVars, guardVars, callVars,
                   metricVars>>

\* Mutant: a oneshot whose receivers ignore the closing of the channel.
ManagerDropSilent ==
    /\ managerPc = "dropSignal"
    /\ managerPc' = "done"
    /\ UNCHANGED <<events, taken, fired, runtimeVars, taskVars, guardVars,
                   callVars, metricVars>>

ManagerDropSignal ==
    /\ managerPc = "dropSignal"
    /\ managerPc' = "done"
    /\ fired' = TRUE
    /\ UNCHANGED <<events, taken, runtimeVars, taskVars, guardVars, callVars,
                   metricVars>>

-------------------------------------------------------------------------------
(* Threads that ask for a shutdown.                                        *)

CanCall(c) == handles /\ call[c] \in Answered /\ calls[c] < MaxCalls

\* graceful_shutdown ("waiting") or graceful_shutdown_with_timeout ("timing").
CallShutdown(c, how) ==
    /\ CanCall(c)
    /\ Send(ShutdownEvent)
    /\ call' = [call EXCEPT ![c] = how]
    /\ calls' = [calls EXCEPT ![c] = @ + 1]
    /\ UNCHANGED <<managerPc, taken, fired, runtimeVars, taskVars, guardVars,
                   metricVars>>

\* Mutant: the loop stops at one guard, as if the caller always held one.
SeeAlmostDrained(c) ==
    /\ call[c] \in {"waiting", "timing"}
    /\ gracefulTasks < 2
    /\ call' = [call EXCEPT ![c] = "drained"]
    /\ UNCHANGED <<managerVars, runtimeVars, taskVars, guardVars, calls,
                   metricVars>>

\* One turn of the loop that reads the counter: true as soon as it is 0, also
\* past the deadline.
SeeDrained(c) ==
    /\ call[c] \in {"waiting", "timing"}
    /\ gracefulTasks = 0
    /\ call' = [call EXCEPT ![c] = "drained"]
    /\ UNCHANGED <<managerVars, runtimeVars, taskVars, guardVars, calls,
                   metricVars>>

\* Mutant: the deadline is looked at only after the signal has resolved and
\* every task has come to an end.
SeeDeadlineIdle(c) ==
    /\ call[c] = "timing"
    /\ gracefulTasks > 0
    /\ \A t \in Tasks : pc[t] \in Ended
    /\ call' = [call EXCEPT ![c] = "timedOut"]
    /\ UNCHANGED <<managerVars, runtimeVars, taskVars, guardVars, calls,
                   metricVars>>

SeeDeadline(c) ==
    /\ call[c] = "timing"
    /\ gracefulTasks > 0
    /\ call' = [call EXCEPT ![c] = "timedOut"]
    /\ UNCHANGED <<managerVars, runtimeVars, taskVars, guardVars, calls,
                   metricVars>>

\* initiate_graceful_shutdown: the send, then the new guard.
InitiateSend(c) ==
    /\ CanCall(c)
    /\ Send(ShutdownEvent)
    /\ call' = [call EXCEPT ![c] = IF RxOpen THEN "initiating" ELSE "refused"]
    /\ calls' = [calls EXCEPT ![c] = @ + 1]
    /\ UNCHANGED <<managerPc, taken, fired, runtimeVars, taskVars, guardVars,
                   metricVars>>

InitiateReturn(c) ==
    /\ call[c] = "initiating"
    /\ NewGuard(c)
    /\ call' = [call EXCEPT ![c] = "initiated"]
    /\ UNCHANGED <<managerVars, runtimeVars, taskVars, calls, metricVars>>

\* The last clone of Runtime goes away: nobody is inside one of its methods.
DropHandles ==
    /\ handles
    /\ \A c \in Callers : call[c] \in Answered
    /\ handles' = FALSE
    /\ UNCHANGED <<managerVars, down, taskVars, guardVars, callVars, metricVars>>

\* The tokio runtime, owned or borrowed through a Handle, is shut down.
TokioShutdown ==
    /\ ~down
    /\ down' = TRUE
    /\ UNCHANGED <<managerVars, handles, taskVars, guardVars, callVars, metricVars>>

-------------------------------------------------------------------------------
TaskStep(t) ==
    \/ \E k \in Kinds : SpawnPlain(t, k) \/ SpawnGraceful(t, k) \/ SpawnRejected(t, k)
    \/ FirstPoll(t) \/ PollTask(t) \/ Yield(t) \/ Repoll(t) \/ Cancel(t)
    \/ Complete(t) \/ Panic(t) \/ ReportPanic(t) \/ Abort(t)

OwnerStep(a, g) ==
    \/ AwaitShutdown(a, g) \/ CloneShutdown(a, g) \/ IgnoreGuard(a, g)
    \/ AwaitIgnored(a, g) \/ Release(a, g)

ManagerStep == ManagerPoll \/ ManagerAborted \/ ManagerDropRx \/ ManagerDropSignal

CallerStep(c) ==
    \/ \E how \in {"waiting", "timing"} : CallShutdown(c, how)
    \/ SeeDrained(c) \/ SeeDeadline(c)
    \/ InitiateSend(c) \/ InitiateReturn(c)

Next ==
    \/ \E t \in Tasks : TaskStep(t)
    \/ \E a \in Owners, g \in Guards : OwnerStep(a, g)
    \/ ManagerStep
    \/ \E c \in Callers : CallerStep(c)
    \/ DropHandles
    \/ TokioShutdown

Spec == Init /\ [][Next]_vars

-------------------------------------------------------------------------------
(* Fairness.  tokio polls every task that is ready or woken, a thread in a *)
(* loop keeps looping and time passes.  Nothing forces user code to end.   *)

ExecutorFairness ==
    /\ WF_vars(ManagerStep)
    /\ \A t \in Tasks : /\ WF_vars(FirstPoll(t))
                        /\ WF_vars(PollTask(t))
                        /\ WF_vars(ReportPanic(t))
                        /\ WF_vars(Cancel(t))
                        /\ WF_vars(down /\ Abort(t))
    /\ \A c \in Callers : /\ WF_vars(SeeDrained(c))
                          /\ WF_vars(SeeDeadline(c))
                          /\ WF_vars(InitiateReturn(c))

\* What graceful tasks owe the runtime: once the signal has fired they come to
\* an end, a caller of initiate_graceful_shutdown lets its guard go, and nobody
\* clones the GracefulShutdown for ever.
OwnersCooperate ==
    /\ <>[][\A a \in Owners, g \in Guards : ~CloneShutdown(a, g)]_vars
    /\ \A t \in Tasks : WF_vars(fired /\ kind[t] \in GracefulKinds /\ Complete(t))
    /\ \A c \in Callers, g \in Guards : WF_vars(fired /\ Release(c, g))

FairSpec == Spec /\ ExecutorFairness
-------------------------------------------------------------------------------
(* Properties.                                                             *)

\* Every variable has its type; the counter in particular never wraps below 0.
TypeOK ==
    /\ events \in Seq(TaskEvent)
    /\ managerPc \in {"polling", "dropRx", "dropSignal", "done"}
    /\ taken \in SUBSET TaskEvent
    /\ fired \in BOOLEAN /\ handles \in BOOLEAN /\ down \in BOOLEAN
    /\ kind \in [Tasks -> AllKinds \cup {"none"}]
    /\ pc \in [Tasks -> Alive \cup Ended \cup {"none"}]
    /\ at \in [Guards -> {"free", "future", "guard", "ignored"}]
    /\ by \in [Guards -> Owners \cup {NoOne}]
    /\ gracefulTasks \in Nat
    /\ call \in [Callers -> Answered \cup {"waiting", "timing", "initiating"}]
    /\ calls \in [Callers -> 0..MaxCalls]
    /\ started \in [Classes -> Nat] /\ finished \in [Classes -> Nat]

\* The counter the shutdown loop reads is the number of guards alive, and a
\* guard outlives neither the task nor the call that holds it, however that
\* ends: completion, panic, abort, or a spawn on a runtime that is down.
GuardCount ==
    /\ gracefulTasks = Cardinality(Live)
    /\ \A g \in Guards : /\ at[g] = "free" <=> by[g] = NoOne
                         /\ by[g] \in Tasks => pc[by[g]] \in {"ready", "running"}

\* A shutdown has a cause: the panic the manager took, somebody's request, or
\* the end of the runtime.  A runtime in use never shuts itself down.
ShutdownHasCause ==
    fired => \/ \E t \in Tasks : taken = {PanicEvent(t)} /\ pc[t] = "panicked"
             \/ \E c \in Callers : calls[c] > 0
             \/ ~handles
             \/ down

\* The metrics account for every task that was ever polled: spawned minus
\* finished is the tasks that have not ended and those dropped unpolled.
MetricsBalance ==
    \A m \in Classes :
        started[m] - finished[m] =
            Cardinality({t \in Tasks : /\ kind[t] \in SelectKinds
                                       /\ Class(kind[t]) = m
                                       /\ pc[t] \notin Ended \ {"dropped"}})

\* Once the signal has fired, the code of a task that the runtime is to stop is
\* entered at most once more, by a thread that had looked at the signal before:
\* a task that is unpolled or between two polls never runs again, however long
\* it waits for its poll and whatever else wakes it.
Stopping(t) == fired /\ kind[t] \in SelectKinds /\ pc[t] \notin {"looked", "running"}
NoWorkAfterShutdown ==
    \A t \in Tasks : [](Stopping(t) => [](pc[t] # "running"))

\* The first event reported to the manager, and the last poll that has seen it.
FirstEvent ==
    IF taken # {} THEN taken
    ELSE IF managerPc = "polling" /\ events # <<>> THEN {Head(events)} ELSE {}

Contract == INSTANCE ShutdownContract
    WITH Events <- TaskEvent, participants <- Live, first <- FirstEvent,
         stopped <- (down \/ ~handles), signalled <- fired,
         told <- {c \in Callers : call[c] = "drained"}

\* The runtime implements the contract: the oldest event decides the manager's
\* result, the signal needs a cause, and graceful_shutdown returns true only at
\* an instant with no guard alive.
ImplementsContract == Contract!Spec

\* Every request is followed by the signal, also one the manager never reads
\* (it was sent between the manager's last poll and the drop of its receiver)
\* and one that is refused.
RequestFires ==
    \A c \in Callers :
        call[c] \in {"waiting", "timing", "initiating", "refused"} ~> fired

\* The panic of a critical task shuts everything down.
PanicFires == \A t \in Tasks : pc[t] = "unwound" ~> fired

\* The signal stops every task that was spawned without a hold on it, if no poll
\* of its future goes on for ever.
PollsReturn == \A t \in Tasks : WF_vars(Yield(t))
SelectTasksStop ==
    PollsReturn =>
        \A t \in Tasks :
            fired /\ kind[t] \in SelectKinds /\ pc[t] \in Alive ~> pc[t] \in Ended

\* A call with a timeout returns whatever the tasks do.
TimedCallReturns ==
    \A c \in Callers : call[c] = "timing" ~> call[c] # "timing"

\* A call without one returns when the owners of guards cooperate, unless some
\* caller waits while it holds a guard itself, and so waits for itself (or the
\* instance has no guard left for a caller in the middle of its call).
SelfHeld    == \E c \in Callers : call[c] = "waiting" /\ HeldBy(c) # {}
OutOfGuards == Live = Guards /\ \E c \in Callers : call[c] = "initiating"
UntimedCallReturns ==
    OwnersCooperate =>
        \A c \in Callers :
            call[c] = "waiting" ~> (call[c] # "waiting" \/ SelfHeld \/ OutOfGuards)

\* What a comment of the repository says, and the code does otherwise.
\* runtime.rs, graceful_shutdown: "Fires the shutdown signal and waits".
ReturnsAfterSignal == \A c \in Callers : call[c] = "drained" => fired
===============================================================================
