---------------------------- MODULE CliRunnerProofs ----------------------------
(***************************************************************************)
(* Theorems about CliRunner, for any number of tasks, guards and askers.   *)
(***************************************************************************)
EXTENDS CliRunner, FiniteSetTheorems, TLAPS

USE CallersAssumption

-------------------------------------------------------------------------------
(* What the steps are.                                                     *)

\* A step of the runtime that leaves the runner alone.
Alone ==
    /\ UNCHANGED runnerVars
    /\ \/ \E t \in Tasks : R!TaskStep(t)
       \/ \E a \in R!Owners, g \in Guards : R!OwnerStep(a, g)
       \/ R!ManagerStep
       \/ \E c \in Holders : R!CallerStep(c)

\* The frame of c drops its clone.
LetsGo(c) ==
    /\ Over(c)
    /\ DropClone(c)
    /\ UNCHANGED <<method, main, command, result, interrupted, closure, shutdownThread>>

LEMMA HolderSteps ==
    ASSUME NEW c \in Holders, HolderStep(c)
    PROVE  Alone \/ LetsGo(c)
<1>1. c \in R!Owners
  BY DEF R!Owners, Callers
<1>2. CASE HolderCalls(c)
  BY <1>2 DEF HolderCalls, Alone, R!CallerStep
<1>3. CASE CallGoesOn(c)
  BY <1>3 DEF CallGoesOn, Alone, R!CallerStep
<1>4. CASE HolderActs(c)
  BY <1>1, <1>4 DEF HolderActs, Alone
<1>5. CASE FrameDrops(c)
  <2>1. CASE DropClone(c)
    BY <1>5, <2>1 DEF FrameDrops, LetsGo
  <2>2. CASE ~DropClone(c)
    <3>1. PICK g \in R!HeldBy(c) : R!Release(c, g)
      BY <1>5, <2>2 DEF FrameDrops
    <3>2. g \in Guards /\ R!OwnerStep(c, g)
      BY <3>1 DEF R!HeldBy, R!OwnerStep
    <3>3. UNCHANGED runnerVars
      BY <1>5, <2>2 DEF FrameDrops, runnerVars
    <3>4. QED
      BY <1>1, <3>2, <3>3 DEF Alone
  <2>3. QED
    BY <2>1, <2>2
<1>6. QED
  BY <1>2, <1>3, <1>4, <1>5 DEF HolderStep

LEMMA TaskSteps ==
    ASSUME NEW t \in Tasks, TaskRuns(t)
    PROVE  Alone
<1>1. (\E g \in Guards : R!OwnerStep(t, g)) \/ R!TaskStep(t)
  BY DEF TaskRuns, R!TaskStep
<1>2. QED
  BY <1>1 DEF Alone, TaskRuns, R!Owners

LEMMA Steps ==
    ASSUME [Next]_vars
    PROVE  \/ Alone
           \/ \E t \in Tasks : Spawn(t)
           \/ \E c \in Holders : LetsGo(c)
           \/ SpawnClosure \/ ClosureEnds \/ TokioShutdown \/ StartCommand
           \/ \E outcome \in {"ok", "err", "panicked"} : CommandEnds(outcome)
           \/ Interrupt \/ MainStep \/ ThreadStep
           \/ UNCHANGED vars
<1>1. ManagerRuns => Alone
  BY DEF ManagerRuns, Alone
<1>2. QED
  BY <1>1, HolderSteps, TaskSteps DEF Next

-------------------------------------------------------------------------------
(* Every step is a step of the runtime or leaves it alone.                 *)

\* A step of the main thread, or of the thread it hands its clone to.
LEMMA RunnerStepUses ==
    ASSUME MainStep \/ ThreadStep
    PROVE  R!Next \/ UNCHANGED R!vars
<1>1. UNCHANGED runtimeVars => UNCHANGED R!vars
  BY DEF runtimeVars, R!vars, R!managerVars, R!runtimeVars, R!taskVars,
         R!guardVars, R!callVars, R!metricVars
<1>2. CASE SeeInterrupt \/ SeeManager \/ SeeCommand
  BY <1>1, <1>2 DEF SeeInterrupt, SeeManager, SeeCommand, SelectEnds
<1>3. CASE Leave
  <2>1. R!CallShutdown(Main, "timing") => R!Next
    BY DEF R!Next, R!CallerStep, Callers
  <2>2. QED
    BY <1>1, <1>3, <2>1 DEF Leave
<1>4. CASE Drained
  <2>1. R!SeeDrained(Main) \/ R!SeeDeadline(Main) => R!Next
    BY DEF R!Next, R!CallerStep, Callers
  <2>2. QED
    BY <1>4, <2>1 DEF Drained
<1>5. CASE HandOff \/ Return \/ TimeOut \/ ThreadDone
  BY <1>1, <1>5 DEF HandOff, Return, TimeOut, ThreadDone
<1>6. CASE RunnerDrops
  <2>1. R!DropHandles => R!Next
    BY DEF R!Next
  <2>2. QED
    BY <1>1, <1>6, <2>1 DEF RunnerDrops, DropClone
<1>7. QED
  BY <1>2, <1>3, <1>4, <1>5, <1>6 DEF MainStep, ThreadStep

LEMMA NextUses == [Next]_vars => [R!Next]_(R!vars)
<1> SUFFICES ASSUME [Next]_vars PROVE R!Next \/ UNCHANGED R!vars
  OBVIOUS
<1>1. UNCHANGED runtimeVars => UNCHANGED R!vars
  BY DEF runtimeVars, R!vars, R!managerVars, R!runtimeVars, R!taskVars,
         R!guardVars, R!callVars, R!metricVars
<1>2. CASE Alone
  BY <1>2 DEF Alone, R!Next, Callers
<1>3. ASSUME NEW t \in Tasks, Spawn(t) PROVE R!Next
  BY <1>3 DEF Spawn, R!Next, R!TaskStep
<1>4. ASSUME NEW c \in Holders, LetsGo(c) PROVE R!Next \/ UNCHANGED R!vars
  BY <1>1, <1>4 DEF LetsGo, DropClone, R!Next
<1>5. CASE SpawnClosure \/ ClosureEnds \/ StartCommand \/ Interrupt
  BY <1>1, <1>5 DEF SpawnClosure, ClosureEnds, StartCommand, Interrupt
<1>6. CASE TokioShutdown
  BY <1>6 DEF TokioShutdown, R!Next
<1>7. ASSUME NEW outcome \in {"ok", "err", "panicked"}, CommandEnds(outcome)
      PROVE  R!Next \/ UNCHANGED R!vars
  BY <1>1, <1>7 DEF CommandEnds
<1>8. CASE MainStep \/ ThreadStep
  BY <1>8, RunnerStepUses
<1>9. CASE UNCHANGED vars
  BY <1>1, <1>9 DEF vars
<1>10. QED
  BY <1>2, <1>3, <1>4, <1>5, <1>6, <1>7, <1>8, <1>9, Steps

\* CliRunner drives the runtime only through what TaskRuntime describes: every
\* safety theorem about TaskRuntime holds of a program run by it.
THEOREM UsesRuntime == Spec => ImplementsRuntime
<1>1. Init => R!Init
  BY DEF Init
<1>2. Spec => R!Init /\ [][R!Next]_(R!vars)
  BY <1>1, NextUses, PTL DEF Spec
<1>3. QED
  BY <1>2 DEF ImplementsRuntime, R!Spec

-------------------------------------------------------------------------------
(* Types, and the clones that keep the runtime's handles alive.            *)

\* Only the drop of the last clone changes handles.
LEMMA HandlesKept ==
    /\ Alone => UNCHANGED handles
    /\ \A t \in Tasks : Spawn(t) => UNCHANGED handles
    /\ \A c \in Callers : R!CallerStep(c) => UNCHANGED handles
<1>1. ASSUME NEW t \in Tasks, R!TaskStep(t) PROVE UNCHANGED handles
  BY <1>1 DEF R!TaskStep, R!SpawnPlain, R!SpawnGraceful, R!SpawnRejected,
     R!FirstPoll, R!PollTask, R!Yield, R!Repoll, R!Cancel, R!Complete, R!Panic,
     R!ReportPanic, R!Abort, R!runtimeVars
<1>2. ASSUME NEW a \in R!Owners, NEW g \in Guards, R!OwnerStep(a, g)
      PROVE  UNCHANGED handles
  BY <1>2 DEF R!OwnerStep, R!AwaitShutdown, R!CloneShutdown, R!IgnoreGuard,
     R!AwaitIgnored, R!Release, R!runtimeVars
<1>3. ASSUME R!ManagerStep PROVE UNCHANGED handles
  BY <1>3 DEF R!ManagerStep, R!ManagerPoll, R!ManagerAborted, R!ManagerDropRx,
     R!ManagerDropSignal, R!runtimeVars
<1>4. ASSUME NEW c \in Callers, R!CallerStep(c) PROVE UNCHANGED handles
  BY <1>4 DEF R!CallerStep, R!CallShutdown, R!SeeDrained, R!SeeDeadline,
     R!InitiateSend, R!InitiateReturn, R!runtimeVars
<1>5. ASSUME NEW t \in Tasks, Spawn(t) PROVE UNCHANGED handles
  BY <1>1, <1>5 DEF Spawn, R!TaskStep
<1>6. QED
  BY <1>1, <1>2, <1>3, <1>4, <1>5 DEF Alone, Callers

\* Who holds what, and whether the runtime still has a holder.
HoldersInv ==
    /\ clones \subseteq Callers
    /\ handles <=> clones # {}
    /\ Cardinality(lastHolder) = (IF handles THEN 0 ELSE 1)

LEMMA DropCloneHolders ==
    ASSUME HoldersInv, NEW a, DropClone(a)
    PROVE  HoldersInv'
<1>1. CASE clones = {a}
  <2>1. clones' = {} /\ handles' = FALSE /\ lastHolder' = {a}
    BY <1>1 DEF DropClone, R!DropHandles
  <2>2. Cardinality(lastHolder') = 1
    BY <2>1, FS_Singleton
  <2>3. QED
    BY <2>1, <2>2 DEF HoldersInv
<1>2. CASE clones # {a}
  <2>1. clones' = clones \ {a} /\ UNCHANGED <<handles, lastHolder>> /\ a \in clones
    BY <1>2 DEF DropClone, runtimeVars
  <2>2. clones' # {}
    BY <1>2, <2>1
  <2>3. QED
    BY <2>1, <2>2 DEF HoldersInv
<1>3. QED
  BY <1>1, <1>2

LEMMA NextHolders == HoldersInv /\ [Next]_vars => HoldersInv'
<1> SUFFICES ASSUME HoldersInv, [Next]_vars PROVE HoldersInv'
  OBVIOUS
<1>1. UNCHANGED <<handles, clones, lastHolder>> => HoldersInv'
  BY DEF HoldersInv
<1>2. Main \in Callers /\ Holders \subseteq Callers
  BY DEF Callers
<1>3. CASE Alone
  BY <1>1, <1>3, HandlesKept DEF Alone, runnerVars
<1>4. ASSUME NEW t \in Tasks, Spawn(t) PROVE HoldersInv'
  <2>1. UNCHANGED <<handles, lastHolder>> /\ clones # {}
    BY <1>4, HandlesKept DEF Spawn, Using
  <2>2. clones' \in {clones, clones \cup ({Asker(t)} \cap Clients)}
    BY <1>4 DEF Spawn
  <2>3. QED
    BY <1>2, <2>1, <2>2 DEF HoldersInv
<1>5. ASSUME NEW c \in Holders, LetsGo(c) PROVE HoldersInv'
  BY <1>5, DropCloneHolders DEF LetsGo
<1>6. CASE SpawnClosure
  <2>1. UNCHANGED <<handles, lastHolder>> /\ clones # {}
    BY <1>6 DEF SpawnClosure, Using, runtimeVars
  <2>2. clones' \in {clones, clones \cup ({Closure} \cap Clients)}
    BY <1>6 DEF SpawnClosure
  <2>3. QED
    BY <1>2, <2>1, <2>2 DEF HoldersInv
<1>7. CASE ClosureEnds \/ Interrupt \/ StartCommand
  BY <1>1, <1>7 DEF ClosureEnds, Interrupt, StartCommand, runtimeVars
<1>8. CASE TokioShutdown
  BY <1>1, <1>8 DEF TokioShutdown, R!TokioShutdown, runnerVars
<1>9. ASSUME NEW outcome \in {"ok", "err", "panicked"}, CommandEnds(outcome)
      PROVE  HoldersInv'
  BY <1>1, <1>9 DEF CommandEnds, runtimeVars
<1>10. CASE SeeInterrupt \/ SeeManager \/ SeeCommand
  BY <1>1, <1>10 DEF SeeInterrupt, SeeManager, SeeCommand, SelectEnds, runtimeVars
<1>11. CASE Leave
  <2>1. R!CallShutdown(Main, "timing") => UNCHANGED handles
    BY DEF R!CallShutdown, R!runtimeVars
  <2>2. QED
    BY <1>1, <1>11, <2>1 DEF Leave, runtimeVars
<1>12. CASE Drained
  <2>1. UNCHANGED handles
    BY <1>12 DEF Drained, R!SeeDrained, R!SeeDeadline, R!runtimeVars
  <2>2. QED
    BY <1>1, <1>12, <2>1 DEF Drained
<1>13. CASE HandOff \/ Return \/ TimeOut \/ ThreadDone
  BY <1>1, <1>13 DEF HandOff, Return, TimeOut, ThreadDone, runtimeVars
<1>14. CASE RunnerDrops
  BY <1>14, DropCloneHolders DEF RunnerDrops
<1>15. CASE UNCHANGED vars
  BY <1>1, <1>15 DEF vars, runtimeVars, runnerVars
<1>16. QED
  BY <1>3, <1>4, <1>5, <1>6, <1>7, <1>8, <1>9, <1>10, <1>11, <1>12, <1>13,
     <1>14, <1>15, Steps DEF MainStep, ThreadStep

\* The parts of the type invariant that only say a variable has its type.
RangesInv ==
    /\ method \in Methods
    /\ main \in {"select", "leaving", "draining", "handOff", "waiting", "dropping",
                 "returned", "gaveUp"}
    /\ command \in {"queued", "running", "ok", "err", "panicked", "dropped"}
    /\ result \in {"none", "ok", "err", "panicked", "panic"}
    /\ interrupted \in BOOLEAN /\ closure \in BOOLEAN
    /\ shutdownThread \in {"none", "dropping", "done"}

LEMMA NextRanges == RangesInv /\ [Next]_vars => RangesInv'
<1> SUFFICES ASSUME RangesInv, [Next]_vars PROVE RangesInv'
  OBVIOUS
<1> USE DEF RangesInv
<1>1. CASE Alone \/ TokioShutdown \/ UNCHANGED vars
  BY <1>1 DEF Alone, TokioShutdown, vars, runnerVars
<1>2. ASSUME NEW t \in Tasks, Spawn(t) PROVE RangesInv'
  BY <1>2 DEF Spawn
<1>3. ASSUME NEW c \in Holders, LetsGo(c) PROVE RangesInv'
  BY <1>3 DEF LetsGo
<1>4. CASE SpawnClosure \/ ClosureEnds
  <2>1. /\ UNCHANGED <<method, main, command, result, interrupted, shutdownThread>>
        /\ closure' \in BOOLEAN
    BY <1>4 DEF SpawnClosure, ClosureEnds
  <2>2. QED
    BY <2>1
<1>5. CASE Interrupt \/ StartCommand
  BY <1>5 DEF Interrupt, StartCommand
<1>6. ASSUME NEW outcome \in {"ok", "err", "panicked"}, CommandEnds(outcome)
      PROVE  RangesInv'
  BY <1>6 DEF CommandEnds
<1>7. CASE SeeInterrupt \/ SeeManager \/ SeeCommand
  BY <1>7 DEF SeeInterrupt, SeeManager, SeeCommand, SelectEnds
<1>8. CASE Leave \/ Drained
  BY <1>8 DEF Leave, Drained
<1>9. CASE HandOff \/ Return \/ TimeOut \/ ThreadDone \/ RunnerDrops
  BY <1>9 DEF HandOff, Return, TimeOut, ThreadDone, RunnerDrops
<1>10. QED
  BY <1>1, <1>2, <1>3, <1>4, <1>5, <1>6, <1>7, <1>8, <1>9, Steps
     DEF MainStep, ThreadStep

\* A clone of Runtime somewhere is what keeps its handles alive, and exactly
\* one frame was the last to drop one.
THEOREM TypeCorrect == Spec => []TypeOK
<1>1. Init => HoldersInv /\ RangesInv
  BY FS_EmptySet DEF Init, HoldersInv, RangesInv, R!Init, Callers, Methods
<1>2. HoldersInv /\ RangesInv => TypeOK
  BY DEF HoldersInv, RangesInv, TypeOK
<1>3. QED
  BY <1>1, <1>2, NextHolders, NextRanges, PTL DEF Spec

-------------------------------------------------------------------------------
(* The invariants of TaskRuntime, brought over.  The definitions that come *)
(* with its theorems are an instance of their own, P, to the prover: first *)
(* that they are those of R, action by action.                             *)

P == INSTANCE TaskRuntimeProofs

\* Sets and events.
\* Sets and events.
LEMMA SameSets ==
    /\ P!SelectKinds = R!SelectKinds /\ P!CriticalKinds = R!CriticalKinds
    /\ P!GracefulKinds = R!GracefulKinds /\ P!BlockingKinds = R!BlockingKinds
    /\ P!Classes = R!Classes /\ P!Owners = R!Owners /\ P!Answered = R!Answered
    /\ P!Ended = R!Ended /\ P!Alive = R!Alive
    /\ P!ShutdownEvent = R!ShutdownEvent /\ \A t : P!PanicEvent(t) = R!PanicEvent(t)
  BY DEF P!SelectKinds, R!SelectKinds, P!CriticalKinds, R!CriticalKinds,
     P!GracefulKinds, R!GracefulKinds, P!BlockingKinds, R!BlockingKinds,
     P!Classes, R!Classes, P!Owners, R!Owners, P!Answered, R!Answered, P!Ended, R!Ended,
     P!Alive, R!Alive, P!ShutdownEvent, R!ShutdownEvent, P!PanicEvent, R!PanicEvent

\* The pieces actions are built from.
LEMMA SameGuards ==
    /\ \A a : R!NewGuard(a) <=> P!NewGuard(a)
    /\ \A g : R!DropGuard(g) <=> P!DropGuard(g)
    /\ \A a : R!DropAll(a) <=> P!DropAll(a)
    /\ \A a : R!CanAct(a) <=> P!CanAct(a)
    /\ \A c : R!CanCall(c) <=> P!CanCall(c)
    /\ \A e : R!Send(e) <=> P!Send(e)
<1>1. \A a : R!NewGuard(a) <=> P!NewGuard(a)
  BY DEF P!NewGuard, R!NewGuard
<1>2. \A g : R!DropGuard(g) <=> P!DropGuard(g)
  BY DEF P!DropGuard, R!DropGuard
<1>3. \A a : R!DropAll(a) <=> P!DropAll(a)
  BY Zenon DEF P!DropAll, R!DropAll, P!HeldBy, R!HeldBy, P!Cardinality, R!Cardinality
<1>4. \A a : R!CanAct(a) <=> P!CanAct(a)
  BY SameSets DEF P!CanAct, R!CanAct
<1>5. \A c : R!CanCall(c) <=> P!CanCall(c)
  BY SameSets DEF P!CanCall, R!CanCall
<1>6. \A e : R!Send(e) <=> P!Send(e)
  BY DEF P!Send, R!Send, P!RxOpen, R!RxOpen
<1>7. QED
  BY <1>1, <1>2, <1>3, <1>4, <1>5, <1>6

LEMMA SameMetrics ==
    /\ \A k : P!CountStart(k) <=> R!CountStart(k)
    /\ \A t : P!CountFinish(t) <=> R!CountFinish(t)
  BY SameSets DEF P!CountStart, R!CountStart, P!CountFinish, R!CountFinish, P!Class, R!Class

\* Initial states and actions.
LEMMA SameInit == P!Init <=> R!Init
  BY SameSets DEF P!Init, R!Init

LEMMA SameTask == \A t : R!TaskStep(t) => P!TaskStep(t)
  BY SameSets, SameGuards, SameMetrics DEF P!TaskStep, R!TaskStep, P!SpawnPlain,
     R!SpawnPlain, P!SpawnGraceful, R!SpawnGraceful, P!SpawnRejected,
     R!SpawnRejected, P!FirstPoll, R!FirstPoll, P!PollTask, R!PollTask, P!Yield,
     R!Yield, P!Repoll, R!Repoll, P!Cancel, R!Cancel, P!Complete, R!Complete,
     P!Panic, R!Panic, P!ReportPanic, R!ReportPanic, P!Abort, R!Abort,
     P!Abortable, R!Abortable, P!managerVars, P!runtimeVars, P!taskVars, P!guardVars, P!callVars,
     P!metricVars, R!managerVars, R!runtimeVars, R!taskVars, R!guardVars,
     R!callVars, R!metricVars

LEMMA SameOwner == \A a, g : R!OwnerStep(a, g) => P!OwnerStep(a, g)
  BY SameSets, SameGuards DEF P!OwnerStep, R!OwnerStep, P!AwaitShutdown,
     R!AwaitShutdown, P!CloneShutdown, R!CloneShutdown, P!IgnoreGuard,
     R!IgnoreGuard, P!AwaitIgnored, R!AwaitIgnored, P!Release, R!Release,
     P!managerVars, P!runtimeVars, P!taskVars, P!guardVars, P!callVars,
     P!metricVars, R!managerVars, R!runtimeVars, R!taskVars, R!guardVars,
     R!callVars, R!metricVars

LEMMA SameCaller == \A c : R!CallerStep(c) => P!CallerStep(c)
  BY SameSets, SameGuards DEF P!CallerStep, R!CallerStep, P!CallShutdown,
     R!CallShutdown, P!SeeDrained, R!SeeDrained, P!SeeDeadline, R!SeeDeadline,
     P!InitiateSend, R!InitiateSend, P!RxOpen, R!RxOpen, P!InitiateReturn,
     R!InitiateReturn, P!managerVars, P!runtimeVars, P!taskVars, P!guardVars,
     P!callVars, P!metricVars, R!managerVars, R!runtimeVars, R!taskVars,
     R!guardVars, R!callVars, R!metricVars

LEMMA SameManager ==
    /\ R!ManagerStep => P!ManagerStep
    /\ R!DropHandles => P!DropHandles
    /\ R!TokioShutdown => P!TokioShutdown
  BY SameSets DEF P!ManagerStep, R!ManagerStep, P!ManagerPoll, R!ManagerPoll,
     P!SendersGone, R!SendersGone, P!ManagerAborted, R!ManagerAborted,
     P!ManagerDropRx, R!ManagerDropRx, P!ManagerDropSignal, R!ManagerDropSignal,
     P!DropHandles, R!DropHandles, P!TokioShutdown, R!TokioShutdown,
     P!managerVars, P!runtimeVars, P!taskVars, P!guardVars, P!callVars,
     P!metricVars, R!managerVars, R!runtimeVars, R!taskVars, R!guardVars,
     R!callVars, R!metricVars

LEMMA SameNext == [R!Next]_(R!vars) => [P!Next]_(P!vars)
<1> SUFFICES ASSUME [R!Next]_(R!vars) PROVE P!Next \/ UNCHANGED P!vars
  OBVIOUS
<1>1. CASE R!Next
  <2>1. ASSUME NEW t \in Tasks, R!TaskStep(t) PROVE P!Next
    BY <2>1, SameTask DEF P!Next
  <2>2. ASSUME NEW a \in R!Owners, NEW g \in Guards, R!OwnerStep(a, g) PROVE P!Next
    BY <2>2, SameOwner, SameSets DEF P!Next
  <2>3. ASSUME NEW c \in Callers, R!CallerStep(c) PROVE P!Next
    BY <2>3, SameCaller DEF P!Next
  <2>4. QED
    BY <1>1, <2>1, <2>2, <2>3, SameManager DEF R!Next, P!Next
<1>2. CASE UNCHANGED R!vars
  BY <1>2 DEF P!vars, R!vars, P!managerVars, P!runtimeVars, P!taskVars,
     P!guardVars, P!callVars, P!metricVars, R!managerVars, R!runtimeVars,
     R!taskVars, R!guardVars, R!callVars, R!metricVars
<1>3. QED
  BY <1>1, <1>2

\* So the inductive invariants of TaskRuntime hold under the runner.
LEMMA RuntimeInv == Spec => [](P!IInv /\ P!CauseInv)
<1>1. Init => P!Init
  BY SameInit DEF Init
<1>2. P!Init => P!IInv /\ P!CauseInv
  <2>1. P!Init => P!CauseInv
    BY DEF P!Init, P!CauseInv
  <2>2. P!Init => P!IInv
    BY P!InitIInv, RuntimeAssumption, CallersAssumption
       DEF Callers, P!IsFiniteSet, IsFiniteSet, P!AllKinds, R!AllKinds
  <2>3. QED
    BY <2>1, <2>2
<1>3. P!IInv /\ P!CauseInv /\ [Next]_vars => (P!IInv /\ P!CauseInv)'
  <2>1. P!IInv /\ [P!Next]_(P!vars) => P!IInv'
    BY P!NextIInv, RuntimeAssumption, CallersAssumption
       DEF Callers, P!IsFiniteSet, IsFiniteSet, P!AllKinds, R!AllKinds
  <2>2. P!IInv /\ P!CauseInv /\ [P!Next]_(P!vars) => P!CauseInv'
    BY P!NextCauseInv, RuntimeAssumption, CallersAssumption
       DEF Callers, P!IsFiniteSet, IsFiniteSet, P!AllKinds, R!AllKinds
  <2>3. QED
    BY <2>1, <2>2, NextUses, SameNext
<1>4. QED
  BY <1>1, <1>2, <1>3, PTL DEF Spec
-------------------------------------------------------------------------------
(* What the steps of the runtime keep.                                     *)

\* What the runner relies on: an event was taken for a cause, only the end of
\* the runtime makes the manager resolve without one, guards are of live tasks
\* and of callers.
RuntimeFacts ==
    /\ \/ taken = {}
       \/ taken = {R!ShutdownEvent} /\ \E c \in Callers : calls[c] > 0
       \/ \E t \in Tasks : taken = {R!PanicEvent(t)} /\ pc[t] = "panicked"
    /\ managerPc = "polling" => taken = {}
    /\ managerPc # "polling" => taken # {} \/ down \/ ~handles
    /\ \A g \in Guards : at[g] = "free" <=> by[g] = NoOne
    /\ \A g \in Guards : by[g] \in Tasks => pc[by[g]] \in {"ready", "running"}
    /\ \A g \in Guards : by[g] \in R!Owners \cup {NoOne}
    /\ \A c \in Callers : calls[c] \in Nat
    /\ DOMAIN calls = Callers /\ DOMAIN pc = Tasks
    /\ DOMAIN call = Callers /\ DOMAIN by = Guards

LEMMA FactsHold == P!IInv /\ P!CauseInv => RuntimeFacts
<1> SUFFICES ASSUME P!IInv, P!CauseInv PROVE RuntimeFacts
  OBVIOUS
<1>1. \/ taken = {}
      \/ taken = {R!ShutdownEvent} /\ \E c \in Callers : calls[c] > 0
      \/ \E t \in Tasks : taken = {R!PanicEvent(t)} /\ pc[t] = "panicked"
  BY SameSets DEF P!CauseInv, P!Caused, P!Requested, P!Panicked
<1>2. /\ managerPc = "polling" => taken = {}
      /\ managerPc # "polling" => taken # {} \/ down \/ ~handles
  BY DEF P!IInv, P!ManagerInv
<1>3. /\ \A g \in Guards : at[g] = "free" <=> by[g] = NoOne
      /\ \A g \in Guards : by[g] \in Tasks => pc[by[g]] \in {"ready", "running"}
  BY DEF P!IInv, P!GuardCount
<1>4. /\ \A c \in Callers : calls[c] \in Nat
      /\ DOMAIN calls = Callers /\ DOMAIN pc = Tasks
      /\ DOMAIN call = Callers /\ DOMAIN by = Guards
      /\ \A g \in Guards : by[g] \in R!Owners \cup {NoOne}
  BY SameSets, RuntimeAssumption DEF P!IInv, P!TypeOK
<1>5. QED
  BY <1>1, <1>2, <1>3, <1>4 DEF RuntimeFacts

\* Only TokioShutdown takes the tokio runtime down.
LEMMA DownKept ==
    /\ \A t \in Tasks : R!TaskStep(t) => UNCHANGED down
    /\ \A a \in R!Owners, g \in Guards : R!OwnerStep(a, g) => UNCHANGED down
    /\ R!ManagerStep => UNCHANGED down
    /\ \A c \in Callers : R!CallerStep(c) => UNCHANGED down
    /\ R!DropHandles => UNCHANGED down
<1>1. ASSUME NEW t \in Tasks, R!TaskStep(t) PROVE UNCHANGED down
  BY <1>1 DEF R!TaskStep, R!SpawnPlain, R!SpawnGraceful, R!SpawnRejected,
     R!FirstPoll, R!PollTask, R!Yield, R!Repoll, R!Cancel, R!Complete, R!Panic,
     R!ReportPanic, R!Abort, R!runtimeVars
<1>2. ASSUME NEW a \in R!Owners, NEW g \in Guards, R!OwnerStep(a, g)
      PROVE  UNCHANGED down
  BY <1>2 DEF R!OwnerStep, R!AwaitShutdown, R!CloneShutdown, R!IgnoreGuard,
     R!AwaitIgnored, R!Release, R!runtimeVars
<1>3. ASSUME R!ManagerStep PROVE UNCHANGED down
  BY <1>3 DEF R!ManagerStep, R!ManagerPoll, R!ManagerAborted, R!ManagerDropRx,
     R!ManagerDropSignal, R!runtimeVars
<1>4. ASSUME NEW c \in Callers, R!CallerStep(c) PROVE UNCHANGED down
  BY <1>4 DEF R!CallerStep, R!CallShutdown, R!SeeDrained, R!SeeDeadline,
     R!InitiateSend, R!InitiateReturn, R!runtimeVars
<1>5. R!DropHandles => UNCHANGED down
  BY DEF R!DropHandles
<1>6. QED
  BY <1>1, <1>2, <1>3, <1>4, <1>5

\* Only its own step counts a call of a caller, and the count never falls.
LEMMA CallsKept ==
    ASSUME RuntimeFacts
    PROVE  /\ \A t \in Tasks : R!TaskStep(t) => UNCHANGED calls
           /\ \A a \in R!Owners, g \in Guards : R!OwnerStep(a, g) => UNCHANGED calls
           /\ R!ManagerStep => UNCHANGED calls
           /\ R!DropHandles \/ R!TokioShutdown => UNCHANGED calls
           /\ \A c, d \in Callers : R!CallerStep(c) =>
                  calls'[d] >= calls[d] /\ (d # c => calls'[d] = calls[d])
<1>1. ASSUME NEW t \in Tasks, R!TaskStep(t) PROVE UNCHANGED calls
  BY <1>1 DEF R!TaskStep, R!SpawnPlain, R!SpawnGraceful, R!SpawnRejected,
     R!FirstPoll, R!PollTask, R!Yield, R!Repoll, R!Cancel, R!Complete, R!Panic,
     R!ReportPanic, R!Abort, R!callVars
<1>2. ASSUME NEW a \in R!Owners, NEW g \in Guards, R!OwnerStep(a, g)
      PROVE  UNCHANGED calls
  BY <1>2 DEF R!OwnerStep, R!AwaitShutdown, R!CloneShutdown, R!IgnoreGuard,
     R!AwaitIgnored, R!Release, R!callVars
<1>3. ASSUME R!ManagerStep PROVE UNCHANGED calls
  BY <1>3 DEF R!ManagerStep, R!ManagerPoll, R!ManagerAborted, R!ManagerDropRx,
     R!ManagerDropSignal, R!callVars
<1>4. ASSUME NEW c \in Callers, NEW d \in Callers, R!CallerStep(c)
      PROVE  calls'[d] >= calls[d] /\ (d # c => calls'[d] = calls[d])
  BY <1>4 DEF R!CallerStep, R!CallShutdown, R!SeeDrained, R!SeeDeadline,
     R!InitiateSend, R!InitiateReturn, RuntimeFacts
<1>5. R!DropHandles \/ R!TokioShutdown => UNCHANGED calls
  BY DEF R!DropHandles, R!TokioShutdown, R!callVars
<1>6. QED
  BY <1>1, <1>2, <1>3, <1>4, <1>5

\* The manager takes one event at most.
LEMMA TakenStays ==
    ASSUME RuntimeFacts, [R!Next]_(R!vars), taken # {}
    PROVE  UNCHANGED taken
<1>1. ASSUME NEW t \in Tasks, R!TaskStep(t) PROVE UNCHANGED taken
  BY <1>1 DEF R!TaskStep, R!SpawnPlain, R!SpawnGraceful, R!SpawnRejected,
     R!FirstPoll, R!PollTask, R!Yield, R!Repoll, R!Cancel, R!Complete, R!Panic,
     R!ReportPanic, R!Abort, R!managerVars
<1>2. ASSUME NEW a \in R!Owners, NEW g \in Guards, R!OwnerStep(a, g)
      PROVE  UNCHANGED taken
  BY <1>2 DEF R!OwnerStep, R!AwaitShutdown, R!CloneShutdown, R!IgnoreGuard,
     R!AwaitIgnored, R!Release, R!managerVars
<1>3. ASSUME R!ManagerStep PROVE UNCHANGED taken
  BY <1>3 DEF R!ManagerStep, R!ManagerPoll, R!ManagerAborted, R!ManagerDropRx,
     R!ManagerDropSignal, RuntimeFacts
<1>4. ASSUME NEW c \in Callers, R!CallerStep(c) PROVE UNCHANGED taken
  BY <1>4 DEF R!CallerStep, R!CallShutdown, R!SeeDrained, R!SeeDeadline,
     R!InitiateSend, R!InitiateReturn, R!managerVars
<1>5. CASE R!DropHandles \/ R!TokioShutdown \/ UNCHANGED R!vars
  BY <1>5 DEF R!DropHandles, R!TokioShutdown, R!vars, R!managerVars
<1>6. QED
  BY <1>1, <1>2, <1>3, <1>4, <1>5 DEF R!Next

\* A task that has ended has ended for good.
LEMMA EndedStays ==
    ASSUME RuntimeFacts, [R!Next]_(R!vars), NEW t \in Tasks, pc[t] \in R!Ended
    PROVE  pc'[t] = pc[t]
<1>1. ASSUME NEW u \in Tasks, R!TaskStep(u) PROVE pc'[t] = pc[t]
  BY <1>1 DEF R!TaskStep, R!SpawnPlain, R!SpawnGraceful, R!SpawnRejected,
     R!FirstPoll, R!PollTask, R!Yield, R!Repoll, R!Cancel, R!Complete, R!Panic,
     R!ReportPanic, R!Abort, R!Abortable, R!Ended, RuntimeFacts
<1>2. ASSUME NEW a \in R!Owners, NEW g \in Guards, R!OwnerStep(a, g)
      PROVE  pc'[t] = pc[t]
  BY <1>2 DEF R!OwnerStep, R!AwaitShutdown, R!CloneShutdown, R!IgnoreGuard,
     R!AwaitIgnored, R!Release, R!taskVars
<1>3. ASSUME R!ManagerStep PROVE pc'[t] = pc[t]
  BY <1>3 DEF R!ManagerStep, R!ManagerPoll, R!ManagerAborted, R!ManagerDropRx,
     R!ManagerDropSignal, R!taskVars
<1>4. ASSUME NEW c \in Callers, R!CallerStep(c) PROVE pc'[t] = pc[t]
  BY <1>4 DEF R!CallerStep, R!CallShutdown, R!SeeDrained, R!SeeDeadline,
     R!InitiateSend, R!InitiateReturn, R!taskVars
<1>5. CASE R!DropHandles \/ R!TokioShutdown \/ UNCHANGED R!vars
  BY <1>5 DEF R!DropHandles, R!TokioShutdown, R!vars, R!taskVars
<1>6. QED
  BY <1>1, <1>2, <1>3, <1>4, <1>5 DEF R!Next

-------------------------------------------------------------------------------
(* Where the main thread is, and what that says about the rest.            *)

PlacesInv ==
    /\ main = "select" <=> result = "none"
    /\ method \in OnMain => command # "queued" /\ (main # "select" => CommandOver)
    /\ main = "draining" => method \in WithManager
    /\ main = "handOff" /\ method \notin WithManager =>
           method = "blockingFuture" /\ result = "ok"
    /\ shutdownThread # "none" => main \in {"waiting", "returned", "gaveUp"}
    /\ main \in {"select", "leaving", "draining", "handOff"} => Main \in clones

\* As long as the main thread holds its clone the runtime is in use.
UseInv ==
    /\ down => ~handles
    /\ main \in {"select", "leaving"} => calls[Main] = 0

LEMMA NextPlaces == RangesInv /\ PlacesInv /\ [Next]_vars => PlacesInv'
<1> SUFFICES ASSUME RangesInv, PlacesInv, [Next]_vars PROVE PlacesInv'
  OBVIOUS
<1> USE DEF PlacesInv, CommandOver
<1>1. UNCHANGED <<method, main, command, result, shutdownThread>>
        /\ (Main \in clones => Main \in clones') => PlacesInv'
  OBVIOUS
<1>2. CASE Alone \/ TokioShutdown \/ UNCHANGED vars
  BY <1>1, <1>2 DEF Alone, TokioShutdown, vars, runnerVars
<1>3. ASSUME NEW t \in Tasks, Spawn(t) PROVE PlacesInv'
  BY <1>1, <1>3 DEF Spawn
<1>4. ASSUME NEW c \in Holders, LetsGo(c) PROVE PlacesInv'
  BY <1>1, <1>4, c # Main DEF LetsGo, DropClone
<1>5. CASE SpawnClosure \/ ClosureEnds \/ Interrupt
  BY <1>1, <1>5 DEF SpawnClosure, ClosureEnds, Interrupt
<1>6. CASE StartCommand
  BY <1>6 DEF StartCommand
<1>7. ASSUME NEW outcome \in {"ok", "err", "panicked"}, CommandEnds(outcome)
      PROVE  PlacesInv'
  BY <1>7 DEF CommandEnds
<1>8. CASE SeeInterrupt \/ SeeManager \/ SeeCommand
  <2>1. PICK outcome \in {"ok", "err", "panicked", "panic"} : SelectEnds(outcome)
    BY <1>8 DEF SeeInterrupt, SeeManager, SeeCommand
  <2>2. QED
    BY <2>1 DEF SelectEnds, Polling
<1>9. CASE Leave
  BY <1>9 DEF Leave, WithManager, OnMain, RangesInv, Methods
<1>10. CASE Drained
  BY <1>10 DEF Drained
<1>11. CASE HandOff
  BY <1>11 DEF HandOff
<1>12. CASE ThreadDone \/ Return \/ TimeOut
  BY <1>12 DEF ThreadDone, Return, TimeOut
<1>13. CASE main = "dropping" /\ RunnerDrops
  BY <1>13 DEF RunnerDrops
<1>14. CASE shutdownThread = "dropping" /\ RunnerDrops
  BY <1>14 DEF RunnerDrops
<1>15. QED
  BY <1>2, <1>3, <1>4, <1>5, <1>6, <1>7, <1>8, <1>9, <1>10, <1>11, <1>12, <1>13,
     <1>14, Steps DEF MainStep, ThreadStep

\* Without a clone nobody gets one.
LEMMA NoneStays ==
    ASSUME clones = {}, [Next]_vars
    PROVE  clones' = {}
<1>1. ~\E a : DropClone(a)
  BY DEF DropClone
<1>2. ~\E c \in Holders : Using(c)
  BY DEF Using
<1>3. CASE Alone \/ TokioShutdown \/ UNCHANGED vars
  BY <1>3 DEF Alone, TokioShutdown, vars, runnerVars
<1>4. ~(\E t \in Tasks : Spawn(t)) /\ ~(\E c \in Holders : LetsGo(c)) /\ ~SpawnClosure
  BY <1>1, <1>2 DEF Spawn, LetsGo, SpawnClosure
<1>5. CASE ClosureEnds \/ StartCommand \/ Interrupt
  BY <1>5 DEF ClosureEnds, StartCommand, Interrupt
<1>6. CASE \E outcome \in {"ok", "err", "panicked"} : CommandEnds(outcome)
  BY <1>6 DEF CommandEnds
<1>7. CASE MainStep \/ ThreadStep
  BY <1>1, <1>7 DEF MainStep, ThreadStep, SeeInterrupt, SeeManager, SeeCommand,
     SelectEnds, Leave, Drained, HandOff, Return, TimeOut, ThreadDone, RunnerDrops
<1>8. QED
  BY <1>3, <1>4, <1>5, <1>6, <1>7, Steps

LEMMA NextUse ==
    ASSUME RuntimeFacts, HoldersInv, PlacesInv, UseInv, [Next]_vars
    PROVE  UseInv'
<1> USE DEF UseInv
<1>1. ~handles => ~handles'
  BY NextHolders, NoneStays DEF HoldersInv
<1>2. Main \in Callers /\ \A c \in Holders : c \in Callers /\ c # Main
  BY DEF Callers
<1>3. UNCHANGED down /\ (main' \in {"select", "leaving"} =>
          main \in {"select", "leaving"} /\ calls'[Main] = calls[Main]) => UseInv'
  BY <1>1
<1>4. UNCHANGED runtimeVars => UNCHANGED <<down, calls>>
  BY DEF runtimeVars
<1>5. ASSUME NEW a, DropClone(a) PROVE UNCHANGED <<down, calls>>
  BY <1>4, <1>5, DownKept, CallsKept DEF DropClone
<1>6. CASE Alone
  <2>1. UNCHANGED <<down, main>>
    BY <1>2, <1>6, DownKept DEF Alone, runnerVars
  <2>2. calls'[Main] = calls[Main]
    BY <1>2, <1>6, CallsKept DEF Alone
  <2>3. QED
    BY <1>3, <2>1, <2>2
<1>7. ASSUME NEW t \in Tasks, Spawn(t) PROVE UseInv'
  <2>1. R!TaskStep(t)
    BY <1>7 DEF Spawn, R!TaskStep
  <2>2. UNCHANGED <<down, calls, main>>
    BY <1>7, <2>1, DownKept, CallsKept DEF Spawn
  <2>3. QED
    BY <1>3, <2>2
<1>8. ASSUME NEW c \in Holders, LetsGo(c) PROVE UseInv'
  BY <1>3, <1>5, <1>8 DEF LetsGo
<1>9. CASE SpawnClosure \/ ClosureEnds \/ Interrupt \/ StartCommand
  BY <1>3, <1>4, <1>9 DEF SpawnClosure, ClosureEnds, Interrupt, StartCommand
<1>10. CASE TokioShutdown
  BY <1>1, <1>10, CallsKept DEF TokioShutdown, runnerVars
<1>11. ASSUME NEW outcome \in {"ok", "err", "panicked"}, CommandEnds(outcome)
       PROVE  UseInv'
  <2>1. method \in OnMain => main = "select"
    BY <1>11 DEF CommandEnds, PlacesInv, CommandOver
  <2>2. QED
    BY <1>3, <1>4, <1>11, <2>1 DEF CommandEnds
<1>12. CASE SeeInterrupt \/ SeeManager \/ SeeCommand
  BY <1>3, <1>4, <1>12 DEF SeeInterrupt, SeeManager, SeeCommand, SelectEnds, Polling
<1>13. CASE Leave
  <2>1. R!CallShutdown(Main, "timing") => UNCHANGED down
    BY DEF R!CallShutdown, R!runtimeVars
  <2>2. QED
    BY <1>3, <1>4, <1>13, <2>1 DEF Leave
<1>14. CASE Drained
  <2>1. UNCHANGED down
    BY <1>14 DEF Drained, R!SeeDrained, R!SeeDeadline, R!runtimeVars
  <2>2. QED
    BY <1>3, <1>14, <2>1 DEF Drained
<1>15. CASE HandOff \/ Return \/ TimeOut \/ ThreadDone
  BY <1>3, <1>4, <1>15 DEF HandOff, Return, TimeOut, ThreadDone
<1>16. CASE RunnerDrops
  BY <1>3, <1>5, <1>16 DEF RunnerDrops
<1>17. CASE UNCHANGED vars
  BY <1>3, <1>4, <1>17 DEF vars, runnerVars
<1>18. QED
  BY <1>6, <1>7, <1>8, <1>9, <1>10, <1>11, <1>12, <1>13, <1>14, <1>15, <1>16,
     <1>17, Steps DEF MainStep, ThreadStep

-------------------------------------------------------------------------------
(* Who is inside a call, and who owns guards.                              *)

\* A thread inside a method of Runtime holds its clone and is running; the main
\* thread owns no guard.
CallInv ==
    /\ \A c \in Holders : call[c] \notin R!Answered => Active(c) /\ c \in clones
    /\ \A g \in Guards : by[g] # Main

\* What a step of a task, an owner, a caller or the manager changes.
LEMMA TaskMoves ==
    ASSUME RuntimeFacts, NEW t \in Tasks, R!TaskStep(t)
    PROVE  /\ UNCHANGED call
           /\ \A u \in Tasks : u # t => pc'[u] = pc[u]
           /\ \A g \in Guards : by'[g] \in {by[g], t, NoOne}
BY DEF R!TaskStep, R!SpawnPlain, R!SpawnGraceful, R!SpawnRejected, R!FirstPoll,
   R!PollTask, R!Yield, R!Repoll, R!Cancel, R!Complete, R!Panic, R!ReportPanic,
   R!Abort, R!NewGuard, R!DropAll, R!callVars, R!guardVars, RuntimeFacts

LEMMA OwnerMoves ==
    ASSUME RuntimeFacts, NEW a \in R!Owners, NEW g \in Guards, R!OwnerStep(a, g)
    PROVE  /\ UNCHANGED <<call, pc>>
           /\ by[g] = a
           /\ \A h \in Guards : by'[h] \in {by[h], a, NoOne}
BY DEF R!OwnerStep, R!AwaitShutdown, R!CloneShutdown, R!IgnoreGuard, R!AwaitIgnored,
   R!Release, R!NewGuard, R!DropGuard, R!callVars, R!taskVars, RuntimeFacts

LEMMA CallerMoves ==
    ASSUME RuntimeFacts, NEW c \in Callers, R!CallerStep(c)
    PROVE  /\ UNCHANGED pc
           /\ \A d \in Callers : d # c => call'[d] = call[d]
           /\ \A g \in Guards : by'[g] \in {by[g], c, NoOne}
BY DEF R!CallerStep, R!CallShutdown, R!SeeDrained, R!SeeDeadline, R!InitiateSend,
   R!InitiateReturn, R!NewGuard, R!taskVars, R!guardVars, RuntimeFacts

LEMMA OthersMove ==
    R!ManagerStep \/ R!TokioShutdown \/ R!DropHandles => UNCHANGED <<call, pc, at, by>>
BY DEF R!ManagerStep, R!ManagerPoll, R!ManagerAborted, R!ManagerDropRx,
   R!ManagerDropSignal, R!TokioShutdown, R!DropHandles, R!callVars, R!taskVars, R!guardVars

\* Whose frame is over does not run.
LEMMA OverIdle == \A c \in Holders : Over(c) => ~Active(c)
BY DEF Over, Active, CommandOver, R!Ended, Holders, Asker

\* A call that is open stays open or returns, on a thread that goes on.
LEMMA CallStays ==
    ASSUME CallInv, NEW c \in Holders, call'[c] = call[c], call[c] \notin R!Answered,
           c = Command => command' = command,
           c = Closure => closure' = closure,
           \A t \in Tasks : c = Asker(t) => pc'[t] = pc[t],
           c \in clones => c \in clones'
    PROVE  Active(c)' /\ c \in clones'
BY DEF CallInv, Active

LEMMA NextCall ==
    ASSUME RuntimeFacts, CallInv, [Next]_vars
    PROVE  CallInv'
<1>1. Main \in Callers /\ \A c \in Holders : c \in Callers /\ c # Main /\ c \in R!Owners
  BY DEF Callers, R!Owners
<1>2. R!Answered' = R!Answered /\ Main \notin Tasks /\ Main # NoOne
  BY DEF R!Answered, Callers
<1>3. ASSUME UNCHANGED <<call, pc, by, command, closure>>,
             \A c \in Holders : c \in clones => c \in clones'
      PROVE  CallInv'
  BY <1>2, <1>3 DEF CallInv, Active
<1>4. ASSUME NEW a \in R!Owners, a # Main, NEW g \in Guards, R!OwnerStep(a, g),
             UNCHANGED runnerVars
      PROVE  CallInv'
  <2>1. UNCHANGED <<call, pc>> /\ \A h \in Guards : by'[h] \in {by[h], a, NoOne}
    BY <1>4, OwnerMoves
  <2>2. \A h \in Guards : by'[h] # Main
    BY <1>2, <1>4, <2>1 DEF CallInv
  <2>3. QED
    BY <1>2, <1>4, <2>1, <2>2 DEF CallInv, Active, runnerVars
<1>5. ASSUME NEW t \in Tasks, R!TaskStep(t), NEW c \in Holders,
             call[c] \notin R!Answered, c # Asker(t), UNCHANGED <<command, closure>>,
             c \in clones => c \in clones'
      PROVE  Active(c)' /\ c \in clones'
  <2>1. /\ UNCHANGED call
        /\ \A u \in Tasks : c = Asker(u) => pc'[u] = pc[u]
    BY <1>5, TaskMoves
  <2>2. QED
    BY <1>5, <2>1, CallStays
<1>6. ASSUME NEW t \in Tasks, R!TaskStep(t)
      PROVE  UNCHANGED call /\ \A g \in Guards : by'[g] # Main
  BY <1>2, <1>6, TaskMoves DEF CallInv
<1>7. ASSUME NEW t \in Tasks, TaskRuns(t) PROVE CallInv'
  <2>1. CASE \E g \in Guards : R!OwnerStep(t, g)
    <3>1. t \in R!Owners /\ t # Main /\ UNCHANGED runnerVars
      BY <1>2, <1>7 DEF R!Owners, TaskRuns
    <3>2. QED
      BY <1>4, <2>1, <3>1
  <2>2. CASE R!TaskStep(t)
    <3>1. UNCHANGED <<command, closure, clones>> /\ call[Asker(t)] \in R!Answered
      BY <1>7 DEF TaskRuns, runnerVars
    <3>2. ASSUME NEW c \in Holders, call'[c] \notin R!Answered
          PROVE  Active(c)' /\ c \in clones'
      BY <1>5, <1>6, <2>2, <3>1, <3>2
    <3>3. QED
      BY <1>2, <1>6, <2>2, <3>2 DEF CallInv
  <2>3. QED
    BY <1>7, <2>1, <2>2 DEF TaskRuns, R!TaskStep
<1>8. ASSUME NEW t \in Tasks, Spawn(t) PROVE CallInv'
  <2>1. R!TaskStep(t) /\ pc[t] = "none"
    BY <1>8 DEF Spawn, R!TaskStep, R!SpawnPlain, R!SpawnGraceful
  <2>2. call[Asker(t)] \in R!Answered
    <3>1. ~Active(Asker(t)) /\ Asker(t) \in Holders
      BY <2>1 DEF Active, Holders, Asker
    <3>2. QED
      BY <3>1 DEF CallInv
  <2>3. UNCHANGED <<command, closure>> /\ clones \subseteq clones'
    BY <1>8 DEF Spawn
  <2>4. ASSUME NEW c \in Holders, call'[c] \notin R!Answered
        PROVE  Active(c)' /\ c \in clones'
    BY <1>5, <1>6, <2>1, <2>2, <2>3, <2>4
  <2>5. QED
    BY <1>2, <1>6, <2>1, <2>4 DEF CallInv
<1>9. ASSUME NEW c \in Holders, R!CallerStep(c), UNCHANGED runnerVars,
             Using(c) \/ call[c] \notin R!Answered
      PROVE  CallInv'
  <2>1. Active(c) /\ c \in clones
    BY <1>9 DEF Using, Free, CallInv
  <2>2. /\ UNCHANGED <<pc, command, closure, clones>>
        /\ \A d \in Callers : d # c => call'[d] = call[d]
        /\ \A g \in Guards : by'[g] \in {by[g], c, NoOne}
    BY <1>1, <1>9, CallerMoves DEF runnerVars
  <2>3. ASSUME NEW d \in Holders, call'[d] \notin R!Answered
        PROVE  Active(d) /\ d \in clones
    BY <1>1, <2>1, <2>2, <2>3 DEF CallInv
  <2>4. \A g \in Guards : by'[g] # Main
    BY <1>1, <1>2, <2>2 DEF CallInv
  <2>5. QED
    BY <1>2, <2>2, <2>3, <2>4 DEF CallInv, Active
<1>10. ASSUME NEW c \in Holders, HolderCalls(c) PROVE CallInv'
  BY <1>9, <1>10 DEF HolderCalls, R!CallerStep
<1>11. ASSUME NEW c \in Holders, CallGoesOn(c) PROVE CallInv'
  <2>1. R!CallerStep(c) /\ UNCHANGED runnerVars
    BY <1>11 DEF CallGoesOn, R!CallerStep
  <2>2. call[c] \notin R!Answered
    BY <1>11 DEF CallGoesOn, R!SeeDrained, R!SeeDeadline, R!InitiateReturn, R!Answered
  <2>3. QED
    BY <1>9, <2>1, <2>2
<1>12. ASSUME NEW c \in Holders, HolderActs(c) PROVE CallInv'
  BY <1>1, <1>4, <1>12 DEF HolderActs
<1>13. ASSUME NEW a, DropClone(a), UNCHANGED <<command, closure>>,
              a \in Holders => call[a] \in R!Answered
       PROVE  CallInv'
  <2>1. UNCHANGED <<call, pc, by>> /\ clones' = clones \ {a}
    BY <1>13, OthersMove DEF DropClone, runtimeVars
  <2>2. QED
    BY <1>2, <1>13, <2>1 DEF CallInv, Active
<1>14. ASSUME NEW c \in Holders, LetsGo(c) PROVE CallInv'
  BY <1>13, <1>14, OverIdle DEF LetsGo, CallInv
<1>15. ASSUME NEW c \in Holders, FrameDrops(c) PROVE CallInv'
  <2>1. CASE DropClone(c)
    BY <1>14, <1>15, <2>1 DEF FrameDrops, LetsGo
  <2>2. CASE ~DropClone(c)
    <3>1. PICK g \in R!HeldBy(c) : R!Release(c, g)
      BY <1>15, <2>2 DEF FrameDrops
    <3>2. g \in Guards /\ R!OwnerStep(c, g)
      BY <3>1 DEF R!HeldBy, R!OwnerStep
    <3>3. UNCHANGED runnerVars
      BY <1>15, <2>2 DEF FrameDrops, runnerVars
    <3>4. QED
      BY <1>1, <1>4, <3>2, <3>3
  <2>3. QED
    BY <2>1, <2>2
<1>16. CASE ManagerRuns \/ TokioShutdown
  <2>1. UNCHANGED <<call, pc, by, command, closure, clones>>
    BY <1>16, OthersMove DEF ManagerRuns, TokioShutdown, runnerVars
  <2>2. QED
    BY <1>3, <2>1
<1>17. UNCHANGED runtimeVars => UNCHANGED <<call, pc, by>>
  BY DEF runtimeVars
<1>18. CASE SpawnClosure
  <2>1. closure' = TRUE /\ UNCHANGED command /\ clones \subseteq clones'
    BY <1>18 DEF SpawnClosure
  <2>2. UNCHANGED <<call, pc, by>>
    BY <1>17, <1>18 DEF SpawnClosure
  <2>3. QED
    BY <1>2, <2>1, <2>2 DEF CallInv, Active
<1>19. CASE ClosureEnds
  <2>1. call[Closure] \in R!Answered /\ UNCHANGED <<call, pc, by, command, clones>>
    BY <1>17, <1>19 DEF ClosureEnds, Free
  <2>2. QED
    BY <1>2, <2>1 DEF CallInv, Active
<1>20. ASSUME UNCHANGED <<runtimeVars, clones, closure>>,
              command' = command \/ call[Command] \in R!Answered
       PROVE  CallInv'
  BY <1>2, <1>17, <1>20 DEF CallInv, Active
<1>21. CASE StartCommand
  <2>1. ~Active(Command) /\ Command \in Holders
    BY <1>21 DEF StartCommand, Active, Holders
  <2>2. call[Command] \in R!Answered
    BY <2>1 DEF CallInv
  <2>3. QED
    BY <1>20, <1>21, <2>2 DEF StartCommand
<1>22. ASSUME NEW outcome \in {"ok", "err", "panicked"}, CommandEnds(outcome)
       PROVE  CallInv'
  BY <1>20, <1>22 DEF CommandEnds
<1>23. ASSUME NEW outcome, SelectEnds(outcome) PROVE CallInv'
  BY <1>20, <1>23 DEF SelectEnds, Polling
<1>24. CASE SeeInterrupt \/ SeeManager \/ SeeCommand
  BY <1>23, <1>24 DEF SeeInterrupt, SeeManager, SeeCommand
<1>25. ASSUME R!CallerStep(Main), UNCHANGED <<command, closure, clones>>,
              UNCHANGED by
       PROVE  CallInv'
  <2>1. UNCHANGED pc /\ \A d \in Callers : d # Main => call'[d] = call[d]
    BY <1>1, <1>25, CallerMoves
  <2>2. QED
    BY <1>1, <1>2, <1>25, <2>1 DEF CallInv, Active
<1>26. CASE Leave
  <2>1. R!CallShutdown(Main, "timing") => R!CallerStep(Main) /\ UNCHANGED by
    BY DEF R!CallerStep, R!CallShutdown, R!guardVars
  <2>2. QED
    BY <1>20, <1>25, <1>26, <2>1 DEF Leave
<1>27. CASE Drained
  <2>1. R!CallerStep(Main) /\ UNCHANGED by
    BY <1>27 DEF Drained, R!CallerStep, R!SeeDrained, R!SeeDeadline, R!guardVars
  <2>2. QED
    BY <1>25, <1>27, <2>1 DEF Drained
<1>28. CASE Interrupt \/ HandOff \/ Return \/ TimeOut \/ ThreadDone
  BY <1>20, <1>28 DEF Interrupt, HandOff, Return, TimeOut, ThreadDone
<1>29. CASE RunnerDrops
  BY <1>1, <1>13, <1>29 DEF RunnerDrops
<1>30. CASE UNCHANGED vars
  BY <1>20, <1>30 DEF vars, runnerVars
<1>31. QED
  BY <1>7, <1>8, <1>10, <1>11, <1>12, <1>15, <1>16, <1>18, <1>19, <1>21, <1>22,
     <1>24, <1>26, <1>27, <1>28, <1>29, <1>30
     DEF Next, HolderStep, MainStep, ThreadStep

-------------------------------------------------------------------------------
(* What the method returns.                                                *)

\* A result has its reason, in terms of what never changes again.
ResultInv ==
    /\ result = "err" => command = "err"
    /\ result = "panic" => \E t \in Tasks : taken = {R!PanicEvent(t)}
    /\ result = "ok" => \/ command = "ok"
                        \/ interrupted
                        \/ taken = {R!ShutdownEvent} /\ \E c \in Holders : calls[c] > 0

\* A call that was made stays made.
LEMMA CallsGrow ==
    ASSUME RuntimeFacts, [R!Next]_(R!vars), NEW d \in Callers, calls[d] > 0
    PROVE  calls'[d] > 0
<1>1. d \in Callers /\ calls[d] \in Nat
  BY DEF RuntimeFacts
<1>2. ASSUME NEW c \in Callers, R!CallerStep(c) PROVE calls'[d] > 0
  <2>1. calls'[d] = calls[d] \/ (d = c /\ calls'[d] = calls[d] + 1)
    BY <1>1, <1>2 DEF R!CallerStep, R!CallShutdown, R!SeeDrained, R!SeeDeadline,
       R!InitiateSend, R!InitiateReturn, RuntimeFacts
  <2>2. QED
    BY <1>1, <2>1
<1>3. CASE UNCHANGED R!vars
  BY <1>3 DEF R!vars, R!callVars
<1>4. CASE ~\E c \in Callers : R!CallerStep(c)
  BY <1>3, <1>4, CallsKept DEF R!Next
<1>5. QED
  BY <1>2, <1>4

LEMMA NextResult ==
    ASSUME RuntimeFacts, HoldersInv, PlacesInv, UseInv, ResultInv, [Next]_vars
    PROVE  ResultInv'
<1> USE DEF ResultInv
<1>1. [R!Next]_(R!vars)
  BY NextUses
<1>2. /\ taken # {} => UNCHANGED taken
      /\ (\E c \in Holders : calls[c] > 0) => \E c \in Holders : calls'[c] > 0
  BY <1>1, TakenStays, CallsGrow DEF Callers
<1>3. UNCHANGED result /\ (interrupted => interrupted')
        /\ (command \in {"ok", "err"} => UNCHANGED command) => ResultInv'
  BY <1>2
<1>4. CASE Alone \/ TokioShutdown \/ UNCHANGED vars
  BY <1>3, <1>4 DEF Alone, TokioShutdown, vars, runnerVars
<1>5. ASSUME NEW t \in Tasks, Spawn(t) PROVE ResultInv'
  BY <1>3, <1>5 DEF Spawn
<1>6. ASSUME NEW c \in Holders, LetsGo(c) PROVE ResultInv'
  BY <1>3, <1>6 DEF LetsGo
<1>7. CASE SpawnClosure \/ ClosureEnds \/ Interrupt \/ StartCommand
  BY <1>3, <1>7 DEF SpawnClosure, ClosureEnds, Interrupt, StartCommand
<1>8. ASSUME NEW outcome \in {"ok", "err", "panicked"}, CommandEnds(outcome)
      PROVE  ResultInv'
  <2>1. CASE method \notin OnMain
    BY <1>3, <1>8, <2>1 DEF CommandEnds
  <2>2. CASE method \in OnMain
    BY <1>8, <2>2 DEF CommandEnds
  <2>3. QED
    BY <2>1, <2>2
<1>9. CASE SeeInterrupt
  BY <1>9 DEF SeeInterrupt, SelectEnds
<1>10. CASE SeeManager
  <2>1. /\ main = "select" /\ managerPc = "done" /\ UNCHANGED <<taken, calls>>
    BY <1>10 DEF SeeManager, SelectEnds, Polling, runtimeVars
  <2>2. Main \in clones
    BY <2>1 DEF PlacesInv
  <2>3. handles /\ ~down /\ calls[Main] = 0
    BY <2>1, <2>2 DEF HoldersInv, UseInv
  <2>4. \/ taken = {R!ShutdownEvent} /\ \E c \in Callers : calls[c] > 0
        \/ \E t \in Tasks : taken = {R!PanicEvent(t)}
    BY <2>1, <2>3 DEF RuntimeFacts
  <2>5. CASE \E t \in Tasks : taken = {R!PanicEvent(t)}
    BY <1>10, <2>1, <2>5 DEF SeeManager, SelectEnds
  <2>6. CASE ~\E t \in Tasks : taken = {R!PanicEvent(t)}
    <3>1. result' = "ok"
      BY <1>10, <2>6 DEF SeeManager, SelectEnds
    <3>2. taken = {R!ShutdownEvent} /\ \E c \in Holders : calls[c] > 0
      BY <2>3, <2>4, <2>6 DEF Callers
    <3>3. QED
      BY <2>1, <3>1, <3>2
  <2>7. QED
    BY <2>5, <2>6
<1>11. CASE SeeCommand
  BY <1>11 DEF SeeCommand, SelectEnds
<1>12. CASE Leave \/ Drained \/ HandOff \/ Return \/ TimeOut \/ ThreadDone
  BY <1>3, <1>12 DEF Leave, Drained, HandOff, Return, TimeOut, ThreadDone
<1>13. CASE RunnerDrops
  BY <1>3, <1>13 DEF RunnerDrops
<1>14. QED
  BY <1>4, <1>5, <1>6, <1>7, <1>8, <1>9, <1>10, <1>11, <1>12, <1>13, Steps
     DEF MainStep, ThreadStep

-------------------------------------------------------------------------------
(* What is left when a method that waited returns.                         *)

Quiet ==
    /\ clones = {}
    /\ down
    /\ \A t \in Tasks : pc[t] \in R!Ended \cup {"none"}
    /\ ~closure
    /\ command \notin {"queued", "running"}
    /\ \A g \in Guards : at[g] = "free"

\* Without a clone nobody can start anything, nor get a guard.
LEMMA QuietStays ==
    ASSUME RuntimeFacts, CallInv, Quiet, [Next]_vars
    PROVE  Quiet'
<1> USE DEF Quiet
<1>1. UNCHANGED <<clones, down, pc, closure, command, at>> => Quiet'
  BY DEF R!Ended
<1>2. UNCHANGED runtimeVars => UNCHANGED <<down, pc, at>>
  BY DEF runtimeVars
<1>3. ~\E a : DropClone(a)
  BY DEF DropClone
<1>4. ~\E c \in Holders : Using(c)
  BY DEF Using
<1>5. \A c \in Holders : call[c] \in R!Answered
  BY DEF CallInv
<1>6. ~\E a \in R!Owners, g \in Guards : R!OwnerStep(a, g)
  BY OwnerMoves DEF RuntimeFacts, R!Owners
<1>7. ~\E t \in Tasks : TaskRuns(t)
  BY <1>6 DEF TaskRuns, R!FirstPoll, R!PollTask, R!Yield, R!Repoll, R!Cancel,
     R!Complete, R!Panic, R!ReportPanic, R!Abort, R!Abortable, R!Ended, R!Owners
<1>8. ~\E c \in Holders : HolderStep(c)
  <2>1. SUFFICES ASSUME NEW c \in Holders, HolderStep(c) PROVE FALSE
    OBVIOUS
  <2>2. c \in R!Owners /\ c # NoOne
    BY DEF R!Owners, Callers
  <2>3. ~HolderCalls(c)
    BY <1>4 DEF HolderCalls
  <2>4. ~CallGoesOn(c)
    BY <1>5 DEF CallGoesOn, R!SeeDrained, R!SeeDeadline, R!InitiateReturn, R!Answered
  <2>5. ~HolderActs(c)
    BY <1>6, <2>2 DEF HolderActs
  <2>6. ~FrameDrops(c)
    BY <1>3, <2>2 DEF FrameDrops, R!HeldBy, RuntimeFacts
  <2>7. QED
    BY <2>1, <2>3, <2>4, <2>5, <2>6 DEF HolderStep
<1>9. ~(\E t \in Tasks : Spawn(t)) /\ ~SpawnClosure
  BY <1>4 DEF Spawn, SpawnClosure
<1>10. CASE ManagerRuns
  <2>1. UNCHANGED <<down, pc, at>>
    BY <1>10, OthersMove, DownKept DEF ManagerRuns
  <2>2. QED
    BY <1>1, <1>10, <2>1 DEF ManagerRuns, runnerVars
<1>11. CASE TokioShutdown \/ StartCommand \/ ClosureEnds
  BY <1>11 DEF TokioShutdown, R!TokioShutdown, StartCommand, ClosureEnds, Free, Active, Asker
<1>12. CASE Interrupt \/ UNCHANGED vars
  BY <1>1, <1>2, <1>12 DEF Interrupt, vars, runnerVars
<1>13. ASSUME NEW outcome \in {"ok", "err", "panicked"}, CommandEnds(outcome)
       PROVE  Quiet'
  BY <1>13 DEF CommandEnds
<1>14. CASE SeeInterrupt \/ SeeManager \/ SeeCommand
  <2>1. PICK outcome \in {"ok", "err", "panicked", "panic"} : SelectEnds(outcome)
    BY <1>14 DEF SeeInterrupt, SeeManager, SeeCommand
  <2>2. UNCHANGED <<clones, down, pc, closure, at>> /\ command' \in {command, "dropped"}
    BY <1>2, <2>1 DEF SelectEnds
  <2>3. QED
    BY <2>2 DEF R!Ended
<1>15. CASE Leave
  <2>1. R!CallShutdown(Main, "timing") => UNCHANGED <<pc, down, at>>
    BY DEF R!CallShutdown, R!runtimeVars, R!taskVars, R!guardVars
  <2>2. QED
    BY <1>1, <1>2, <1>15, <2>1 DEF Leave
<1>16. CASE Drained
  BY <1>1, <1>16 DEF Drained, R!SeeDrained, R!SeeDeadline, R!runtimeVars, R!taskVars,
     R!guardVars
<1>17. CASE HandOff \/ Return \/ TimeOut \/ ThreadDone
  BY <1>1, <1>2, <1>17 DEF HandOff, Return, TimeOut, ThreadDone
<1>18. CASE RunnerDrops
  BY <1>3, <1>18 DEF RunnerDrops
<1>19. QED
  BY <1>7, <1>8, <1>9, <1>10, <1>11, <1>12, <1>13, <1>14, <1>15, <1>16, <1>17,
     <1>18 DEF Next, MainStep, ThreadStep

\* The clone of the runner is gone, and if it was the last all is quiet.
Gone == Main \notin clones /\ (lastHolder = {Main} => Quiet)

GoneInv ==
    /\ shutdownThread = "done" => Gone
    /\ main = "returned" /\ Waited => Gone

LEMMA GoneStays ==
    ASSUME RuntimeFacts, CallInv, Gone, [Next]_vars
    PROVE  Gone'
<1> USE DEF Gone
<1>1. Main \notin clones' /\ (lastHolder' = {Main} => lastHolder = {Main})
  <2>1. CASE Alone \/ TokioShutdown \/ UNCHANGED vars
    BY <2>1 DEF Alone, TokioShutdown, vars, runnerVars
  <2>2. CASE \E t \in Tasks : Spawn(t)
    BY <2>2 DEF Spawn
  <2>3. ASSUME NEW c, c # Main, DropClone(c)
        PROVE  Main \notin clones' /\ (lastHolder' = {Main} => lastHolder = {Main})
    BY <2>3 DEF DropClone
  <2>4. CASE \E c \in Holders : LetsGo(c)
    BY <2>3, <2>4 DEF LetsGo
  <2>5. CASE SpawnClosure \/ ClosureEnds \/ StartCommand \/ Interrupt
    BY <2>5 DEF SpawnClosure, ClosureEnds, StartCommand, Interrupt, Holders
  <2>6. CASE \E outcome \in {"ok", "err", "panicked"} : CommandEnds(outcome)
    BY <2>6 DEF CommandEnds
  <2>7. CASE SeeInterrupt \/ SeeManager \/ SeeCommand \/ Leave \/ Drained
    BY <2>7 DEF SeeInterrupt, SeeManager, SeeCommand, SelectEnds, Leave, Drained
  <2>8. CASE HandOff \/ Return \/ TimeOut \/ ThreadDone
    BY <2>8 DEF HandOff, Return, TimeOut, ThreadDone
  <2>9. ~RunnerDrops
    BY DEF RunnerDrops, DropClone
  <2>10. QED
    BY <2>1, <2>2, <2>4, <2>5, <2>6, <2>7, <2>8, <2>9, Steps DEF MainStep, ThreadStep
<1>2. QED
  BY <1>1, QuietStays

\* DropReturns establishes it.
LEMMA DropsGone ==
    ASSUME RuntimeFacts, CallInv, RangesInv, HoldersInv, PlacesInv, DropReturns,
           main # "select"
    PROVE  Gone
<1>1. lastHolder = {Main} => clones = {}
  <2>1. Cardinality({Main}) = 1
    BY FS_Singleton
  <2>2. QED
    BY <2>1 DEF HoldersInv
<1>2. lastHolder = {Main} => command \notin {"queued", "running"}
  BY DEF DropReturns, WaitOver, PlacesInv, CommandOver
<1>3. ASSUME lastHolder = {Main}, NEW g \in Guards PROVE at[g] = "free"
  <2>1. by[g] \notin Tasks
    BY <1>3 DEF DropReturns, WaitOver, RuntimeFacts, R!Ended
  <2>2. by[g] \notin Holders
    BY <1>3 DEF DropReturns, WaitOver, FrameGone, R!HeldBy
  <2>3. by[g] = NoOne
    BY <2>1, <2>2 DEF RuntimeFacts, CallInv, R!Owners, Callers
  <2>4. QED
    BY <2>3 DEF RuntimeFacts
<1>4. QED
  BY <1>1, <1>2, <1>3 DEF Gone, Quiet, DropReturns, WaitOver

LEMMA NextGone ==
    ASSUME RuntimeFacts, CallInv, RangesInv, HoldersInv, PlacesInv, GoneInv, [Next]_vars
    PROVE  GoneInv'
<1> USE DEF GoneInv
<1>1. UNCHANGED <<method, main, result, shutdownThread>> => GoneInv'
  BY GoneStays DEF Waited
<1>2. CASE Alone \/ TokioShutdown \/ UNCHANGED vars
  BY <1>1, <1>2 DEF Alone, TokioShutdown, vars, runnerVars
<1>3. ASSUME NEW t \in Tasks, Spawn(t) PROVE GoneInv'
  BY <1>1, <1>3 DEF Spawn
<1>4. ASSUME NEW c \in Holders, LetsGo(c) PROVE GoneInv'
  BY <1>1, <1>4 DEF LetsGo
<1>5. CASE SpawnClosure \/ ClosureEnds \/ Interrupt \/ StartCommand
  BY <1>1, <1>5 DEF SpawnClosure, ClosureEnds, Interrupt, StartCommand
<1>6. shutdownThread' = "done" /\ UNCHANGED shutdownThread => Gone'
  BY GoneStays
<1>7. ASSUME NEW outcome \in {"ok", "err", "panicked"}, CommandEnds(outcome)
      PROVE  GoneInv'
  <2>1. CASE method \notin OnMain
    BY <1>1, <1>7, <2>1 DEF CommandEnds
  <2>2. CASE method \in OnMain
    BY <1>6, <1>7, <2>2 DEF CommandEnds
  <2>3. QED
    BY <2>1, <2>2
<1>8. CASE SeeInterrupt \/ SeeManager \/ SeeCommand
  BY <1>6, <1>8 DEF SeeInterrupt, SeeManager, SeeCommand, SelectEnds
<1>9. CASE Leave \/ Drained \/ TimeOut
  BY <1>6, <1>9 DEF Leave, Drained, TimeOut
<1>10. CASE HandOff
  BY <1>10 DEF HandOff, PlacesInv, Waited, WithManager
<1>11. CASE ThreadDone
  <2>1. main # "select" /\ Gone
    BY <1>11, DropsGone DEF ThreadDone, PlacesInv
  <2>2. QED
    BY <2>1, GoneStays
<1>12. CASE Return
  <2>1. Gone
    BY <1>12, DropsGone DEF Return
  <2>2. QED
    BY <2>1, GoneStays
<1>13. CASE RunnerDrops
  BY <1>1, <1>13 DEF RunnerDrops
<1>14. QED
  BY <1>2, <1>3, <1>4, <1>5, <1>7, <1>8, <1>9, <1>10, <1>11, <1>12, <1>13, Steps
     DEF MainStep, ThreadStep

-------------------------------------------------------------------------------
(* The theorems.                                                           *)

\* The inductive invariant, given what the runtime keeps.
RunnerInv ==
    RangesInv /\ HoldersInv /\ PlacesInv /\ UseInv /\ CallInv /\ ResultInv /\ GoneInv

LEMMA Invariance == Spec => [](RuntimeFacts /\ RunnerInv)
<1>1. Init => RunnerInv
  <2>1. Init => HoldersInv /\ RangesInv
    BY FS_EmptySet DEF Init, HoldersInv, RangesInv, R!Init, Callers, Holders, Methods
  <2>2. Init => PlacesInv /\ ResultInv /\ GoneInv
    BY DEF Init, PlacesInv, ResultInv, GoneInv
  <2>3. Init => UseInv /\ CallInv
    BY DEF Init, UseInv, CallInv, R!Init, R!Answered, Callers
  <2>4. QED
    BY <2>1, <2>2, <2>3 DEF RunnerInv
<1>2. RuntimeFacts /\ RunnerInv /\ [Next]_vars => RunnerInv'
  BY NextRanges, NextHolders, NextPlaces, NextUse, NextCall, NextResult, NextGone
     DEF RunnerInv
<1>3. QED
  BY <1>1, <1>2, RuntimeInv, FactsHold, PTL DEF Spec

\* What run_command_until_exit and the others return has happened, for any
\* number of tasks, closures and requests among them: an error is the command's,
\* a panic is the one the manager took, and Ok without the command's needs a
\* signal of the operating system or a request that a holder of Runtime made.
THEOREM ResultCorrect == Spec => []ResultJustified
<1>1. RuntimeFacts /\ RunnerInv => ResultJustified
  <2> SUFFICES ASSUME RuntimeFacts, ResultInv PROVE ResultJustified
    BY DEF RunnerInv
  <2>1. ASSUME result = "panic"
        PROVE  \E t \in Tasks : taken = {R!PanicEvent(t)} /\ pc[t] = "panicked"
    <3>1. \A t : R!PanicEvent(t).type # R!ShutdownEvent.type
      BY DEF R!PanicEvent, R!ShutdownEvent
    <3>2. taken # {} /\ taken # {R!ShutdownEvent}
      BY <2>1, <3>1 DEF ResultInv
    <3>3. QED
      BY <3>2 DEF RuntimeFacts
  <2>2. QED
    BY <2>1 DEF ResultInv, ResultJustified
<1>2. QED
  BY <1>1, Invariance, PTL

\* A method that dropped the last clone and waited for the end of the tokio
\* runtime leaves no task, no closure, no command and no guard of theirs.
THEOREM NothingLeftCorrect == Spec => []NothingLeftRunning
<1>1. RunnerInv => NothingLeftRunning
  BY DEF RunnerInv, GoneInv, Gone, Quiet, NothingLeftRunning
<1>2. QED
  BY <1>1, Invariance, PTL
===============================================================================
