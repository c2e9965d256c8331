--------------------------- MODULE TaskRuntimeProofs ---------------------------
(***************************************************************************)
(* Theorems about TaskRuntime, for any number of tasks, callers and guards.*)
(***************************************************************************)
EXTENDS TaskRuntime, FiniteSetTheorems, TLAPS

\* Only tasks that were handed a GracefulShutdown hold guards; that is why the
\* ends of the others, at their first poll, can leave the counter alone.
GuardOwners ==
    \A g \in Guards : by[g] \in Tasks => kind[by[g]] \in GracefulKinds

\* Until its poll resolves the manager has taken nothing and fired nothing;
\* afterwards there is an event it took, or the runtime is going away.
ManagerInv ==
    /\ managerPc = "polling" => taken = {} /\ ~fired
    /\ managerPc # "polling" => taken # {} \/ down \/ ~handles

IInv == TypeOK /\ GuardCount /\ GuardOwners /\ ManagerInv

USE OwnersAssumption, GuardsAssumption, BoundsAssumption

-------------------------------------------------------------------------------
(* Guards and their counter.                                               *)

\* The set of live guards is finite, and the count is 0 only without any.
LEMMA LiveFinite ==
    /\ IsFiniteSet(Live)
    /\ Cardinality(Live) \in Nat
    /\ Cardinality(Live) = 0 => Live = {}
<1>1. IsFiniteSet(Live)
  BY FS_Subset DEF Live
<1>2. QED
  BY <1>1, FS_CardinalityType, FS_EmptySet

\* A new guard keeps the types and the count, and adds one live guard.
LEMMA NewGuardCounts ==
    ASSUME TypeOK, GuardCount, NEW a \in Owners, NewGuard(a)
    PROVE  /\ at' \in [Guards -> {"free", "future", "guard", "ignored"}]
           /\ by' \in [Guards -> Owners \cup {NoOne}]
           /\ gracefulTasks' \in Nat
           /\ gracefulTasks' = Cardinality(Live')
           /\ \A g \in Guards : at'[g] = "free" <=> by'[g] = NoOne
           /\ \A g \in Guards : by'[g] = by[g] \/ by'[g] = a
           /\ \E g \in Guards : g \notin Live /\ Live' = Live \cup {g}
<1>1. PICK g \in Guards : /\ at[g] = "free"
                          /\ at' = [at EXCEPT ![g] = "future"]
                          /\ by' = [by EXCEPT ![g] = a]
                          /\ gracefulTasks' = gracefulTasks + 1
  BY DEF NewGuard
<1>2. g \notin Live /\ Live' = Live \cup {g}
  BY <1>1 DEF Live, TypeOK
<1>3. Cardinality(Live') = Cardinality(Live) + 1
  BY <1>2, LiveFinite, FS_AddElement
<1>4. a # NoOne
  BY DEF Owners
<1>5. /\ at' \in [Guards -> {"free", "future", "guard", "ignored"}]
      /\ by' \in [Guards -> Owners \cup {NoOne}]
  BY <1>1 DEF TypeOK
<1>6. /\ gracefulTasks' \in Nat
      /\ gracefulTasks' = Cardinality(Live')
  BY <1>1, <1>3, LiveFinite DEF GuardCount
<1>7. \A h \in Guards : /\ at'[h] = "free" <=> by'[h] = NoOne
                        /\ by'[h] = by[h] \/ by'[h] = a
  BY <1>1, <1>4 DEF TypeOK, GuardCount
<1>8. QED
  BY <1>2, <1>5, <1>6, <1>7

\* So does the drop of one guard, which removes it.
LEMMA DropGuardCounts ==
    ASSUME TypeOK, GuardCount, NEW g \in Guards, by[g] \in Owners, DropGuard(g)
    PROVE  /\ at' \in [Guards -> {"free", "future", "guard", "ignored"}]
           /\ by' \in [Guards -> Owners \cup {NoOne}]
           /\ gracefulTasks' \in Nat
           /\ gracefulTasks' = Cardinality(Live')
           /\ \A h \in Guards : at'[h] = "free" <=> by'[h] = NoOne
           /\ \A h \in Guards : by'[h] = by[h] \/ by'[h] = NoOne
           /\ Live' = Live \ {g}
<1>1. g \in Live
  BY DEF Live, GuardCount, Owners
<1>2. Live' = Live \ {g}
  BY DEF Live, TypeOK, DropGuard
<1>3. /\ Cardinality(Live') = Cardinality(Live) - 1
      /\ Cardinality(Live') \in Nat
  BY <1>1, <1>2, LiveFinite, FS_RemoveElement, FS_CardinalityType
<1>4. gracefulTasks' = Cardinality(Live')
  BY <1>3 DEF DropGuard, GuardCount
<1>5. QED
  BY <1>2, <1>3, <1>4 DEF TypeOK, GuardCount, DropGuard

\* And the drop of a frame, which removes all guards in it.
LEMMA DropAllCounts ==
    ASSUME TypeOK, GuardCount, NEW a \in Owners, DropAll(a)
    PROVE  /\ at' \in [Guards -> {"free", "future", "guard", "ignored"}]
           /\ by' \in [Guards -> Owners \cup {NoOne}]
           /\ gracefulTasks' \in Nat
           /\ gracefulTasks' = Cardinality(Live')
           /\ \A g \in Guards : at'[g] = "free" <=> by'[g] = NoOne
           /\ \A g \in Guards : \/ by'[g] = by[g] /\ by[g] # a
                                \/ by'[g] = NoOne
           /\ Live' = Live \ HeldBy(a)
<1>1. a # NoOne
  BY DEF Owners
<1>2. HeldBy(a) \subseteq Live
  BY <1>1 DEF HeldBy, Live, GuardCount
<1>3. Live' = Live \ HeldBy(a)
  BY DEF HeldBy, Live, DropAll
<1>4. /\ Cardinality(Live') = Cardinality(Live) - Cardinality(HeldBy(a))
      /\ Cardinality(Live') \in Nat
  <2>1. Live \cap HeldBy(a) = HeldBy(a)
    BY <1>2
  <2>2. /\ IsFiniteSet(Live \ HeldBy(a))
        /\ Cardinality(Live \ HeldBy(a))
              = Cardinality(Live) - Cardinality(Live \cap HeldBy(a))
    BY LiveFinite, FS_Difference
  <2>3. QED
    BY <1>3, <2>1, <2>2, FS_CardinalityType
<1>5. gracefulTasks' = Cardinality(Live')
  BY <1>4 DEF DropAll, GuardCount
<1>6. at' \in [Guards -> {"free", "future", "guard", "ignored"}]
  BY DEF DropAll, TypeOK
<1>7. by' \in [Guards -> Owners \cup {NoOne}]
  BY DEF DropAll, TypeOK
<1>8. QED
  BY <1>1, <1>3, <1>4, <1>5, <1>6, <1>7 DEF DropAll, GuardCount

\* A send leaves a sequence of events, with the same head if it had one.
LEMMA SendKeepsHead ==
    ASSUME events \in Seq(TaskEvent), NEW e \in TaskEvent, Send(e)
    PROVE  /\ events' \in Seq(TaskEvent)
           /\ events # <<>> => events' # <<>> /\ Head(events') = Head(events)
           /\ events = <<>> => \/ events' = <<>>
                              \/ (events' # <<>> /\ Head(events') = e)
<1>1. events' = events \/ events' = Append(events, e)
  BY DEF Send
<1>2. CASE events' = events
  <2>1. Head(events') = Head(events)
    BY <1>2
  <2>2. QED
    BY <1>2, <2>1
<1>3. CASE events' = Append(events, e)
  <2>1. events' \in Seq(TaskEvent) /\ events' # <<>>
    BY <1>3
  <2>2. events # <<>> => Head(events') = Head(events)
    BY <1>3
  <2>3. events = <<>> => Head(events') = e
    BY <1>3
  <2>4. QED
    BY <2>1, <2>2, <2>3
<1>4. QED
  BY <1>1, <1>2, <1>3

\* The metrics stay natural numbers.
LEMMA MetricTypes ==
    ASSUME TypeOK
    PROVE  /\ \A k \in AllKinds : CountStart(k) => started' \in [Classes -> Nat]
           /\ \A t \in Tasks : CountFinish(t) => finished' \in [Classes -> Nat]
<1>1. \A k \in SelectKinds : Class(k) \in Classes
  BY DEF SelectKinds, Class, Classes, CriticalKinds
<1>2. QED
  BY <1>1 DEF TypeOK, CountStart, CountFinish

-------------------------------------------------------------------------------
(* The inductive invariant.                                                *)

LEMMA InitIInv == Init => IInv
<1>1. Init => Live = {}
  BY DEF Init, Live
<1>2. Init => TypeOK
  <2> SUFFICES ASSUME Init PROVE TypeOK
    OBVIOUS
  <2>1. events \in Seq(TaskEvent) /\ taken \in SUBSET TaskEvent
    BY DEF Init
  <2>2. /\ kind \in [Tasks -> AllKinds \cup {"none"}]
        /\ pc \in [Tasks -> Alive \cup Ended \cup {"none"}]
        /\ at \in [Guards -> {"free", "future", "guard", "ignored"}]
        /\ by \in [Guards -> Owners \cup {NoOne}]
    BY DEF Init
  <2>3. /\ call \in [Callers -> Answered \cup {"waiting", "timing", "initiating"}]
        /\ calls \in [Callers -> 0..MaxCalls]
    BY DEF Init, Answered
  <2>4. started \in [Classes -> Nat] /\ finished \in [Classes -> Nat]
    BY DEF Init
  <2>5. QED
    BY <2>1, <2>2, <2>3, <2>4 DEF Init, TypeOK
<1>3. Init => GuardCount
  BY <1>1, FS_EmptySet DEF Init, GuardCount
<1>4. Init => GuardOwners /\ ManagerInv
  BY DEF Init, GuardOwners, ManagerInv
<1>5. QED
  BY <1>2, <1>3, <1>4 DEF IInv

\* A task step keeps the invariant.  Where a task ends, DropAllCounts says that
\* none of its guards is left.
LEMMA TaskStepIInv ==
    ASSUME IInv, NEW t \in Tasks, TaskStep(t)
    PROVE  IInv'
<1> USE DEF IInv
<1>0. t \in Owners /\ t # NoOne
  BY DEF Owners
<1>1. ASSUME NEW k \in Kinds, SpawnPlain(t, k)
      PROVE  IInv'
  <2>1. TypeOK'
    BY <1>1, MetricTypes DEF TypeOK, SpawnPlain, managerVars, runtimeVars,
       guardVars, callVars, Alive
  <2>2. GuardCount' /\ GuardOwners'
    BY <1>1 DEF TypeOK, GuardCount, GuardOwners, SpawnPlain, guardVars, Live
  <2>3. ManagerInv'
    BY <1>1 DEF ManagerInv, SpawnPlain, managerVars, runtimeVars
  <2>4. QED
    BY <2>1, <2>2, <2>3
<1>2. ASSUME NEW k \in Kinds, SpawnGraceful(t, k)
      PROVE  IInv'
  <2>0. NewGuard(t)
    BY <1>2 DEF SpawnGraceful
  <2>1. TypeOK'
    BY <1>2, <1>0, <2>0, NewGuardCounts
    DEF TypeOK, SpawnGraceful, managerVars, runtimeVars, callVars, metricVars, Alive
  <2>2. GuardCount' /\ GuardOwners'
    BY <1>2, <1>0, <2>0, NewGuardCounts
    DEF TypeOK, GuardCount, GuardOwners, SpawnGraceful
  <2>3. ManagerInv'
    BY <1>2 DEF ManagerInv, SpawnGraceful, managerVars, runtimeVars
  <2>4. QED
    BY <2>1, <2>2, <2>3
<1>3. ASSUME NEW k \in Kinds, SpawnRejected(t, k)
      PROVE  IInv'
  <2>1. TypeOK'
    BY <1>3, MetricTypes DEF TypeOK, SpawnRejected, managerVars, runtimeVars,
       guardVars, callVars, Ended
  <2>2. \A g \in Guards : by[g] # t
    BY <1>3 DEF GuardCount, SpawnRejected
  <2>3. GuardCount'
    BY <1>3, <2>2 DEF TypeOK, GuardCount, SpawnRejected, guardVars, Live
  <2>4. GuardOwners'
    BY <1>3, <2>2 DEF TypeOK, GuardOwners, SpawnRejected, guardVars
  <2>5. ManagerInv'
    BY <1>3 DEF ManagerInv, SpawnRejected, managerVars, runtimeVars
  <2>6. QED
    BY <2>1, <2>3, <2>4, <2>5
<1>4. CASE FirstPoll(t)
  <2>1. TypeOK'
    BY <1>4, MetricTypes DEF TypeOK, FirstPoll, managerVars, runtimeVars,
       guardVars, callVars, Alive, Ended
  <2>2. kind[t] \in SelectKinds => \A g \in Guards : by[g] # t
    BY DEF GuardOwners, SelectKinds, GracefulKinds
  <2>3. GuardCount'
    <3>1. UNCHANGED guardVars /\ pc[t] = "ready" /\ Live' = Live
      BY <1>4 DEF FirstPoll, guardVars, Live
    <3>2. \/ pc' = [pc EXCEPT ![t] = "running"]
          \/ /\ kind[t] \in SelectKinds
             /\ \E p \in {"cancelled", "looked"} : pc' = [pc EXCEPT ![t] = p]
      BY <1>4 DEF FirstPoll
    <3>3. \A g \in Guards :
              by[g] \in Tasks => pc'[by[g]] \in {"ready", "running"}
      <4>1. pc \in [Tasks -> Alive \cup Ended \cup {"none"}]
            /\ \A g \in Guards : by[g] \in Tasks => pc[by[g]] \in {"ready", "running"}
        BY DEF TypeOK, GuardCount
      <4>2. CASE pc' = [pc EXCEPT ![t] = "running"]
        BY <4>1, <4>2
      <4>3. CASE kind[t] \in SelectKinds
        BY <2>2, <3>2, <4>1, <4>3
      <4>4. QED
        BY <3>2, <4>2, <4>3
    <3>4. QED
      BY <3>1, <3>3 DEF GuardCount, guardVars
  <2>4. GuardOwners'
    BY <1>4 DEF GuardOwners, FirstPoll, guardVars
  <2>5. ManagerInv'
    BY <1>4 DEF ManagerInv, FirstPoll, managerVars, runtimeVars
  <2>6. QED
    BY <2>1, <2>3, <2>4, <2>5
<1>8. CASE PollTask(t) \/ Yield(t) \/ Repoll(t)
  <2>1. /\ UNCHANGED <<managerVars, runtimeVars, kind, guardVars, callVars, metricVars>>
        /\ \E p \in {"looked", "running", "pending"} : pc' = [pc EXCEPT ![t] = p]
    BY <1>8 DEF PollTask, Yield, Repoll
  <2>2. TypeOK'
    BY <2>1 DEF TypeOK, managerVars, runtimeVars, guardVars, callVars, metricVars, Alive
  <2>3. kind[t] \in SelectKinds \/ pc[t] \in {"looked", "pending"}
    BY <1>8 DEF PollTask, Yield, Repoll
  <2>4. \A g \in Guards : by[g] # t
    BY <2>3 DEF GuardOwners, GuardCount, SelectKinds, GracefulKinds
  <2>5. GuardCount' /\ GuardOwners'
    BY <2>1, <2>4 DEF TypeOK, GuardCount, GuardOwners, guardVars, Live
  <2>6. ManagerInv'
    BY <2>1 DEF ManagerInv, managerVars, runtimeVars
  <2>7. QED
    BY <2>2, <2>5, <2>6
<1>5. CASE Cancel(t) \/ Complete(t) \/ Panic(t) \/ Abort(t)
  <2>1. /\ DropAll(t)
        /\ UNCHANGED <<managerVars, runtimeVars, kind, callVars, started>>
        /\ \E e \in Ended \cup {"unwound"} : pc' = [pc EXCEPT ![t] = e]
        /\ UNCHANGED finished \/ CountFinish(t)
    BY <1>5 DEF Cancel, Complete, Panic, Abort, Ended
  <2>2. TypeOK'
    BY <1>0, <2>1, DropAllCounts, MetricTypes
    DEF TypeOK, managerVars, runtimeVars, callVars, Alive
  <2>3. \A g \in Guards : by'[g] \in Tasks => by'[g] = by[g] /\ by[g] # t
    BY <1>0, <2>1, DropAllCounts
  <2>4. GuardCount'
    BY <1>0, <2>1, <2>3, DropAllCounts DEF TypeOK, GuardCount
  <2>5. GuardOwners'
    BY <2>1, <2>3 DEF GuardOwners
  <2>6. ManagerInv'
    BY <2>1 DEF ManagerInv, managerVars, runtimeVars
  <2>7. QED
    BY <2>2, <2>4, <2>5, <2>6
<1>6. CASE ReportPanic(t)
  <2>0. PanicEvent(t) \in TaskEvent
    BY DEF PanicEvent, TaskEvent
  <2>1. TypeOK'
    BY <1>6, <2>0, MetricTypes, SendKeepsHead DEF TypeOK, ReportPanic,
       runtimeVars, guardVars, callVars, Ended
  <2>2. GuardCount' /\ GuardOwners'
    BY <1>6 DEF TypeOK, GuardCount, GuardOwners, ReportPanic, guardVars, Live
  <2>3. ManagerInv'
    BY <1>6 DEF ManagerInv, ReportPanic, runtimeVars
  <2>4. QED
    BY <2>1, <2>2, <2>3
<1>7. QED
  BY <1>1, <1>2, <1>3, <1>4, <1>5, <1>6, <1>8 DEF TaskStep

\* So does what owners do with their guards.
LEMMA OwnerStepIInv ==
    ASSUME IInv, NEW a \in Owners, NEW g \in Guards, OwnerStep(a, g)
    PROVE  IInv'
<1> USE DEF IInv
<1>0. a # NoOne
  BY DEF Owners
<1>1. CASE AwaitShutdown(a, g) \/ IgnoreGuard(a, g)
  <2>1. /\ at[g] = "future"
        /\ at' = [at EXCEPT ![g] = "guard"] \/ at' = [at EXCEPT ![g] = "ignored"]
        /\ UNCHANGED <<managerVars, runtimeVars, taskVars, by, gracefulTasks,
                       callVars, metricVars>>
    BY <1>1 DEF AwaitShutdown, IgnoreGuard
  <2>2. Live' = Live
    BY <2>1 DEF TypeOK, Live
  <2>3. TypeOK'
    BY <2>1 DEF TypeOK, managerVars, runtimeVars, taskVars, callVars, metricVars
  <2>4. GuardCount' /\ GuardOwners'
    BY <2>1, <2>2 DEF TypeOK, GuardCount, GuardOwners, taskVars
  <2>5. ManagerInv'
    BY <2>1 DEF ManagerInv, managerVars, runtimeVars
  <2>6. QED
    BY <2>3, <2>4, <2>5
<1>2. CASE CloneShutdown(a, g)
  <2>1. NewGuard(a) /\ CanAct(a) /\ by[g] = a
    BY <1>2 DEF CloneShutdown
  <2>2. TypeOK'
    BY <1>2, <2>1, NewGuardCounts DEF TypeOK, CloneShutdown, managerVars,
       runtimeVars, taskVars, callVars, metricVars
  <2>3. GuardCount' /\ GuardOwners'
    BY <1>2, <2>1, NewGuardCounts
    DEF GuardCount, GuardOwners, CloneShutdown, taskVars, CanAct
  <2>4. ManagerInv'
    BY <1>2 DEF ManagerInv, CloneShutdown, managerVars, runtimeVars
  <2>5. QED
    BY <2>2, <2>3, <2>4
<1>3. CASE AwaitIgnored(a, g) \/ Release(a, g)
  <2>1. /\ DropGuard(g) /\ by[g] = a
        /\ UNCHANGED <<managerVars, runtimeVars, taskVars, callVars, metricVars>>
    BY <1>3 DEF AwaitIgnored, Release
  <2>2. TypeOK'
    BY <2>1, DropGuardCounts DEF TypeOK, managerVars, runtimeVars, taskVars,
       callVars, metricVars
  <2>3. GuardCount' /\ GuardOwners'
    BY <2>1, DropGuardCounts DEF GuardCount, GuardOwners, taskVars
  <2>4. ManagerInv'
    BY <2>1 DEF ManagerInv, managerVars, runtimeVars
  <2>5. QED
    BY <2>2, <2>3, <2>4
<1>4. QED
  BY <1>1, <1>2, <1>3 DEF OwnerStep

\* So do the steps of the TaskManager.
LEMMA ManagerStepIInv ==
    ASSUME IInv, ManagerStep
    PROVE  IInv'
<1> USE DEF IInv
<1>1. UNCHANGED <<runtimeVars, taskVars, guardVars, callVars, metricVars>>
  BY DEF ManagerStep, ManagerPoll, ManagerAborted, ManagerDropRx,
         ManagerDropSignal
<1>2. GuardCount' /\ GuardOwners'
  BY <1>1 DEF GuardCount, GuardOwners, guardVars, taskVars, Live
<1>3. TypeOK' /\ ManagerInv'
  <2>1. CASE ManagerPoll
    <3>1. CASE events # <<>>
      <4>1. Head(events) \in TaskEvent /\ Tail(events) \in Seq(TaskEvent)
        BY <3>1 DEF TypeOK
      <4>2. taken' = {Head(events)} /\ events' = Tail(events)
            /\ fired' \in BOOLEAN /\ managerPc' = "dropRx"
        BY <2>1, <3>1 DEF ManagerPoll
      <4>3. QED
        BY <1>1, <4>1, <4>2 DEF TypeOK, ManagerInv, runtimeVars, taskVars,
           guardVars, callVars, metricVars
    <3>2. CASE events = <<>>
      <4>1. /\ ~handles /\ fired' = TRUE /\ managerPc' = "dropRx"
            /\ UNCHANGED <<taken, events>>
        BY <2>1, <3>2 DEF ManagerPoll, SendersGone
      <4>2. QED
        BY <1>1, <4>1 DEF TypeOK, ManagerInv, runtimeVars, taskVars, guardVars,
           callVars, metricVars
    <3>3. QED
      BY <3>1, <3>2
  <2>2. CASE ManagerAborted
    BY <1>1, <2>2 DEF TypeOK, ManagerInv, ManagerAborted, runtimeVars, taskVars,
       guardVars, callVars, metricVars
  <2>3. CASE ManagerDropRx
    BY <1>1, <2>3 DEF TypeOK, ManagerInv, ManagerDropRx, runtimeVars, taskVars,
       guardVars, callVars, metricVars
  <2>4. CASE ManagerDropSignal
    BY <1>1, <2>4 DEF TypeOK, ManagerInv, ManagerDropSignal, runtimeVars,
       taskVars, guardVars, callVars, metricVars
  <2>5. QED
    BY <2>1, <2>2, <2>3, <2>4 DEF ManagerStep
<1>4. QED
  BY <1>2, <1>3

\* So do the calls.
LEMMA CallerStepIInv ==
    ASSUME IInv, NEW c \in Callers, CallerStep(c)
    PROVE  IInv'
<1> USE DEF IInv
<1>0. c \in Owners /\ c \notin Tasks
  BY DEF Owners
<1>1. ASSUME NEW how \in {"waiting", "timing"},
             CallShutdown(c, how) \/ InitiateSend(c)
      PROVE  IInv'
  <2>1. /\ Send(ShutdownEvent) /\ ShutdownEvent \in TaskEvent
        /\ calls[c] < MaxCalls /\ calls' = [calls EXCEPT ![c] = @ + 1]
        /\ \E r \in {"waiting", "timing", "initiating", "refused"} :
               call' = [call EXCEPT ![c] = r]
        /\ UNCHANGED <<managerPc, taken, fired, runtimeVars, taskVars, guardVars,
                       metricVars>>
    BY <1>1 DEF CallShutdown, InitiateSend, CanCall, ShutdownEvent, TaskEvent
  <2>2. events' \in Seq(TaskEvent)
    BY <2>1, SendKeepsHead DEF TypeOK
  <2>3. calls' \in [Callers -> 0..MaxCalls]
    BY <2>1 DEF TypeOK
  <2>4. call' \in [Callers -> Answered \cup {"waiting", "timing", "initiating"}]
    BY <2>1 DEF TypeOK, Answered
  <2>5. TypeOK'
    BY <2>1, <2>2, <2>3, <2>4 DEF TypeOK, runtimeVars, taskVars, guardVars,
       metricVars
  <2>6. GuardCount' /\ GuardOwners' /\ ManagerInv'
    BY <2>1 DEF GuardCount, GuardOwners, ManagerInv, runtimeVars, taskVars,
       guardVars, Live
  <2>7. QED
    BY <2>5, <2>6
<1>2. CASE SeeDrained(c) \/ SeeDeadline(c)
  <2>1. /\ call' \in [Callers -> Answered \cup {"waiting", "timing", "initiating"}]
        /\ UNCHANGED <<managerVars, runtimeVars, taskVars, guardVars, calls,
                       metricVars>>
    BY <1>2 DEF SeeDrained, SeeDeadline, TypeOK, Answered
  <2>2. TypeOK'
    BY <2>1 DEF TypeOK, managerVars, runtimeVars, taskVars, guardVars, metricVars
  <2>3. GuardCount' /\ GuardOwners' /\ ManagerInv'
    BY <2>1 DEF GuardCount, GuardOwners, ManagerInv, managerVars, runtimeVars,
       taskVars, guardVars, Live
  <2>4. QED
    BY <2>2, <2>3
<1>3. CASE InitiateReturn(c)
  <2>1. /\ NewGuard(c)
        /\ call' \in [Callers -> Answered \cup {"waiting", "timing", "initiating"}]
        /\ UNCHANGED <<managerVars, runtimeVars, taskVars, calls, metricVars>>
    BY <1>3 DEF InitiateReturn, TypeOK, Answered
  <2>2. TypeOK'
    BY <1>0, <2>1, NewGuardCounts DEF TypeOK, managerVars, runtimeVars, taskVars,
       metricVars
  <2>3. GuardCount' /\ GuardOwners'
    BY <1>0, <2>1, NewGuardCounts DEF GuardCount, GuardOwners, taskVars
  <2>4. ManagerInv'
    BY <2>1 DEF ManagerInv, managerVars, runtimeVars
  <2>5. QED
    BY <2>2, <2>3, <2>4
<1>4. QED
  BY <1>1, <1>2, <1>3 DEF CallerStep

LEMMA NextIInv == IInv /\ [Next]_vars => IInv'
<1> SUFFICES ASSUME IInv, [Next]_vars
             PROVE  IInv'
  OBVIOUS
<1>1. ASSUME NEW t \in Tasks, TaskStep(t)
      PROVE  IInv'
  BY <1>1, TaskStepIInv
<1>2. ASSUME NEW a \in Owners, NEW g \in Guards, OwnerStep(a, g)
      PROVE  IInv'
  BY <1>2, OwnerStepIInv
<1>3. CASE ManagerStep
  BY <1>3, ManagerStepIInv
<1>4. ASSUME NEW c \in Callers, CallerStep(c)
      PROVE  IInv'
  BY <1>4, CallerStepIInv
<1>5. CASE DropHandles \/ TokioShutdown \/ UNCHANGED vars
  <2>1. /\ UNCHANGED <<managerVars, taskVars, guardVars, callVars, metricVars>>
        /\ handles' \in BOOLEAN /\ down' \in BOOLEAN
        /\ (down => down') /\ (~handles => ~handles')
    <3>1. CASE DropHandles
      BY <3>1 DEF DropHandles, IInv, TypeOK
    <3>2. CASE TokioShutdown
      BY <3>2 DEF TokioShutdown, IInv, TypeOK
    <3>3. CASE UNCHANGED vars
      BY <3>3 DEF vars, runtimeVars, IInv, TypeOK
    <3>4. QED
      BY <1>5, <3>1, <3>2, <3>3
  <2>2. TypeOK'
    BY <2>1 DEF IInv, TypeOK, managerVars, taskVars, guardVars, callVars,
       metricVars
  <2>3. GuardCount' /\ GuardOwners' /\ ManagerInv'
    BY <2>1 DEF IInv, GuardCount, GuardOwners, ManagerInv, managerVars, taskVars,
       guardVars, Live
  <2>4. QED
    BY <2>2, <2>3 DEF IInv
<1>6. QED
  BY <1>1, <1>2, <1>3, <1>4, <1>5 DEF Next

\* The invariant that everything else rests on.
LEMMA Invariance == Spec => []IInv
  BY InitIInv, NextIInv, PTL DEF Spec

\* Type correctness; the guard counter is never negative, so fetch_sub of
\* GracefulShutdownGuard never wraps the AtomicUsize.
THEOREM TypeCorrect == Spec => []TypeOK
  BY Invariance, PTL DEF IInv

\* The counter that do_graceful_shutdown reads is the number of guards alive,
\* and every guard is in the frame of a task that has not ended or of a caller.
THEOREM GuardCountCorrect == Spec => []GuardCount
  BY Invariance, PTL DEF IInv

-------------------------------------------------------------------------------
(* TaskRuntime implements ShutdownContract.                                *)

\* The first event is a function of the manager's variables alone.
LEMMA FirstEventFrame ==
    UNCHANGED <<events, managerPc, taken>> => UNCHANGED FirstEvent
BY DEF FirstEvent

\* A send is the contract's report when nothing was reported, nothing otherwise.
LEMMA SendReports ==
    ASSUME IInv, NEW e \in TaskEvent, Send(e), UNCHANGED <<managerPc, taken>>
    PROVE  \/ UNCHANGED FirstEvent
           \/ FirstEvent = {} /\ FirstEvent' = {e}
<1>1. /\ events' \in Seq(TaskEvent)
      /\ events # <<>> => events' # <<>> /\ Head(events') = Head(events)
      /\ events = <<>> => \/ events' = <<>>
                          \/ (events' # <<>> /\ Head(events') = e)
  BY SendKeepsHead DEF IInv, TypeOK
<1>2. QED
  BY <1>1 DEF FirstEvent

LEMMA InitContract == Init => Contract!Init
BY DEF Init, Contract!Init, Live, FirstEvent

\* A task step: a graceful spawn joins, an end leaves, a panic reports.
LEMMA TaskStepContract ==
    ASSUME IInv, NEW t \in Tasks, TaskStep(t)
    PROVE  [Contract!Next]_(Contract!vars)
<1> USE DEF IInv
<1>0. t \in Owners
  BY DEF Owners
<1>1. ASSUME \/ \E k \in Kinds : SpawnPlain(t, k) \/ SpawnRejected(t, k)
             \/ FirstPoll(t) \/ PollTask(t) \/ Yield(t) \/ Repoll(t)
      PROVE  UNCHANGED Contract!vars
  BY <1>1, FirstEventFrame DEF SpawnPlain, SpawnRejected, FirstPoll, PollTask, Yield, Repoll, managerVars,
     runtimeVars, guardVars, callVars, Contract!vars, Live
<1>2. ASSUME NEW k \in Kinds, SpawnGraceful(t, k)
      PROVE  \E g \in Guards : Contract!Join(g)
  <2>1. \E g \in Guards : g \notin Live /\ Live' = Live \cup {g}
    BY <1>0, <1>2, NewGuardCounts DEF SpawnGraceful
  <2>2. UNCHANGED <<FirstEvent, down, handles, fired, call>>
    BY <1>2, FirstEventFrame DEF SpawnGraceful, managerVars, runtimeVars, callVars
  <2>3. QED
    BY <2>1, <2>2 DEF Contract!Join
<1>3. CASE Cancel(t) \/ Complete(t) \/ Panic(t) \/ Abort(t)
  <2>1. /\ DropAll(t)
        /\ UNCHANGED <<managerVars, runtimeVars, callVars>>
    BY <1>3 DEF Cancel, Complete, Panic, Abort
  <2>2. Live' = Live \ HeldBy(t) /\ HeldBy(t) \in SUBSET Guards
    BY <1>0, <2>1, DropAllCounts DEF HeldBy
  <2>3. UNCHANGED <<FirstEvent, down, handles, fired, call>>
    BY <2>1, FirstEventFrame DEF managerVars, runtimeVars, callVars
  <2>4. Contract!Leave(HeldBy(t))
    BY <2>2, <2>3 DEF Contract!Leave
  <2>5. QED
    BY <2>2, <2>4 DEF Contract!Next
<1>4. CASE ReportPanic(t)
  <2>1. PanicEvent(t) \in TaskEvent
    BY DEF PanicEvent, TaskEvent
  <2>2. \/ UNCHANGED FirstEvent
        \/ FirstEvent = {} /\ FirstEvent' = {PanicEvent(t)}
    BY <1>4, <2>1, SendReports DEF ReportPanic
  <2>3. UNCHANGED <<Live, down, handles, fired, call>>
    BY <1>4 DEF ReportPanic, runtimeVars, guardVars, callVars, Live
  <2>4. UNCHANGED Contract!vars \/ Contract!Report(PanicEvent(t))
    BY <2>2, <2>3 DEF Contract!vars, Contract!Report
  <2>5. QED
    BY <2>1, <2>4 DEF Contract!Next
<1>5. QED
  BY <1>1, <1>2, <1>3, <1>4 DEF TaskStep, Contract!Next

\* Owners only add guards, drop them, or leave the set as it is.
LEMMA OwnerStepContract ==
    ASSUME IInv, NEW a \in Owners, NEW g \in Guards, OwnerStep(a, g)
    PROVE  [Contract!Next]_(Contract!vars)
<1> USE DEF IInv
<1>1. UNCHANGED <<FirstEvent, down, handles, fired, call>>
  BY FirstEventFrame DEF OwnerStep, AwaitShutdown, CloneShutdown, IgnoreGuard,
     AwaitIgnored, Release, managerVars, runtimeVars, callVars
<1>2. CASE AwaitShutdown(a, g) \/ IgnoreGuard(a, g)
  <2>1. Live' = Live
    BY <1>2 DEF AwaitShutdown, IgnoreGuard, TypeOK, Live
  <2>2. QED
    BY <1>1, <2>1 DEF Contract!vars
<1>3. CASE CloneShutdown(a, g)
  <2>1. \E h \in Guards : h \notin Live /\ Live' = Live \cup {h}
    BY <1>3, NewGuardCounts DEF CloneShutdown
  <2>2. \E h \in Guards : Contract!Join(h)
    BY <1>1, <2>1 DEF Contract!Join
  <2>3. QED
    BY <2>2 DEF Contract!Next
<1>4. CASE AwaitIgnored(a, g) \/ Release(a, g)
  <2>1. Live' = Live \ {g}
    BY <1>4, DropGuardCounts DEF AwaitIgnored, Release
  <2>2. Contract!Leave({g})
    BY <1>1, <2>1 DEF Contract!Leave
  <2>3. QED
    BY <2>2 DEF Contract!Next
<1>5. QED
  BY <1>2, <1>3, <1>4 DEF OwnerStep

\* The manager fires the signal for a cause, and forgets an unread event only
\* when the runtime goes down under it.
LEMMA ManagerStepContract ==
    ASSUME IInv, ManagerStep
    PROVE  [Contract!Next]_(Contract!vars)
<1> USE DEF IInv
<1>1. UNCHANGED <<Live, down, handles, call>>
  BY DEF ManagerStep, ManagerPoll, ManagerAborted, ManagerDropRx,
     ManagerDropSignal, runtimeVars, guardVars, callVars, Live
<1>2. CASE ManagerPoll
  <2>1. UNCHANGED FirstEvent
    BY <1>2 DEF ManagerPoll, ManagerInv, FirstEvent
  <2>2. FirstEvent # {} \/ ~handles
    BY <1>2 DEF ManagerPoll, ManagerInv, FirstEvent, SendersGone
  <2>3. fired' = TRUE \/ UNCHANGED fired
    BY <1>2 DEF ManagerPoll, TypeOK
  <2>4. UNCHANGED Contract!vars \/ Contract!Signal
    BY <1>1, <2>1, <2>2, <2>3 DEF Contract!vars, Contract!Signal
  <2>5. QED
    BY <2>4 DEF Contract!Next
<1>3. CASE ManagerAborted
  <2>1. /\ down /\ ~fired /\ UNCHANGED fired
        /\ FirstEvent' = {}
    BY <1>3 DEF ManagerAborted, ManagerInv, FirstEvent
  <2>2. Contract!Abandon
    BY <1>1, <2>1 DEF Contract!Abandon
  <2>3. QED
    BY <2>2 DEF Contract!Next
<1>4. CASE ManagerDropRx
  <2>1. UNCHANGED <<FirstEvent, fired>>
    BY <1>4 DEF ManagerDropRx, FirstEvent
  <2>2. QED
    BY <1>1, <2>1 DEF Contract!vars
<1>5. CASE ManagerDropSignal
  <2>1. UNCHANGED FirstEvent /\ fired' = TRUE
    BY <1>5 DEF ManagerDropSignal, FirstEvent
  <2>2. FirstEvent # {} \/ down \/ ~handles
    BY <1>5 DEF ManagerDropSignal, ManagerInv, FirstEvent
  <2>3. Contract!Signal
    BY <1>1, <2>1, <2>2 DEF Contract!Signal
  <2>4. QED
    BY <2>3 DEF Contract!Next
<1>6. QED
  BY <1>2, <1>3, <1>4, <1>5 DEF ManagerStep

\* A caller is told true only when the counter, hence the set of live guards,
\* is empty.
LEMMA CallerStepContract ==
    ASSUME IInv, NEW c \in Callers, CallerStep(c)
    PROVE  [Contract!Next]_(Contract!vars)
<1> USE DEF IInv
<1> DEFINE Told == {d \in Callers : call[d] = "drained"}
<1>0. c \in Owners
  BY DEF Owners
<1>1. ASSUME NEW how \in {"waiting", "timing"},
             CallShutdown(c, how) \/ InitiateSend(c)
      PROVE  [Contract!Next]_(Contract!vars)
  <2>1. /\ Send(ShutdownEvent) /\ ShutdownEvent \in TaskEvent
        /\ \E r \in {"waiting", "timing", "initiating", "refused"} :
               call' = [call EXCEPT ![c] = r]
        /\ UNCHANGED <<managerPc, taken, fired, runtimeVars, guardVars>>
    BY <1>1 DEF CallShutdown, InitiateSend, ShutdownEvent, TaskEvent
  <2>2. \/ UNCHANGED FirstEvent
        \/ FirstEvent = {} /\ FirstEvent' = {ShutdownEvent}
    BY <2>1, SendReports
  <2>3. Told' = Told \ {c}
    BY <2>1 DEF TypeOK
  <2>4. UNCHANGED <<Live, down, handles, fired>>
    BY <2>1 DEF runtimeVars, guardVars, Live
  <2>5. Contract!Call(c, ShutdownEvent)
    BY <2>2, <2>3, <2>4 DEF Contract!Call
  <2>6. QED
    BY <2>1, <2>5 DEF Contract!Next
<1>2. CASE SeeDrained(c)
  <2>1. /\ Live = {}
        /\ UNCHANGED <<Live, FirstEvent, down, handles, fired>>
    BY <1>2, LiveFinite, FirstEventFrame
    DEF SeeDrained, GuardCount, guardVars, managerVars, runtimeVars, Live
  <2>2. Told' = Told \cup {c}
    BY <1>2 DEF SeeDrained, TypeOK
  <2>3. Contract!Return(c)
    BY <2>1, <2>2 DEF Contract!Return
  <2>4. QED
    BY <2>3 DEF Contract!Next
<1>3. CASE SeeDeadline(c)
  <2>1. UNCHANGED <<Live, FirstEvent, down, handles, fired>>
    BY <1>3, FirstEventFrame
    DEF SeeDeadline, guardVars, managerVars, runtimeVars, Live
  <2>2. Told' = Told
    BY <1>3 DEF SeeDeadline, TypeOK
  <2>3. QED
    BY <2>1, <2>2 DEF Contract!vars
<1>4. CASE InitiateReturn(c)
  <2>1. \E g \in Guards : g \notin Live /\ Live' = Live \cup {g}
    BY <1>0, <1>4, NewGuardCounts DEF InitiateReturn
  <2>2. UNCHANGED <<FirstEvent, down, handles, fired>>
    BY <1>4, FirstEventFrame DEF InitiateReturn, managerVars, runtimeVars
  <2>3. Told' = Told
    BY <1>4 DEF InitiateReturn, TypeOK
  <2>4. \E g \in Guards : Contract!Join(g)
    BY <2>1, <2>2, <2>3 DEF Contract!Join
  <2>5. QED
    BY <2>4 DEF Contract!Next
<1>5. QED
  BY <1>1, <1>2, <1>3, <1>4 DEF CallerStep

LEMMA NextContract == IInv /\ [Next]_vars => [Contract!Next]_(Contract!vars)
<1> SUFFICES ASSUME IInv, [Next]_vars
             PROVE  [Contract!Next]_(Contract!vars)
  OBVIOUS
<1>1. CASE DropHandles \/ TokioShutdown
  <2>1. /\ UNCHANGED <<Live, FirstEvent, fired, call>>
        /\ (down \/ ~handles)' = TRUE
    BY <1>1, FirstEventFrame
    DEF DropHandles, TokioShutdown, managerVars, guardVars, callVars, Live
  <2>2. Contract!Stop
    BY <2>1 DEF Contract!Stop
  <2>3. QED
    BY <2>2 DEF Contract!Next
<1>2. CASE UNCHANGED vars
  BY <1>2, FirstEventFrame
  DEF vars, managerVars, runtimeVars, guardVars, callVars, Contract!vars, Live
<1>3. QED
  BY <1>1, <1>2, TaskStepContract, OwnerStepContract, ManagerStepContract,
     CallerStepContract DEF Next

\* The runtime implements the contract: the first event reported decides the
\* manager's result, the signal has a cause, and a graceful_shutdown that
\* returns true does so at an instant without any guard.
THEOREM Implements == Spec => ImplementsContract
<1>1. Spec => Contract!Init /\ [][Contract!Next]_(Contract!vars)
  BY InitContract, NextContract, Invariance, PTL DEF Spec
<1>2. QED
  BY <1>1 DEF ImplementsContract, Contract!Spec

-------------------------------------------------------------------------------
(* A shutdown has a cause.                                                 *)

Requested == \E c \in Callers : calls[c] > 0
Panicked(t) == pc[t] = "panicked"

\* Every event in the channel, or taken from it, was put there by a panic that
\* has happened or by a call that was made.
Caused(e) == \/ e = ShutdownEvent /\ Requested
             \/ \E t \in Tasks : e = PanicEvent(t) /\ Panicked(t)

CauseInv ==
    /\ \A i \in 1..Len(events), e \in TaskEvent : events[i] = e => Caused(e)
    /\ taken = {} \/ \E e \in TaskEvent : taken = {e} /\ Caused(e)

\* Causes stay: calls are not taken back and a panicked task stays panicked.
LEMMA CausesStay ==
    ASSUME IInv, [Next]_vars, NEW e, Caused(e)
    PROVE  Caused(e)'
<1> USE DEF IInv
<1>1. Requested => Requested'
  <2> SUFFICES ASSUME NEW c \in Callers, calls[c] > 0 PROVE calls'[c] > 0
    BY DEF Requested
  <2>1. UNCHANGED calls \/ \E d \in Callers : calls' = [calls EXCEPT ![d] = @ + 1]
    BY DEF Next, TaskStep, OwnerStep, ManagerStep, CallerStep, vars, callVars,
       SpawnPlain, SpawnGraceful, SpawnRejected, FirstPoll, PollTask, Yield, Repoll, Cancel, Complete,
       Panic, ReportPanic, Abort, AwaitShutdown, CloneShutdown, IgnoreGuard,
       AwaitIgnored, Release, ManagerPoll, ManagerAborted, ManagerDropRx,
       ManagerDropSignal, CallShutdown, SeeDrained, SeeDeadline, InitiateSend,
       InitiateReturn, DropHandles, TokioShutdown
  <2>2. calls \in [Callers -> Nat]
    BY DEF TypeOK
  <2>3. QED
    BY <2>1, <2>2
<1>2. \A t \in Tasks : Panicked(t) => Panicked(t)'
  <2>1. \/ UNCHANGED pc
        \/ \E u \in Tasks, p \in Ended \cup Alive :
               pc[u] # "panicked" /\ pc' = [pc EXCEPT ![u] = p]
    <3>1. ASSUME NEW u \in Tasks, TaskStep(u)
          PROVE  \E p \in Ended \cup Alive :
                     pc[u] # "panicked" /\ pc' = [pc EXCEPT ![u] = p]
      BY <3>1 DEF TaskStep, SpawnPlain, SpawnGraceful, SpawnRejected, FirstPoll,
         PollTask, Yield, Repoll, Cancel, Complete, Panic, ReportPanic, Abort,
         Abortable, Alive, Ended
    <3>2. QED
      BY <3>1 DEF Next, OwnerStep, ManagerStep, CallerStep, vars, taskVars,
         AwaitShutdown, CloneShutdown, IgnoreGuard, AwaitIgnored, Release,
         ManagerPoll, ManagerAborted, ManagerDropRx, ManagerDropSignal,
         CallShutdown, SeeDrained, SeeDeadline, InitiateSend, InitiateReturn,
         DropHandles, TokioShutdown
  <2>2. ASSUME NEW t \in Tasks, pc[t] = "panicked"
        PROVE  pc'[t] = "panicked"
    BY <2>1, <2>2 DEF TypeOK
  <2>3. QED
    BY <2>2 DEF Panicked
<1>3. QED
  BY <1>1, <1>2 DEF Caused

\* What a step does to the channel: nothing, a send with its cause, a receive,
\* or the drop of the receiver.
LEMMA NextCauseInv == IInv /\ CauseInv /\ [Next]_vars => CauseInv'
<1> SUFFICES ASSUME IInv, CauseInv, [Next]_vars
             PROVE  CauseInv'
  OBVIOUS
<1>1. \A e : Caused(e) => Caused(e)'
  BY CausesStay
<1>2. CASE /\ UNCHANGED taken
           /\ \/ UNCHANGED events
              \/ events' = <<>>
              \/ \E e \in TaskEvent : events' = Append(events, e) /\ Caused(e)'
  <2>1. ASSUME NEW i \in 1..Len(events'), NEW e \in TaskEvent, events'[i] = e
        PROVE  Caused(e)'
    <3>1. CASE i \in 1..Len(events) /\ events'[i] = events[i]
      BY <1>1, <2>1, <3>1 DEF CauseInv
    <3>2. CASE ~(i \in 1..Len(events) /\ events'[i] = events[i])
      <4>1. events \in Seq(TaskEvent)
        BY DEF IInv, TypeOK
      <4>2. PICK d \in TaskEvent : events' = Append(events, d) /\ Caused(d)'
        BY <1>2, <2>1, <3>2
      <4>3. events'[i] = d
        BY <2>1, <3>2, <4>1, <4>2
      <4>4. QED
        BY <2>1, <4>2, <4>3
    <3>3. QED
      BY <3>1, <3>2
  <2>2. QED
    BY <1>1, <1>2, <2>1 DEF CauseInv
<1>3. CASE ManagerPoll
  <2>1. CASE events # <<>>
    <3>1. /\ Head(events) = events[1] /\ 1 \in 1..Len(events)
          /\ Head(events) \in TaskEvent
      BY <2>1 DEF IInv, TypeOK
    <3>2. taken' = {Head(events)} /\ events' = Tail(events)
      BY <1>3, <2>1 DEF ManagerPoll
    <3>3. \A e \in TaskEvent : e = Head(events) => Caused(e)'
      BY <1>1, <3>1 DEF CauseInv
    <3>4. \A i \in 1..Len(events') :
              i + 1 \in 1..Len(events) /\ events'[i] = events[i + 1]
      BY <2>1, <3>2 DEF IInv, TypeOK
    <3>5. \A i \in 1..Len(events'), e \in TaskEvent : events'[i] = e => Caused(e)'
      BY <1>1, <3>4 DEF CauseInv
    <3>6. QED
      BY <3>1, <3>2, <3>3, <3>5 DEF CauseInv
  <2>2. CASE events = <<>>
    BY <1>1, <1>2, <1>3, <2>2 DEF ManagerPoll
  <2>3. QED
    BY <2>1, <2>2
<1>4. CASE \E t \in Tasks : ReportPanic(t)
  <2>1. PICK t \in Tasks : ReportPanic(t)
    BY <1>4
  <2>2. PanicEvent(t) \in TaskEvent
    BY DEF PanicEvent, TaskEvent
  <2>3. Caused(PanicEvent(t))'
    BY <2>1 DEF ReportPanic, IInv, TypeOK, Caused, Panicked
  <2>4. QED
    BY <1>2, <2>1, <2>2, <2>3 DEF ReportPanic, Send
<1>5. CASE \E c \in Callers : \/ \E how \in {"waiting", "timing"} : CallShutdown(c, how)
                              \/ InitiateSend(c)
  <2>1. PICK c \in Callers : /\ calls' = [calls EXCEPT ![c] = @ + 1]
                             /\ Send(ShutdownEvent) /\ UNCHANGED taken
    BY <1>5 DEF CallShutdown, InitiateSend
  <2>2. ShutdownEvent \in TaskEvent
    BY DEF ShutdownEvent, TaskEvent
  <2>3. Requested'
    BY <2>1 DEF IInv, TypeOK, Requested
  <2>4. Caused(ShutdownEvent)'
    BY <2>3 DEF Caused, ShutdownEvent
  <2>5. QED
    BY <1>2, <2>1, <2>2, <2>4 DEF Send
<1>6. QED
  BY <1>2, <1>3, <1>4, <1>5 DEF Next, TaskStep, OwnerStep, ManagerStep, CallerStep, vars, managerVars,
     SpawnPlain, SpawnGraceful, SpawnRejected, FirstPoll, PollTask, Yield, Repoll, Cancel, Complete,
     Panic, Abort, AwaitShutdown, CloneShutdown, IgnoreGuard, AwaitIgnored,
     Release, ManagerAborted, ManagerDropRx, ManagerDropSignal, SeeDrained,
     SeeDeadline, InitiateReturn, DropHandles, TokioShutdown

\* The signal fires only for the panic the manager took, a request somebody
\* made, or the end of the runtime.
THEOREM CauseCorrect == Spec => []ShutdownHasCause
<1>1. Init => CauseInv
  BY DEF Init, CauseInv
<1>2. IInv /\ CauseInv => ShutdownHasCause
  <2> SUFFICES ASSUME IInv, CauseInv, fired
               PROVE  ShutdownHasCause
    BY DEF ShutdownHasCause
  <2>1. taken # {} \/ down \/ ~handles
    BY DEF IInv, ManagerInv, TypeOK
  <2>2. QED
    BY <2>1 DEF CauseInv, Caused, Requested, Panicked, ShutdownHasCause
<1>3. QED
  BY <1>1, <1>2, NextCauseInv, Invariance, PTL DEF Spec

-------------------------------------------------------------------------------
(* Shutdown and metrics, over the life of one task.                        *)

\* A task is in the balance of its class from its spawn to its end; one that is
\* dropped unpolled stays there.
Settled      == Ended \ {"dropped"}
Unsettled(m) == {t \in Tasks : /\ kind[t] \in SelectKinds
                               /\ Class(kind[t]) = m
                               /\ pc[t] \notin Settled}

MetricsInv ==
    /\ \A t \in Tasks : pc[t] = "none" => kind[t] = "none"
    /\ \A m \in Classes : /\ IsFiniteSet(Unsettled(m))
                          /\ started[m] - finished[m] = Cardinality(Unsettled(m))

LEMMA ClassOfSelect == \A k \in SelectKinds : Class(k) \in Classes
BY DEF SelectKinds, Class, Classes, CriticalKinds

\* A spawn adds a task to the balance of its class, if it has one.
LEMMA SpawnBalances ==
    ASSUME TypeOK, MetricsInv, NEW t \in Tasks, NEW k \in AllKinds, pc[t] = "none",
           NEW p \in {"ready", "dropped"},
           kind' = [kind EXCEPT ![t] = k], pc' = [pc EXCEPT ![t] = p],
           CountStart(k), UNCHANGED finished
    PROVE  MetricsInv'
<1>1. \A u \in Tasks : pc'[u] = "none" => kind'[u] = "none"
  BY DEF TypeOK, MetricsInv
<1>2. ASSUME NEW m \in Classes
      PROVE  /\ IsFiniteSet(Unsettled(m)')
             /\ started'[m] - finished'[m] = Cardinality(Unsettled(m)')
  <2>1. /\ IsFiniteSet(Unsettled(m)) /\ Cardinality(Unsettled(m)) \in Nat
        /\ started[m] - finished[m] = Cardinality(Unsettled(m))
    BY FS_CardinalityType DEF MetricsInv
  <2>2. started[m] \in Nat /\ finished[m] \in Nat
    BY DEF TypeOK
  <2>3. kind[t] \notin SelectKinds /\ t \notin Unsettled(m)
    BY DEF MetricsInv, SelectKinds, Unsettled
  <2>4. kind'[t] = k /\ pc'[t] \notin Settled
        /\ \A u \in Tasks \ {t} : kind'[u] = kind[u] /\ pc'[u] = pc[u]
    BY DEF TypeOK, Settled, Ended
  <2>5. CASE k \in SelectKinds /\ Class(k) = m
    <3>1. Unsettled(m)' = Unsettled(m) \cup {t}
      BY <2>4, <2>5 DEF Unsettled
    <3>2. started'[m] = started[m] + 1
      BY <2>5 DEF CountStart, TypeOK
    <3>3. IsFiniteSet(Unsettled(m)') /\ Cardinality(Unsettled(m)') = Cardinality(Unsettled(m)) + 1
      BY <2>1, <2>3, <3>1, FS_AddElement
    <3>4. QED
      BY <2>1, <2>2, <3>2, <3>3
  <2>6. CASE ~(k \in SelectKinds /\ Class(k) = m)
    <3>1. Unsettled(m)' = Unsettled(m)
      BY <2>3, <2>4, <2>6 DEF Unsettled
    <3>2. started'[m] = started[m]
      BY <2>6, ClassOfSelect DEF CountStart, TypeOK
    <3>3. QED
      BY <2>1, <3>1, <3>2
  <2>7. QED
    BY <2>5, <2>6
<1>3. QED
  BY <1>1, <1>2 DEF MetricsInv

\* The end of a task takes it out of the balance of its class.
LEMMA EndBalances ==
    ASSUME TypeOK, MetricsInv, NEW t \in Tasks, pc[t] \in Alive,
           NEW p \in Settled, pc' = [pc EXCEPT ![t] = p],
           CountFinish(t), UNCHANGED <<kind, started>>
    PROVE  MetricsInv'
<1>1. \A u \in Tasks : pc'[u] = "none" => kind'[u] = "none"
  BY DEF TypeOK, MetricsInv, Settled, Ended
<1>2. ASSUME NEW m \in Classes
      PROVE  /\ IsFiniteSet(Unsettled(m)')
             /\ started'[m] - finished'[m] = Cardinality(Unsettled(m)')
  <2>1. /\ IsFiniteSet(Unsettled(m)) /\ Cardinality(Unsettled(m)) \in Nat
        /\ started[m] - finished[m] = Cardinality(Unsettled(m))
    BY FS_CardinalityType DEF MetricsInv
  <2>2. started[m] \in Nat /\ finished[m] \in Nat
    BY DEF TypeOK
  <2>3. pc[t] \notin Settled /\ pc'[t] \in Settled
        /\ \A u \in Tasks \ {t} : kind'[u] = kind[u] /\ pc'[u] = pc[u]
    BY DEF TypeOK, Alive, Settled, Ended
  <2>4. CASE kind[t] \in SelectKinds /\ Class(kind[t]) = m
    <3>1. t \in Unsettled(m) /\ Unsettled(m)' = Unsettled(m) \ {t}
      BY <2>3, <2>4 DEF Unsettled
    <3>2. finished'[m] = finished[m] + 1
      BY <2>4 DEF CountFinish, TypeOK
    <3>3. IsFiniteSet(Unsettled(m)') /\ Cardinality(Unsettled(m)') = Cardinality(Unsettled(m)) - 1
      BY <2>1, <3>1, FS_RemoveElement
    <3>4. QED
      BY <2>1, <2>2, <3>2, <3>3
  <2>5. CASE ~(kind[t] \in SelectKinds /\ Class(kind[t]) = m)
    <3>1. Unsettled(m)' = Unsettled(m)
      BY <2>3, <2>5 DEF Unsettled
    <3>2. finished'[m] = finished[m]
      BY <2>5, ClassOfSelect DEF CountFinish, TypeOK
    <3>3. QED
      BY <2>1, <3>1, <3>2
  <2>6. QED
    BY <2>4, <2>5
<1>3. QED
  BY <1>1, <1>2 DEF MetricsInv

\* A step on the way leaves it there.
LEMMA MoveBalances ==
    ASSUME TypeOK, MetricsInv, NEW t \in Tasks, pc[t] \in Alive,
           NEW p \in (Alive \ {"ready"}) \cup {"dropped"}, pc' = [pc EXCEPT ![t] = p],
           UNCHANGED <<kind, started, finished>>
    PROVE  MetricsInv'
<1>1. \A u \in Tasks : pc'[u] = "none" => kind'[u] = "none"
  BY DEF TypeOK, MetricsInv, Alive
<1>2. \A u \in Tasks : pc'[u] \in Settled <=> pc[u] \in Settled
  BY DEF TypeOK, Settled, Alive, Ended
<1>3. \A m \in Classes : Unsettled(m)' = Unsettled(m)
  BY <1>2 DEF Unsettled
<1>4. QED
  BY <1>1, <1>3 DEF MetricsInv

LEMMA NextMetricsInv == IInv /\ MetricsInv /\ [Next]_vars => MetricsInv'
<1> SUFFICES ASSUME IInv, MetricsInv, [Next]_vars
             PROVE  MetricsInv'
  OBVIOUS
<1>1. TypeOK
  BY DEF IInv
<1>2. CASE UNCHANGED <<taskVars, metricVars>>
  <2>1. \A m \in Classes : Unsettled(m)' = Unsettled(m)
    BY <1>2 DEF Unsettled, taskVars
  <2>2. QED
    BY <1>2, <2>1 DEF MetricsInv, taskVars, metricVars
<1>3. ASSUME NEW t \in Tasks, TaskStep(t) PROVE MetricsInv'
  <2>1. ASSUME NEW k \in Kinds, SpawnPlain(t, k) PROVE MetricsInv'
    BY <1>1, <2>1, SpawnBalances DEF SpawnPlain
  <2>2. ASSUME NEW k \in Kinds, SpawnGraceful(t, k) PROVE MetricsInv'
    <3>1. CountStart(k)
      BY <2>2 DEF SpawnGraceful, CountStart, GracefulKinds, SelectKinds, metricVars
    <3>2. QED
      BY <1>1, <2>2, <3>1, SpawnBalances DEF SpawnGraceful, metricVars
  <2>3. ASSUME NEW k \in Kinds, SpawnRejected(t, k) PROVE MetricsInv'
    BY <1>1, <2>3, SpawnBalances DEF SpawnRejected
  <2>4. CASE FirstPoll(t)
    <3>1. CASE pc' = [pc EXCEPT ![t] = "cancelled"] /\ CountFinish(t)
      BY <1>1, <2>4, <3>1, EndBalances DEF FirstPoll, Settled, Alive, Ended
    <3>2. CASE /\ \E p \in {"looked", "running"} : pc' = [pc EXCEPT ![t] = p]
               /\ UNCHANGED finished
      BY <1>1, <2>4, <3>2, MoveBalances DEF FirstPoll, Alive
    <3>3. QED
      BY <2>4, <3>1, <3>2 DEF FirstPoll
  <2>5. CASE Cancel(t) \/ Complete(t)
    BY <1>1, <2>5, EndBalances DEF Cancel, Complete, Settled, Alive, Ended
  <2>10. CASE PollTask(t) \/ Yield(t) \/ Repoll(t)
    BY <1>1, <2>10, MoveBalances DEF PollTask, Yield, Repoll, Alive, metricVars
  <2>6. CASE Panic(t)
    <3>1. CASE pc' = [pc EXCEPT ![t] = "unwound"] /\ UNCHANGED finished
      BY <1>1, <2>6, <3>1, MoveBalances DEF Panic, Alive
    <3>2. CASE pc' = [pc EXCEPT ![t] = "panicked"] /\ CountFinish(t)
      BY <1>1, <2>6, <3>2, EndBalances DEF Panic, Settled, Alive, Ended
    <3>3. QED
      BY <2>6, <3>1, <3>2 DEF Panic
  <2>7. CASE ReportPanic(t)
    BY <1>1, <2>7, EndBalances DEF ReportPanic, Settled, Alive, Ended
  <2>8. CASE Abort(t)
    <3>1. CASE pc[t] = "ready" /\ pc' = [pc EXCEPT ![t] = "dropped"] /\ UNCHANGED finished
      BY <1>1, <2>8, <3>1, MoveBalances DEF Abort, Alive
    <3>2. CASE Abortable(t) /\ pc' = [pc EXCEPT ![t] = "aborted"] /\ CountFinish(t)
      BY <1>1, <2>8, <3>2, EndBalances DEF Abort, Abortable, Settled, Alive, Ended
    <3>3. QED
      BY <2>8, <3>1, <3>2 DEF Abort
  <2>9. QED
    BY <1>3, <2>1, <2>2, <2>3, <2>4, <2>5, <2>6, <2>7, <2>8, <2>10 DEF TaskStep
<1>4. QED
  BY <1>2, <1>3 DEF Next, OwnerStep, ManagerStep, CallerStep, vars,
     AwaitShutdown, CloneShutdown, IgnoreGuard, AwaitIgnored, Release,
     ManagerPoll, ManagerAborted, ManagerDropRx, ManagerDropSignal, CallShutdown,
     SeeDrained, SeeDeadline, InitiateSend, InitiateReturn, DropHandles, TokioShutdown

LEMMA MetricsInvariance == Spec => []MetricsInv
<1>1. Init => MetricsInv
  <2> SUFFICES ASSUME Init, NEW m \in Classes
               PROVE  /\ IsFiniteSet(Unsettled(m))
                      /\ started[m] - finished[m] = Cardinality(Unsettled(m))
    BY DEF Init, MetricsInv
  <2>1. Unsettled(m) = {}
    BY DEF Init, Unsettled, SelectKinds
  <2>2. QED
    BY <2>1, FS_EmptySet DEF Init
<1>2. QED
  BY <1>1, NextMetricsInv, Invariance, PTL DEF Spec

\* Spawned minus finished is the tasks that have not ended and those dropped
\* unpolled, in every class, however tasks end.
THEOREM MetricsCorrect == Spec => []MetricsBalance
<1>1. MetricsInv => MetricsBalance
  BY DEF MetricsInv, MetricsBalance, Unsettled, Settled
<1>2. QED
  BY <1>1, MetricsInvariance, PTL

\* Once the signal has fired, the code of a task that the runtime is to stop is
\* entered at most once more: whoever is then before its first poll or between
\* two polls looks at the signal first.
THEOREM NoWorkCorrect == Spec => NoWorkAfterShutdown
<1>1. ASSUME NEW t \in Tasks
      PROVE  Spec => [](Stopping(t) => [](pc[t] # "running"))
  <2>1. IInv /\ MetricsInv /\ Stopping(t) /\ [Next]_vars => Stopping(t)'
    <3> SUFFICES ASSUME IInv, MetricsInv, Stopping(t), [Next]_vars PROVE Stopping(t)'
      OBVIOUS
    <3>1. fired'
      BY DEF Stopping, IInv, TypeOK, Next, TaskStep, OwnerStep, ManagerStep, CallerStep,
         vars, managerVars, SpawnPlain, SpawnGraceful, SpawnRejected, FirstPoll,
         PollTask, Yield, Repoll, Cancel, Complete, Panic, ReportPanic, Abort,
         AwaitShutdown, CloneShutdown, IgnoreGuard, AwaitIgnored, Release,
         ManagerPoll, ManagerAborted, ManagerDropRx, ManagerDropSignal,
         CallShutdown, SeeDrained, SeeDeadline, InitiateSend, InitiateReturn,
         DropHandles, TokioShutdown
    <3>2. CASE UNCHANGED taskVars
      BY <3>1, <3>2 DEF Stopping, taskVars
    <3>3. ASSUME NEW u \in Tasks, TaskStep(u)
          PROVE  kind'[t] \in SelectKinds /\ pc'[t] \notin {"looked", "running"}
      <4>1. pc \in [Tasks -> Alive \cup Ended \cup {"none"}]
            /\ kind \in [Tasks -> AllKinds \cup {"none"}] /\ fired
        BY DEF IInv, TypeOK, Stopping
      <4>2. CASE u = t
        <5>1. \A k \in Kinds : ~SpawnPlain(t, k) /\ ~SpawnGraceful(t, k) /\ ~SpawnRejected(t, k)
          BY DEF MetricsInv, Stopping, SpawnPlain, SpawnGraceful, SpawnRejected, SelectKinds
        <5>2. CASE PollTask(t) \/ Yield(t) \/ Repoll(t) \/ Complete(t) \/ Panic(t)
          BY <4>1, <5>2 DEF Stopping, PollTask, Yield, Repoll, Complete, Panic
        <5>3. CASE FirstPoll(t) \/ Cancel(t) \/ ReportPanic(t) \/ Abort(t)
          BY <4>1, <5>3 DEF Stopping, FirstPoll, Cancel, ReportPanic, Abort
        <5>4. QED
          BY <3>3, <4>2, <5>1, <5>2, <5>3 DEF TaskStep
      <4>3. CASE u # t
        BY <3>3, <4>1, <4>3 DEF Stopping, TaskStep, SpawnPlain, SpawnGraceful,
           SpawnRejected, FirstPoll, PollTask, Yield, Repoll, Cancel, Complete, Panic,
           ReportPanic, Abort
      <4>4. QED
        BY <4>2, <4>3
    <3>4. QED
      BY <3>1, <3>2, <3>3 DEF Stopping, Next, OwnerStep, ManagerStep, CallerStep, vars,
         AwaitShutdown, CloneShutdown, IgnoreGuard, AwaitIgnored, Release,
         ManagerPoll, ManagerAborted, ManagerDropRx, ManagerDropSignal, CallShutdown,
         SeeDrained, SeeDeadline, InitiateSend, InitiateReturn, DropHandles, TokioShutdown
  <2>2. Stopping(t) => pc[t] # "running"
    BY DEF Stopping
  <2>3. QED
    BY <2>1, <2>2, Invariance, MetricsInvariance, PTL DEF Spec
<1>2. QED
  BY <1>1 DEF NoWorkAfterShutdown
===============================================================================
