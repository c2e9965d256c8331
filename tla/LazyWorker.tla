------------------------------ MODULE LazyWorker ------------------------------
(***************************************************************************)
(* Named worker threads and lazy handles (worker_map.rs, lazy.rs, and the  *)
(* spawn_blocking_named, spawn_drop of runtime.rs).  A closure sent to a   *)
(* name runs on that name's thread, after those sent before it; its result *)
(* goes through a oneshot channel to a LazyHandle, whose clones may be     *)
(* asked for it by several threads; dropping the last Runtime closes the   *)
(* workers and joins them.  Task t stands for a closure, its channel and   *)
(* its handle.  Actors are client threads and closures that run.           *)
(***************************************************************************)
EXTENDS Integers, Sequences, FiniteSets, Functions

CONSTANTS Clients,    \* threads outside of the workers
          Spawners,   \* those of them that have a clone of Runtime
          Tasks,      \* one per spawn, or per LazyHandle::ready
          Names,      \* names of workers
          None        \* no task, no name

ASSUME ActorsAssumption == Clients \cap Tasks = {} /\ Spawners \subseteq Clients

Actors == Clients \cup Tasks

ASSUME NoneAssumption == None \notin Actors \cup Names /\ Names \cap Tasks = {}

VARIABLES
    worker,     \* of each name: absent, waiting, running, ended
    cur,        \* the task it runs
    queue,      \* its channel
    txOpen,     \* the map still has the sender of that channel
    order,      \* history: every task sent to it
    chan,       \* result channel of each task: none, open, value, closed;
                \* "ready" for LazyHandle::ready
    cell, rx,   \* the OnceLock, the Mutex<Option<Receiver>> of its handle
    holds,      \* actors with a clone of the handle
    moved,      \* tasks whose value try_into_inner has moved out
    runtimes,   \* actors with a clone of Runtime
    dropped,    \* WorkerMap::drop has returned
    doing, on,  \* of each actor: its place in a call, what that call is about
    into        \* the call is try_into_inner, not get

workerVars == <<worker, cur, queue, txOpen, order>>
handleVars == <<cell, rx, holds, moved>>
mapVars    == <<runtimes, dropped>>
callVars   == <<doing, on, into>>
vars == <<workerVars, chan, handleVars, mapVars, callVars>>

Init ==
    /\ worker = [n \in Names |-> "absent"]
    /\ cur = [n \in Names |-> None]
    /\ queue = [n \in Names |-> <<>>]
    /\ txOpen = [n \in Names |-> FALSE]
    /\ order = [n \in Names |-> <<>>]
    /\ chan = [t \in Tasks |-> "none"]
    /\ cell = [t \in Tasks |-> "empty"]
    /\ rx = [t \in Tasks |-> "some"]
    /\ holds = [t \in Tasks |-> {}]
    /\ moved = {}
    /\ runtimes = Spawners
    /\ dropped = FALSE
    /\ doing = [a \in Actors |-> "idle"]
    /\ on = [a \in Actors |-> None]
    /\ into = [a \in Actors |-> FALSE]

Running(t) == \E n \in Names : cur[n] = t

CanAct(a) == (a \in Tasks => Running(a)) /\ doing[a] = "idle"

-------------------------------------------------------------------------------
(* Spawning.                                                               *)

\* Mutant: the channel is a stack.
SpawnOnTop(n, t) ==
    /\ worker' = [worker EXCEPT ![n] = IF @ = "absent" THEN "waiting" ELSE @]
    /\ txOpen' = [txOpen EXCEPT ![n] = TRUE]
    /\ queue' = [queue EXCEPT ![n] = <<t>> \o @]

\* WorkerMap::spawn_on: the entry of the name, inserted with its thread when
\* there is none, and the send.  An entry is never removed before the drop.
SpawnOn(n, t) ==
    /\ worker' = [worker EXCEPT ![n] = IF @ = "absent" THEN "waiting" ELSE @]
    /\ txOpen' = [txOpen EXCEPT ![n] = TRUE]
    /\ queue' = [queue EXCEPT ![n] = Append(@, t)]

\* spawn_blocking_named keeps the handle, spawn_drop does not; the closure may
\* own a clone of Runtime.
Spawn(a, t, n, keep, owning) ==
    /\ CanAct(a) /\ a \in runtimes
    /\ chan[t] = "none"
    /\ SpawnOn(n, t)
    /\ order' = [order EXCEPT ![n] = Append(@, t)]
    /\ chan' = [chan EXCEPT ![t] = "open"]
    /\ holds' = [holds EXCEPT ![t] = keep]
    /\ runtimes' = runtimes \cup owning
    /\ UNCHANGED <<cur, cell, rx, moved, dropped, callVars>>

\* LazyHandle::ready.
Ready(a, t) ==
    /\ CanAct(a)
    /\ chan[t] = "none"
    /\ chan' = [chan EXCEPT ![t] = "ready"]
    /\ cell' = [cell EXCEPT ![t] = "set"]
    /\ rx' = [rx EXCEPT ![t] = "none"]
    /\ holds' = [holds EXCEPT ![t] = {a}]
    /\ UNCHANGED <<workerVars, moved, mapVars, callVars>>

\* A clone of a handle, given to a client or put where a closure that has not
\* begun will find it.
Share(a, b, t) ==
    /\ CanAct(a) /\ a \in holds[t]
    /\ b \in Clients \/ \E n \in Names : b \in Range(queue[n])
    /\ holds' = [holds EXCEPT ![t] = @ \cup {b}]
    /\ UNCHANGED <<workerVars, chan, cell, rx, moved, mapVars, callVars>>

DropHandle(a, t) ==
    /\ CanAct(a) /\ a \in holds[t]
    /\ holds' = [holds EXCEPT ![t] = @ \ {a}]
    /\ UNCHANGED <<workerVars, chan, cell, rx, moved, mapVars, callVars>>

-------------------------------------------------------------------------------
(* The worker's loop.                                                      *)

WorkerTake(n) ==
    /\ worker[n] = "waiting"
    /\ queue[n] # <<>>
    /\ worker' = [worker EXCEPT ![n] = "running"]
    /\ cur' = [cur EXCEPT ![n] = Head(queue[n])]
    /\ queue' = [queue EXCEPT ![n] = Tail(@)]
    /\ UNCHANGED <<txOpen, order, chan, handleVars, mapVars, callVars>>

\* blocking_recv answers None: no sender, and nothing left to receive.
WorkerEnd(n) ==
    /\ worker[n] = "waiting"
    /\ queue[n] = <<>> /\ ~txOpen[n]
    /\ worker' = [worker EXCEPT ![n] = "ended"]
    /\ UNCHANGED <<cur, queue, txOpen, order, chan, handleVars, mapVars, callVars>>

\* The closure returned, what it owned is gone; its result is sent.
Finish(n) ==
    LET t == cur[n] IN
    /\ worker[n] = "running"
    /\ doing[t] = "idle"
    /\ t \notin runtimes /\ \A u \in Tasks : t \notin holds[u]
    /\ chan' = [chan EXCEPT ![t] = "value"]
    /\ worker' = [worker EXCEPT ![n] = "waiting"]
    /\ cur' = [cur EXCEPT ![n] = None]
    /\ UNCHANGED <<queue, txOpen, order, handleVars, mapVars, callVars>>

\* Mutant: the handles a closure had are leaked when it panics.
UnwindLeaking(t, n) ==
    /\ cur[n] = t
    /\ chan' = [chan EXCEPT ![t] = "closed"]
    /\ worker' = [worker EXCEPT ![n] = "waiting"]
    /\ cur' = [cur EXCEPT ![n] = None]
    /\ UNCHANGED <<queue, order, holds>>

\* A panic unwinds the closure of t on worker n, which drops its handles and
\* the sender of its result; catch_unwind keeps the worker alive.
Unwind(t, n) ==
    /\ cur[n] = t
    /\ chan' = [chan EXCEPT ![t] = "closed"]
    /\ worker' = [worker EXCEPT ![n] = "waiting"]
    /\ cur' = [cur EXCEPT ![n] = None]
    /\ holds' = [u \in Tasks |-> holds[u] \ {t}]
    /\ UNCHANGED <<queue, order>>

\* A closure that panics owns no Runtime any more: the drop of the last one
\* while unwinding could panic again and abort the process.
ClosurePanics(n) ==
    LET t == cur[n] IN
    /\ worker[n] = "running"
    /\ doing[t] = "idle" /\ t \notin runtimes
    /\ Unwind(t, n)
    /\ UNCHANGED <<txOpen, cell, rx, moved, mapVars, callVars>>

-------------------------------------------------------------------------------
(* LazyHandle::get and try_into_inner.                                     *)

Asks(a, t, consume) ==
    /\ CanAct(a) /\ a \in holds[t]
    /\ a \in Tasks => a \notin runtimes
    /\ doing' = [doing EXCEPT ![a] = "enter"]
    /\ on' = [on EXCEPT ![a] = t]
    /\ into' = [into EXCEPT ![a] = consume]
    /\ UNCHANGED <<workerVars, chan, handleVars, mapVars>>

Answered(a) ==
    /\ doing' = [doing EXCEPT ![a] = "idle"]
    /\ on' = [on EXCEPT ![a] = None]
    /\ into' = [into EXCEPT ![a] = FALSE]

\* get has the value: try_into_inner goes on.
HasValue(a) ==
    \/ ~into[a] /\ Answered(a)
    \/ /\ into[a]
       /\ doing' = [doing EXCEPT ![a] = "unwrap"]
       /\ UNCHANGED <<on, into>>

\* get panics: in a client's thread, which loses a handle it had moved into
\* the call, or through the closure that called it.
Fails(a) ==
    /\ Answered(a)
    /\ UNCHANGED <<txOpen, moved, mapVars>>
    /\ \/ /\ a \in Clients
          /\ holds' = IF into[a] THEN [holds EXCEPT ![on[a]] = @ \ {a}] ELSE holds
          /\ UNCHANGED <<worker, cur, queue, order, chan>>
       \/ \E n \in Names : Unwind(a, n)

\* lock, take, recv: the initializer has the receiver, or panics because it is
\* gone.  That panic happens under the lock, and poisons it for the next ones.
TakeReceiver(a) ==
    LET t == on[a] IN
    \/ /\ rx[t] = "some"
       /\ rx' = [rx EXCEPT ![t] = "none"]
       /\ cell' = [cell EXCEPT ![t] = "busy"]
       /\ doing' = [doing EXCEPT ![a] = "recv"]
       /\ UNCHANGED <<workerVars, chan, holds, moved, mapVars, on, into>>
    \/ /\ rx[t] # "some"
       /\ rx' = [rx EXCEPT ![t] = "poisoned"]
       /\ UNCHANGED cell
       /\ Fails(a)

\* Mutant: no OnceLock, a getter that finds no value goes for the receiver.
EnterUnlocked(a) ==
    /\ doing[a] = "enter"
    /\ \/ cell[on[a]] = "set" /\ HasValue(a)
          /\ UNCHANGED <<workerVars, chan, handleVars, mapVars>>
       \/ cell[on[a]] # "set" /\ TakeReceiver(a)

\* get_or_init: one initializer at a time; the others wait while it is busy,
\* and one of them takes over when it panics.
Enter(a) ==
    /\ doing[a] = "enter"
    /\ \/ cell[on[a]] = "set" /\ HasValue(a)
          /\ UNCHANGED <<workerVars, chan, handleVars, mapVars>>
       \/ cell[on[a]] = "empty" /\ TakeReceiver(a)

\* Mutant: a panic of the initializer leaves the cell busy.
ReceiveOnce(a) ==
    LET t == on[a] IN
    /\ doing[a] = "recv"
    /\ \/ /\ chan[t] = "value"
          /\ cell' = [cell EXCEPT ![t] = "set"]
          /\ HasValue(a)
          /\ UNCHANGED <<workerVars, chan, rx, holds, moved, mapVars>>
       \/ /\ chan[t] = "closed"
          /\ UNCHANGED <<cell, rx>>
          /\ Fails(a)

Receive(a) ==
    LET t == on[a] IN
    /\ doing[a] = "recv"
    /\ \/ /\ chan[t] = "value"
          /\ cell' = [cell EXCEPT ![t] = "set"]
          /\ HasValue(a)
          /\ UNCHANGED <<workerVars, chan, rx, holds, moved, mapVars>>
       \/ /\ chan[t] = "closed"
          /\ cell' = [cell EXCEPT ![t] = "empty"]
          /\ UNCHANGED rx
          /\ Fails(a)

\* Mutant: unwrap that leaves the clone of one other thread out of account.
UnwrapShared(a) ==
    LET t == on[a] IN
    /\ doing[a] = "unwrap"
    /\ holds' = [holds EXCEPT ![t] = @ \ {a}]
    /\ moved' = IF Cardinality(holds[t]) < 3 THEN moved \cup {t} ELSE moved
    /\ Answered(a)
    /\ UNCHANGED <<workerVars, chan, cell, rx, mapVars>>

\* Arc::try_unwrap: the value, if no other clone is left, or the handle again.
Unwrap(a) ==
    LET t == on[a] IN
    /\ doing[a] = "unwrap"
    /\ \/ /\ holds[t] = {a}
          /\ holds' = [holds EXCEPT ![t] = {}]
          /\ moved' = moved \cup {t}
          /\ Answered(a)
       \/ /\ holds[t] # {a}
          /\ UNCHANGED <<holds, moved>>
          /\ Answered(a)
    /\ UNCHANGED <<workerVars, chan, cell, rx, mapVars>>

-------------------------------------------------------------------------------
(* The drop of Runtime: the last one drops the WorkerMap.                  *)

DropRuntime(a) ==
    /\ CanAct(a) /\ a \in runtimes
    /\ runtimes' = runtimes \ {a}
    /\ doing' = [doing EXCEPT ![a] = IF runtimes = {a} THEN "join" ELSE @]
    /\ UNCHANGED <<workerVars, chan, handleVars, dropped, on, into>>

\* One turn of the loop: drop(w.tx), then join.
CloseWorker(a, n) ==
    /\ doing[a] = "join" /\ on[a] = None
    /\ txOpen[n]
    /\ txOpen' = [txOpen EXCEPT ![n] = FALSE]
    /\ on' = [on EXCEPT ![a] = n]
    /\ UNCHANGED <<worker, cur, queue, order, chan, handleVars, mapVars, doing, into>>

\* Mutant: the handle is dropped instead of joined.
NotJoined(a) ==
    /\ doing[a] = "join" /\ on[a] \in Names
    /\ cur[on[a]] # a
    /\ on' = [on EXCEPT ![a] = None]
    /\ UNCHANGED <<workerVars, chan, handleVars, mapVars, doing, into>>

Joined(a) ==
    /\ doing[a] = "join" /\ on[a] \in Names
    /\ worker[on[a]] = "ended"
    /\ on' = [on EXCEPT ![a] = None]
    /\ UNCHANGED <<workerVars, chan, handleVars, mapVars, doing, into>>

\* A closure that drops the last Runtime joins its own thread: the system
\* refuses (EDEADLK) and join panics.  The workers not yet joined are closed
\* and left alone, the closure unwinds.
JoinSelf(a) ==
    /\ doing[a] = "join" /\ on[a] \in Names
    /\ Unwind(a, on[a])
    /\ txOpen' = [n \in Names |-> FALSE]
    /\ doing' = [doing EXCEPT ![a] = "idle"]
    /\ on' = [on EXCEPT ![a] = None]
    /\ UNCHANGED <<cell, rx, moved, mapVars, into>>

DropEnds(a) ==
    /\ doing[a] = "join" /\ on[a] = None
    /\ \A n \in Names : ~txOpen[n]
    /\ doing' = [doing EXCEPT ![a] = "idle"]
    /\ dropped' = TRUE
    /\ UNCHANGED <<workerVars, chan, handleVars, runtimes, on, into>>

-------------------------------------------------------------------------------
SpawnStep(a) ==
    \E t \in Tasks :
        \/ \E n \in Names, keep \in {{}, {a}}, owning \in {{}, {t}} :
               Spawn(a, t, n, keep, owning)
        \/ Ready(a, t)

OwnerStep(a) ==
    \E t \in Tasks :
        \/ \E b \in Actors : Share(a, b, t)
        \/ DropHandle(a, t)
        \/ \E consume \in BOOLEAN : Asks(a, t, consume)

CallStep(a) == Enter(a) \/ Receive(a) \/ Unwrap(a)

DropStep(a) ==
    \/ \E n \in Names : CloseWorker(a, n)
    \/ Joined(a) \/ JoinSelf(a) \/ DropEnds(a)

WorkerStep(n) == WorkerTake(n) \/ WorkerEnd(n) \/ Finish(n) \/ ClosurePanics(n)

Next ==
    \/ \E a \in Actors : SpawnStep(a) \/ OwnerStep(a) \/ CallStep(a)
                         \/ DropRuntime(a) \/ DropStep(a)
    \/ \E n \in Names : WorkerStep(n)

Spec == Init /\ [][Next]_vars

-------------------------------------------------------------------------------
(* Properties.                                                             *)

\* Every variable has its type; an actor is in the middle of a call or of none,
\* a cell is busy for the one getter that has the receiver, and closures that
\* have ended own nothing.
TypeOK ==
    /\ worker \in [Names -> {"absent", "waiting", "running", "ended"}]
    /\ cur \in [Names -> Tasks \cup {None}]
    /\ queue \in [Names -> Seq(Tasks)] /\ order \in [Names -> Seq(Tasks)]
    /\ txOpen \in [Names -> BOOLEAN]
    /\ chan \in [Tasks -> {"none", "open", "value", "closed", "ready"}]
    /\ cell \in [Tasks -> {"empty", "busy", "set"}]
    /\ rx \in [Tasks -> {"some", "none", "poisoned"}]
    /\ holds \in [Tasks -> SUBSET Actors] /\ moved \subseteq Tasks
    /\ runtimes \subseteq Actors /\ dropped \in BOOLEAN
    /\ doing \in [Actors -> {"idle", "enter", "recv", "unwrap", "join"}]
    /\ on \in [Actors -> Tasks \cup Names \cup {None}]
    /\ into \in [Actors -> BOOLEAN]
    /\ \A a \in Actors : doing[a] = "idle" => on[a] = None /\ ~into[a]
    /\ \A t \in Tasks :
        /\ cell[t] = "busy" => \E a \in Actors : doing[a] = "recv" /\ on[a] = t
        /\ \A u \in Tasks : u \in holds[t] \/ u \in runtimes => chan[u] = "open"

\* The closures of one name run one at a time in the order they were sent:
\* those sent to it are those that have ended, the one that runs, and the
\* channel.  A panic, a drop of the map or a join takes none out of the line.
InOrder ==
    \A n \in Names :
        LET line == (IF cur[n] = None THEN <<>> ELSE <<cur[n]>>) \o queue[n]
            done == Len(order[n]) - Len(line) IN
        /\ done >= 0
        /\ line = SubSeq(order[n], done + 1, Len(order[n]))
        /\ \A i \in 1..Len(order[n]) : chan[order[n][i]] = "open" <=> i > done

\* A getter that finds the receiver gone panics, and poisons the lock for those
\* after it: that happens, however many threads race for the value, only when
\* the closure has ended without one.
PanicsOnlyIfDropped == \A t \in Tasks : rx[t] = "poisoned" => chan[t] = "closed"

\* A value that was moved out was produced, and no thread is left that has or
\* uses the handle: two that try at once never both get it.
OwnedAlone ==
    \A t \in moved : /\ chan[t] \in {"value", "ready"}
                     /\ holds[t] = {}
                     /\ \A a \in Actors : on[a] # t

\* The drop of the last Runtime returns when every closure ever sent has ended
\* and no worker is left.
DropDrains ==
    dropped => /\ \A t \in Tasks : chan[t] # "open"
               /\ \A n \in Names : worker[n] \in {"absent", "ended"}

\* Who waits for whom: for a value, in line behind a closure, in join.
Waits ==
    {p \in Tasks \X Tasks :
        \/ doing[p[1]] \in {"enter", "recv"} /\ on[p[1]] = p[2] /\ chan[p[2]] = "open"
        \/ \E n \in Names : \/ p[1] \in Range(queue[n]) /\ p[2] = cur[n]
                           \/ /\ doing[p[1]] = "join" /\ on[p[1]] = n
                              /\ p[2] \in Range(queue[n]) \cup {cur[n]}}

WaitCycle ==
    \E S \in (SUBSET Tasks) \ {{}} : \A t \in S : \E u \in S : <<t, u>> \in Waits

\* The steps the threads make by themselves.
Moves ==
    \/ \E a \in Actors : CallStep(a) \/ DropStep(a)
    \/ \E n \in Names : WorkerTake(n) \/ WorkerEnd(n) \/ Finish(n)
    \/ \E t \in Tasks : DropRuntime(t) \/ \E u \in Tasks : DropHandle(t, u)

\* Somebody is where one of these steps begins, as far as guards tell: in a call
\* that is not kept waiting, or a worker that has something to take, or a closure
\* that is in no call and may end.
CanGo ==
    \/ \E a \in Actors :
         \/ /\ a \in Tasks => Running(a)
            /\ \/ doing[a] = "enter" /\ cell[on[a]] # "busy"
               \/ doing[a] = "recv" /\ chan[on[a]] \in {"value", "closed"}
         \/ doing[a] = "unwrap"
         \/ doing[a] = "join" /\ on[a] = None
         \/ doing[a] = "join" /\ on[a] \in Names
              /\ (worker[on[a]] = "ended" \/ cur[on[a]] = a)
    \/ \E n \in Names :
         \/ worker[n] = "waiting" /\ (queue[n] # <<>> \/ ~txOpen[n])
         \/ worker[n] = "running" /\ doing[cur[n]] = "idle"

Served ==
    (\E a \in Actors : doing[a] # "idle") \/ (\E t \in Tasks : chan[t] = "open")
        => CanGo \/ WaitCycle

\* Nobody who asks for a value or drops a Runtime, and no closure that was
\* sent, is left waiting, unless closures wait for each other in a circle: as
\* long as there is one the threads can go on, if closures end.
NoneStranded == Served /\ (CanGo <=> ENABLED Moves)
===============================================================================
