# Verification of lib-reth

This directory holds TLA+ models of the parts of lib-reth that carry its own
logic, the TLC configurations that check them on small instances, and proofs,
checked by TLAPS, of what matters most for every instance. Paths below are
relative to the repository; `exe-runners`, `uniswap-storage`, `lib-reth` and
`eth-network-exts` are the crates under `crates/`.

## 1. Inventory of the system

### exe-runners: a task runtime

| component | state | operations |
|---|---|---|
| `TaskManager` (lib.rs) | the receiving end of the event channel, the signal | `poll`: resolves on the first event |
| signal and guards (shutdown.rs) | a oneshot, an `AtomicUsize` | `fire`, `GracefulShutdown::poll/clone/ignore_guard`, guard `new/drop` |
| `Runtime` (runtime.rs) | senders, tokio runtime, pools, `Arc` count | `spawn_*`, `graceful_shutdown*`, `initiate_graceful_shutdown`, drop |
| metrics (metrics.rs) | two totals per class of task | count at spawn, count in a drop |
| `for_each_ordered` (for_each_ordered.rs) | a slot per item, a panic flag | rayon leaves write, the handler takes in order |
| `WorkerMap`, `LazyHandle` (worker_map.rs, lazy.rs) | a queue per name, a result cell | `spawn_on`, `get`, `try_into_inner`, drop joins |
| worker pools (pool.rs) | state per thread, semaphores | `broadcast`, `init`, `clear`, `install`, `in_place_scope`, `spawn` |
| `CliRunner` (runner.rs) | the main thread | run a command until it ends, a signal, or a panic |

They interact through one unbounded channel of events (critical tasks and
shutdown requests to the manager), the oneshot signal (manager to everybody),
the atomic counter (guards to the shutdown loop), and the order in which Rust
drops fields. What is hard: the counter is read without a lock, the manager
takes one event only, its receiver is dropped before its signal, tasks end in
five ways, and a panic in a rayon leaf races a handler that blocks.

### uniswap-storage: reading contracts' storage

Stateless functions over `StorageSlotFetcher::storage_at`. Its logic is the
arithmetic of ticks (compression, words and bits of the bitmap, the searches
`next_tick_gt/lt/le` that recurse over words), the loop that loads a tick map,
the unpacking of packed words, growth inside a range modulo 2^256, and the
choice of the array slot and the unordered streams of the Angstrom readers.
What is hard: boundaries, termination of the searches, 24-bit integers, the
order in which concurrent reads complete.

### lib-reth, eth-network-exts

Wiring of external reth, alloy and revm types; no protocol of their own.

PROJECT.json lists every component with its status, and every hazard at its
line with the properties that cover it.

## 2. Modules

| module | models | composes | checked by | proved in |
|---|---|---|---|---|
| `ShutdownContract` | what the shutdown machinery promises, abstractly | | `runtime_safety` | `TaskRuntimeProofs` |
| `TaskRuntime` | `runtime.rs` (spawning, shutdown calls, drop), `lib.rs` (`TaskManager`), `shutdown.rs`, `metrics.rs` | | `runtime_*` | `TaskRuntimeProofs` |
| `CliRunner` | `runner.rs` | `TaskRuntime` | `cli_*` | `CliRunnerProofs` |
| `OrderedLoop` | what `for_each_ordered` promises, abstractly | | `ordered` | `ForEachOrderedProofs` |
| `ForEachOrdered` | `for_each_ordered.rs` | | `ordered` | `ForEachOrderedProofs` |
| `LazyWorker` | `worker_map.rs`, `lazy.rs`, the named spawns and the drop of `runtime.rs` | | `lazy` | `LazyWorkerProofs` |
| `WorkerPool` | `pool.rs` over rayon's threads | | `pool` | `WorkerPoolProofs` |
| `TickBitmap` | arithmetic of `v4/pool_manager/tick_bitmap.rs`, `v4/utils.rs`, `v3/utils.rs`, `v3/pool.rs` | | through the next two | `WalkProofs` |
| `TickWalk` | `next_tick_gt/lt/le`, `next_initialized_tick_within_one_word` of v4 and v3 | `TickBitmap` | `tick_*` | `WalkProofs` |
| `LoadTickMap` | `pool_manager_load_tick_map` | `TickWalk`, `TickBitmap` | `load_map` | `LoadTickMapProofs` |
| `Contracts` | external: storage layouts of Uniswap v3 and v4 and of Angstrom, swaps block by block | | `storage` | `StorageProofs` |
| `StorageReads` | every other reader of `uniswap-storage`, and the fetchers | `Contracts` | `storage` | `StorageProofs` |

`MC*` modules only hold values for the constants. A definition headed `Mutant:`
is a plausible mistake in the definition below it; it is used by no behaviour,
and PROJECT.json names the property that it breaks when it takes that
definition's place.

### TaskRuntime

| code | model |
|---|---|
| `task_events_tx`, `task_events_rx` | `events`; `Send` loses an event once the receiver is dropped |
| `TaskManager` as a task of tokio | `managerPc`: polled, then its receiver dropped, then its signal, each a step |
| `Signal`, `Shutdown` | `fired`: by the poll that sees a request or no sender, else by the drop |
| `AtomicUsize` of graceful tasks | `gracefulTasks`, next to the guards themselves (`at`, `by`) |
| a spawned task | `kind` (the spawn method) and `pc` |
| `GracefulShutdown`, its guard, `ignore_guard` | `at[g]`: `"future"`, `"guard"`, `"ignored"` |
| threads in `graceful_shutdown*`, `initiate_graceful_shutdown` | `call`, `calls` |
| clones of `Runtime`; the tokio runtime | `handles`, `down` |
| the counters of metrics.rs | `started`, `finished`, per class of task |

One step is what happens between two points where another thread can look: a
send, an atomic operation, one poll, the drop of one field. So the request and
the first look at the counter in `do_graceful_shutdown` are two steps, as are
the panic of a critical task (guards drop while unwinding) and its report, and
the two fields of the manager. What the body of a task does is left open: while
it is polled it may await, clone, ignore or drop what it holds, complete, or
panic.

A poll of `select(on_shutdown, fut)` is two steps as well. It looks at the signal
(`FirstPoll`, later `Repoll`), which leaves the task `"looked"`, and then enters
the task's own future (`PollTask`, `"running"`), which returns (`Yield`,
`"pending"`) or ends; the signal may fire anywhere between. So a task may still
be entered after the signal, by a poll that had looked before, and
`NoWorkAfterShutdown` says that this is the last time: whatever is unpolled or
between two polls at the signal, never runs again, however late its poll comes
and whatever else wakes it. For tasks without a `select` nothing depends on
where one poll ends and the next begins, and `"running"` is all their polls.

Abstractions. `Guards` bounds the guards alive together, in all owners; a
caller that finds none left is stuck in the model (`OutOfGuards`), not in the
code. Guards do not move from one owner to another, and tasks spawned with a
`select` hold none. A panic's payload is the task that panicked. A rejected
spawn is one that finds tokio down. `abort` reaches a task before its first poll
or between two polls; a blocking task driven by `block_on`, only before.

### CliRunner

`main` is where the calling thread is; `command` the command's future, on that
thread (`OnMain`) or a blocking one; `clones` the frames that hold a clone of
`Runtime`; `lastHolder` who dropped the last; `shutdownThread` the thread of
`runtime_shutdown`; `closure` a closure given to `spawn_blocking`. The holders
are the command, the closure, and every task, which calls the runtime from the
thread that polls it (`Asker(t)`). Whoever holds a clone may spawn, hand a clone
on, ask for a shutdown in any of the three ways (`HolderCalls`) and keep the
guard that `initiate_graceful_shutdown` returned; a call on the thread of a task
holds up its poll. A frame that is over drops its guards, then its clone
(`FrameDrops`), before the panic of its task is reported. Each action
is a step of `TaskRuntime` (`R!...`) together with the runner's own variables,
or leaves the runtime alone: with `R` the runner shares every variable of the
runtime, and `ImplementsRuntime` says it uses it in no other way.

The `select` takes any branch that is ready. A method on the main thread drops
its command with the `select`; one on a blocking thread leaves it running. The
drop of the last clone on the runner's side waits for tasks and blocking
threads (`WaitOver`); a clone dropped last by anybody else starts tokio's
shutdown, and nobody waits for it.

Abstractions. A frame keeps its clone until it is over. `MaxAskers` bounds how many
holders ask for a shutdown in one behaviour, and is 1 in the runs (any one of
them; callers that race each other are `TaskRuntime`'s); the theorems have it
arbitrary. The last `Runtime` dropped inside an async task makes tokio panic
there, unless tokio runs it on a blocking thread; the model has the drop without
the panic. The signals of the operating system matter until the `select`
ends; later ones are swallowed and not modelled. Nor are clones the embedder
keeps outside the runner, a runner over a borrowed tokio runtime, and the
failure of installing a signal handler (an `Err` before the command is polled).

### ForEachOrdered

`slot` is the `Mutex<Option<R>>` of each item, `item` how far its producer is
(`"written"` is between the unlock and `notify_one`), `panicked` the
`AtomicBool`, `alarm` the handler's loop index, `pc` the caller inside `take`
and the closure. `cuts` is where rayon split the indices into leaves, any set of
places; a leaf holds one thread of the pool from its first item to its last.
The caller's look at the slot, its load of the flag and its wait are separate
steps under the slot's lock (`Locked`), so `Write` and `SoundAlarm` exclude
them. A call may be made on a thread of the pool, which it blocks in the
condvar (`BlockedThreads`).

Abstractions. An item is its index. The job that waits for its leaves takes no
thread (rayon's join steals work meanwhile). A call without items returns
before anything is shared, and is left out. Spurious wakeups return to the
look, as a wakeup does, and change nothing the properties see.

### LazyWorker

| code | model |
|---|---|
| an entry of the `DashMap`: thread, sender | `worker[n]`, `txOpen[n]` |
| the unbounded channel of a name, the closure it runs | `queue[n]`, `cur[n]`; `order[n]` is history |
| the oneshot of a `LazyHandle` | `chan[t]`: `"open"`, `"value"`, `"closed"` (its sender dropped by a panic) |
| `OnceLock`, `Mutex<Option<Receiver>>` | `cell[t]`, `rx[t]` |
| the `Arc` of a handle, that of `Runtime` | `holds[t]`, `runtimes`: who has a clone |
| a thread inside `get`, `try_into_inner` or the drop | `doing`, `on`, `into` |

A task is a closure, its channel and its handle. Actors are client threads and
closures that run: a closure may spawn, share, ask and drop handles like a
thread, also on the worker it runs on. `get` is two steps, the entry into
`get_or_init` (`Enter`: the receiver is taken under the mutex) and the wait
(`Receive`); `try_into_inner` adds `Unwrap`. `WorkerMap::drop` is one step per
sender closed and one per thread joined; a closure that drops the last
`Runtime` joins its own thread, which the system refuses: `join` panics and the
rest of the map is dropped unjoined (`JoinSelf`).

Abstractions. A closure that panics or asks for a value owns no `Runtime`: its
drop while unwinding may panic again and abort the process, which ends the
model too. Not modelled: a thread that cannot be created, and the panic of
`blocking_recv` inside an async context.

### WorkerPool

`job[c][h]` is where call `c` is on thread `h`, from `"queued"` by rayon to
`"ran"`, `"refused"` by the `RefCell`, or `"panicked"`; `stack[h]` are the
closures thread `h` is in, the innermost first. A thread whose closure waits
inside rayon (`Yield`, or a nested call) may begin any other job on top
(`Begin`), so two closures can meet on one `RefCell` (`Borrow`). A closure
(`InCode`), that of `init` included, may call the pool itself
(`CallFromClosure`). `in_place_scope` runs its own closure on the caller's thread,
outside the pool: its call is the job spawned in the scope, which the caller
waits for. `remaining`
is the budget of a broadcast, `seen` what a thread has loaded of it: the load,
the compare-exchange and its failure are separate steps. `state` is
`Worker::state`; `Worker::init` takes it out (`InitBegins`) and puts the new one
in (`InitEnds`), with the closure, and its panic, between.

Abstractions. A closure is any sequence of these steps; `clear` runs no code of
the caller: the drop of a state is not taken for one that calls the pool. A type
of state is a model value. Not modelled: `BlockingTaskGuard`
(it forwards to a semaphore of tokio, and nothing here acquires from it), and
the construction of pools.

### Contracts, StorageReads

`Contracts` says where each variable is stored and how growth accrues; it is not
code of the repository but what the readers rely on. A slot is a term
(`MapSlot`, `ArraySlot`, `Plus`), that is, keccak256 has no collisions; a word is
a number or, when variables are packed, 32 bytes. A world is the state at a
block; `Swap` pays at the current tick, moves the price and flips the growth
outside of every tick it crosses. `below` is history: what was really paid
below a tick.

In `StorageReads` each reader is an operator of its own that gives the slots
read together, the decoder and, for the property, the variables its result
stands for. The actions are those of the futures: reads come back one by one in
any order (`Answer`), each from the block its fetcher chooses (`ReadBlock`); a
call may have a second part that depends on the first (`Continue`: the pool key
of a position, the elements of an array, the next slot of `pool_keys_filter`);
a future is out when its words are (`out`), and the keys `search_fn` accepts are
kept as their futures come out (`found`), until there are enough (`Enough`); any
read may fail (`ReadFails`); meanwhile the chain goes on (`NewBlock`).

Abstractions. Opaque values (addresses, liquidity, square roots of prices) are
byte patterns with a different byte at each place, 24-bit numbers are encoded
and decoded as they are. The liquidity of a v4 pool is decoded as the word that
its slot holds, with the zeros after the 16 bytes of the variable, since the code
takes the word whole; that of a position is narrowed by `to`, which would panic
beyond 128 bits, where the layout has zeros. Deployments that keep the keys in an older slot leave
the newer slots empty. `all_hooks` collects all reads before it reports the
first failure; the model reports it at once, with the same result. The cache of
`CacheDB` is not modelled, only that it reads its own block.

Assumptions. `CallsAssumption` lists what a call may be: a reader as its operator
makes it, of any initialized tick, of a position over two of them, growth for two
of them with the lower first, and a filter with `find_count` at least 1, which the
code asserts. Ticks are int24's (`TicksAssumption`). `FieldsAssumption` is about the
contracts: a number fits the type it is stored in, a position stays in its pool,
and neither a key nor a hook is pushed twice (a pool is initialized once, a hook
is deployed at an address of its own).

### TickBitmap, TickWalk, LoadTickMap

A word of the bitmap is the set of its bits, a pool the set of its initialized
ticks divided by the spacing. Ticks are the code's I24: the models compute over
the integers and `TypeOK` requires every value on the way to fit. Rust's
division (`Quot`, `Rem`) rounds to zero, `>> 8` and `& 0xff` are floor division
and its remainder. `TickWalk` takes one step per call of the recursive
function, that is per storage read; `LoadTickMap` runs its searches as steps of
`TickWalk` and then lets the reads of the found ticks come back in any order,
or fail.

`TickWalk` assumes of its bounds that no edge of a word lies one spacing inside
MIN_TICK, and that MAX_TICK is none (`BoundsAssumption`). The code's constants
are such: MAX_TICK = 887272 = 2^3 * 197 * 563 is no multiple of 256, and
887272 divided by a spacing leaves 1 modulo 256 only for spacings beyond 16 bits.
It also assumes that a word of ticks fits an I24 (`WidthAssumption`): spacings are
at most 32767, and 256 * 32767 < 2^23; twice MAX_TICK and a spacing is less.
`LoadTickMap` assumes the same of its loads.

Abstractions. `found` is a set: the vector's order and repetitions disappear in
the map. The limit of 1000 concurrent reads only orders them. A tick's data is
whether it is initialized. The pool is fixed while a search or a load runs: reads
at `latest` may mix blocks, and no property speaks of such a mixture. The tick
that `normalize_tick` makes of the caller's is computed over the integers, where
the code's I24 would overflow for an argument within a spacing of its extremes.
A failing read ends a search at once, and is
modelled where a caller is left with something half done (`LoadTickMap`).

## 3. Runs

Times are with two workers; none takes more than about three minutes.

| run | instance | distinct states | shows |
|---|---|---|---|
| `runtime_safety` | 2 tasks of 6 kinds, 2 callers with a call each, 2 guards | 2 172 884 (symmetry) | the counter is exact, a shutdown has a cause, metrics balance, every step is a step of `ShutdownContract` |
| `runtime_live` | 1 task of 2 kinds, 2 callers, 2 guards | 94 171 | a stopped task never runs again, requests and panics end in the signal, tasks stop, calls return |
| `runtime_early` | 1 task, 1 caller, 1 guard | | a comment is wrong, see 5 |
| `cli_run` | 1 task of 2 kinds, 1 guard, the main thread, the command, a closure, one of whom asks for a shutdown | 3 757 772 | results justified, nothing left running |
| `cli_live` | the same, the closure without a clone | 1 128 439 | methods return |
| `ordered` | 2 calls, 2 items each, 2 threads | 159 485 | a call is the sequential loop, and ends |
| `lazy` | 2 threads, 2 closures, 1 or 2 names | 900 642 (symmetry) | closures run in line, panics of `get` are earned, a value has one owner, the drop drains, only a circle of closures gets stuck |
| `pool` | 2 calls of any method, 2 threads, 2 types | 71 690 (symmetry) | a broadcast runs on exactly the threads asked for, `init` reaches all, no call is stranded |
| `tick_search` | the bounds and spacings of the code | 89 222 | searches find the nearest tick and end |
| `load_map` | the same | 171 561 | the map holds the range; a load ends or circles at the last tick |
| `storage` | every reader, 3 blocks, 3 geneses, 2 fetchers | 2 032 068 | fields are the contract's, growth is what was paid, arrays are complete |
| `tick_le` | as `tick_search` | | a call does not end, see 5 |

Why these bounds are enough to meet the hard cases:

* Two tasks let a panic race a request, another panic, or a spawn; two callers
  let a call race another's and let one caller wait for the other's guard;
  two guards let a clone outlive its original. `runtime_safety` leaves out
  `spawn_critical_blocking` for size; `runtime_live`, `cli_run` and `cli_live`
  have it, and the proofs have all kinds.
* Two calls and two threads are the least with which calls can block all
  threads of the pool; two items give a gap behind and before the caller. For
  the safety of more there are the proofs.
* The runner's task is of the two kinds that differ for it: one it waits for
  and one abort cannot reach. In `cli_run` both are critical, so both can panic the
  manager; in `cli_live` the second is. One guard is enough for a task to be
  waited for, or for a holder to keep what `initiate_graceful_shutdown` returned.
* Two closures on one name queue behind each other, on two they wait for each
  other; two threads race for one handle, and a closure makes a third owner.
* Two calls at once or nested on two threads let a thread that waits take up a
  job that borrows the same worker, and a broadcast over one thread race for
  its budget.
* Pools have at most two initialized ticks, placed at the edges of words
  around 0, at the bounds and one spacing inside; searches start on, just below
  and far from them. The spacings include the largest, one whose last word
  ends within a spacing of the bound (3465), and those with long walks.
* Growth is counted modulo 4 with payments 1, 2 and 3, from 0 or just below the
  wrap, so that it wraps within three blocks; the price starts and goes below,
  into and above every range of three ticks. Fields take the extremes of their
  width, negative ones too. The keys are in each of the three slots, and are
  pushed while they are read. A fetcher is a node, or a database made at block 1.

The bounds by name: `Tasks`, `Callers`, `Guards`, `MaxCalls`,
`MaxAskers`, `Calls`, `N`,
`Threads`, `Names`, `Clients`, `Types`, `Queries`, `Loads`, `MaxBlocks`,
`Genesis`, `Field`. Deadlock is not checked: tasks, commands and closures may run
or wait for ever, and finished calls take no step. Where that could hide a
deadlock of the code, a property says who may be stuck: the liveness
properties, and `NoneStranded` of `LazyWorker` and `WorkerPool`.

### Fairness

* `TaskRuntime!ExecutorFairness`: tokio polls a task that is ready or woken, a
  poll that has looked at the signal enters the future, tokio drops what is left when it goes down, the manager is such a task, and a thread
  in the loop of `do_graceful_shutdown` goes on looking, while time passes.
  Nothing forces a task to complete, panic, or drop a guard.
* `TaskRuntime!PollsReturn` is an assumption of `SelectTasksStop` alone: a poll of a
  task's future returns. A poll that computes for ever is out of the signal's
  reach.
* `TaskRuntime!OwnersCooperate` is an assumption of `UntimedCallReturns` alone:
  after the signal graceful tasks end, callers drop the guard that
  `initiate_graceful_shutdown` returned, clones are not made for ever. This is
  what the comment of `graceful_shutdown` asks of them.
* `CliRunner!Fairness`: the main thread, the thread of the shutdown, the manager and
  calls inside the runtime go on, frames that are over are dropped
  (`SystemStep`), and tokio polls (`TokioPolls`). Commands, tasks and closures need
  not end, a poll need not return; signals and requests need not come.
* `ForEachOrdered!Fairness`: leaves that have a thread go on and the closure
  returns or panics; no thread of the pool is promised to be free.
* `TickWalk!FairSpec`, `LoadTickMap!FairSpec`: the future is awaited to its end.
* `LazyWorker`, `WorkerPool` and `StorageReads` state none. A closure may run for
  ever and a node need not answer, so that nothing has to happen; and what
  closures do at will (spawn, ask, nest calls) would have to be forbidden for
  termination. Their waits are of interest, and `NoneStranded` speaks of them
  without fairness: whoever waits, some step of the threads (`Moves`) is enabled.
  `LazyWorker` has one exception, closures that wait for each other in a circle.
  Each is stated in two parts: `Served`, that somebody is at the beginning of such
  a step by the guards in `CanGo`, which TLAPS proves, and that `CanGo` holds
  exactly where TLC finds a step of `Moves` enabled.

## 4. Theorems

TLAPS checks these for every value of the constants, from the named assumptions
on them only: finitely many guards and threads, disjoint owners, positive sizes,
ticks and words that fit 24 bits, arguments as callers pass them. TLC evaluates
each assumption on the instances of section 3.

* `TaskRuntimeProofs`: `TypeCorrect`, `GuardCountCorrect`, `CauseCorrect` and
  `Implements`. The inductive invariant is `TypeOK`, `GuardCount`, and two facts
  neither implies: `GuardOwners` (only graceful tasks hold guards, so the first
  poll that cancels a task may leave the counter alone) and `ManagerInv` (until
  its poll has resolved the manager has fired nothing; afterwards there is an
  event it took or the runtime is going away). The cause of a signal needs
  `CauseInv` as well: every event in the channel or taken from it belongs to a
  panic that happened or a call that was made, and causes stay. `MetricsCorrect`
  needs `MetricsInv`, that started minus finished is, per class, the number of
  spawned tasks that have not come to the end their counter sees, and follows
  by counting. `NoWorkCorrect` is temporal: `Stopping(t)`, that the signal has
  fired and no poll of the task is past its look, is kept by every step, since the
  signal stays and each way back into the future looks at it; and it excludes
  `"running"`.
* `CliRunnerProofs`: `UsesRuntime`, each step of the runner is one of the
  runtime or a stutter, so that the theorems above hold under it; `TypeCorrect`,
  where the invariant `HoldersInv` ties clones, handles and the last holder;
  `ResultCorrect` and `NothingLeftCorrect`. For the last two it takes over what `TaskRuntimeProofs` found inductive, by showing that the two instances of
  `TaskRuntime` have the same steps (`RuntimeInv`), and adds where the runner
  can be (`PlacesInv`), that a runtime held is not down (`UseInv`), the reason of
  a result in terms of what never changes again (`ResultInv`), and that after
  the last drop everything is quiet (`GoneInv`) and stays so (`QuietStays`).
  `CallInv` says of a thread inside a method of `Runtime` that it holds its clone
  and its frame is active, and that the main thread owns no guard: so a runtime in
  a call is never dropped, a request that was made stays one whoever made it,
  and when the last drop is over no frame holds a guard.
* `ForEachOrderedProofs`: `TypeCorrect`, `StopsCorrect`, `Implements`. The
  invariant says, per call, what a slot holds (`SlotInv`), that what was
  delivered is a prefix (`OutInv`), that leaves run in order (`LeafInv`), that
  the flag comes after the last write (`FlagInv`), and that a slot found empty
  stays empty while its lock is held (`CallerInv`): with the last two the flag
  decides, which is why a caller stops only at an item that never comes.
* `WalkProofs`, first of the arithmetic: `CompressIsFloor` (compression is floor
  division for negative ticks too), `SplitAndJoin` (word and bit of a tick give
  back the tick), `WordSearchesAlike` (v3 and v4 compute the same one-word search
  for every bitmap). They rest on the uniqueness of floor division, `FloorUnique`.
* `WalkProofs`, of the walks: `NearestCorrect`, `PassesCorrect`, `WordsCorrect` and
  `WidthCorrect`, for any bounds, spacing and pool that satisfy the assumptions.
  A look into a word finds the
  nearest bit of the whole bitmap or says that the rest of the word is empty
  (`FindsAbove`, `FindsBelow`); the invariant `WalkInv` says that nothing
  initialized lies between the start and the tick the recursion has reached, so
  that the first hit is the nearest, and a bound is answered only when there is
  none. Minima of sets of ticks come from well-founded induction
  (`SmallestExists`). `WidthCorrect` is `TypeOK`, that no tick on the way leaves
  24 bits: `Span` says that a walk that goes on is within a spacing of the bounds,
  and `StepFits` and `WordFits` that one more word from there fits, whether it
  ends at a bit, at an edge or beyond a bound.
* `LoadTickMapProofs`: `NormalizeIsClamp`, that `normalize_tick`, which calls itself
  with a tick one spacing nearer until that is valid, returns for every tick and
  spacing the multiple at or below it or the nearest valid one (the recursion is
  followed by looking at the nearest tick for which it would not); `TypeCorrect`; and
  `MapCorrect`, that the map returned holds exactly the initialized ticks of the
  range and the one key beyond its end. The invariant has the position of the
  loop (`PlaceInv`), what was found behind it (`FoundInv`), what was loaded
  (`LoadInv`), and for the search awaited what `WalkProofs` proved of it
  (`SearchInv`): `W` is an instance of that module whose queries are the searches
  a load can make (`UpQueries`), and `SearchesFit` derives its assumptions from
  those of `LoadTickMap`. `Arrives` of `WalkProofs` says where a search upwards ends
  if it finds nothing, which is what leaves one key beyond the range.
* `WorkerPoolProofs`: `TypeCorrect`, `ExactCorrect`, `InitCorrect`, for any number of
  threads, calls and types. The invariant has a part per idea: no closure is twice
  on a thread's stack (`StackInv`); an open call has its jobs on every thread, or
  on one, and a call that succeeded has none that were refused or panicked
  (`JobsInv`); a worker borrowed mutably is borrowed once (`BorrowInv`); what is
  left of a budget and the threads that took a share make up what was asked for
  (`BudgetInv`), from which `ExactThreads` follows by counting; and nothing but the
  last `init` touches states, which are of its type where it ran (`LastInv`).
  `ServedCorrect`: as long as a call is open some thread can go on, however calls
  nest and whatever threads take up while they wait. `RankInv` has closures
  numbered in the order they begin (`Ranked`): one comes after those below it on its
  stack, and after the one that made its call. Were everybody stuck, every closure
  on top would wait for a call with a job that began after it, on another stack
  (`TopRanked`): the one with the largest number cannot.
* `LazyWorkerProofs`: `TypeCorrect`, `OrderCorrect`, `PanicsCorrect`,
  `OwnedCorrect`, `DrainsCorrect`, for any number of threads, closures and names.
  The inductive invariant `Inv` has a part per idea. `LineInv`: what was sent to
  a name is what has ended, what runs and what is queued, in that order, and
  `SentOnce`: no closure was sent twice. `Owners`: an actor in a call is a thread
  or a closure that runs, and has the handle it asks about (`InCall`); only
  clients, queued and running closures own anything (`Owning`). `Cells`: per
  handle, how cell, receiver, channel and the getter inside fit together, which
  is why a missing receiver means that a getter panicked before. `Draining`:
  the senders closed so far are those of workers joined, or being joined, and
  no clone of `Runtime` is left to send more. None of the five properties is
  inductive by itself. `ServedCorrect`: whoever is in a call, and every closure that
  was sent, has somebody who can go on, or closures wait for each other in a
  circle. `WaitInv` adds to `Inv` that a closure in a call runs on some worker
  (`CallsRun`), that one getter at most has the receiver of a handle and keeps its
  cell busy (`Getters`), and that a worker being joined was told to end (`Joins`).
  If nobody can go, a getter waits for an open task (`GetterWaits`), the drop for a
  worker that runs one (`JoinWaits`), and an open task, queued or in a call, for
  another (`ClosureWaits`): the open tasks are the circle.
* `StorageProofs`, of growth: `WorldsCorrect`, `GrowthCorrect` and `AccruedCorrect`. For
  any modulus, ticks and swaps, what the three readers of growth compute from the
  words of one block is what was paid inside the range. The invariant `Consistent`
  says that what the words of the contract tell about growth below a tick differs
  from the history by the same amount at every tick, so that the amount drops out
  of a difference (`SameOffset`), and `InsideIsDifference` that the formula is such
  a difference in each of its three branches.
* `StorageProofs`, of layouts and decoding, the lemmas of the rest. `Stored` says that
  a variable is alone in its bytes of its slot; there is a lemma for each of the
  six layouts (`PoolManagerStored`, `AngstromL2Stored`, ...) that every variable is,
  from slots being apart (`SlotsApart`, and `TicksApart` for the array of Angstrom on
  L1, where a tick counts modulo 2^24 and global growth lies behind). The liquidity
  of a v4 pool is alone in its slot (`Sole`), so the word that the code returns
  whole is the variable and zeros (`LiquidityWord`, `LiquidityTold`). From the
  first a
  byte of a word is one of the variable's (`ByteOfWord`), and `DecodeU24`, `DecodeI24`
  (the sign of int24 by shifts), `DecodeBool`, `DecodeBytes`, `DecodeNonzero` and
  `DecodeOption` undo the packing. `OtherTold`, `TickTold`, `PositionTold` and
  `KeyAndInfoTold` put them together, reader by reader.
* `StorageProofs`, of the calls: `BlocksCorrect`, `ReadsCorrect`, `FieldsCorrect` and
  `KeysCorrect`. The inductive invariant `CallInv` has a part per idea. A word that
  came back is the one its slot holds at a block of the window (`WordsAreRead`); a
  future is out once, and not before all its words are there (`FuturesInv`), so that
  nothing is decoded half read; what is awaited is a call as it was asked, or a
  part that follows from a word an earlier part read at a block of the window
  (`AwaitedInv`), where the elements of an array are read no earlier than its length
  (`ReadSince`): an array only grows (`BlocksCorrect`), so they are there. The filter
  has found the wanted keys of the futures that are out (`FilterInv`). At the return
  `FieldsAreTrue` follows from the words and the lemmas above, `GrowthIsAccrued` from
  the slots of the growth readers holding what the formula takes (`GrowthTold`), and
  `KeysComplete` by counting: as many futures as groups, each out once, are all of
  them (`AllDistinct`), and a sequence without repetitions is as long as its set
  (`CountDistinct`).

Model-checked only: all liveness (temporal logic with fairness is out of this
prover's reach), and of `NoneStranded`, in `LazyWorker` and in `WorkerPool`, the
part with `ENABLED`, which this prover has no rules for: that `CanGo` tells where a
step is enabled. Every other invariant, action property and refinement of the passing runs is a
theorem, and so is `NoWorkAfterShutdown`, which is temporal but needs no fairness.

## 5. Where code and comments disagree

* `graceful_shutdown` "fires the shutdown signal and waits": it queues a request
  and may return before the manager has fired anything (`runtime_early`).
* `ignore_guard` "does not drop the guard": it is dropped when the signal
  resolves the future, while the task still runs (the step of the model that
  resolves a future that was told to ignore its guard; no run is about it).
* `next_tick_le` reads the first tick of a word again for ever when the word
  has no initialized tick at or below the start (`tick_le`).

One more is read off the text, and not modelled because nothing calls it:
`flat_div_x128` is "guaranteed to fit" in 256 bits, which needs a quotient below
2^128.

Behaviours that no comment contradicts, and a caller should know:

* The tick a range starts from is not in the loaded map, and the map has exactly
  one key beyond the range (`MapIsRange`).
* `pool_manager_load_tick_map` goes on for ever when its range reaches the last
  tick: within one spacing of MAX_TICK `next_tick_gt` answers with the tick it
  was asked about, and the loop starts there again (`Circling`). It ends for
  every other range, and circles nowhere else (`EndsOrCircles`).
* A search that starts within one spacing of a bound does not look, and `gt`
  and `lt` count from the multiple of the spacing at or below the start.
* `FindsNearest` needs that no edge of a word lies exactly one spacing from a
  bound; the code's bounds and spacings satisfy it.
* A request for a shutdown, by the command or by any task or closure with a clone
  of `Runtime`, ends the runner's `select` with `Ok` and drops a command on the main
  thread. The two methods without a manager never make the
  graceful call; `run_until_ctrl_c`, and `run_blocking_until_ctrl_c` on an error,
  drop the runtime on the main thread, which waits for blocking threads without
  a deadline (`Obstacle`).
* A method returns with tasks running when somebody else holds a clone of
  `Runtime` (`NothingLeftRunning` speaks of the last holder only).
* A getter whose closure panicked panics under the mutex of its handle the
  second time: later getters of the handle panic because it is poisoned.
* `try_into_inner` by all clones at once can give the value to none of them.
* A closure that waits for a closure behind it on its own name, or in a circle
  over several names, waits for ever; so does the drop of the last `Runtime` then.
  A closure that drops the last `Runtime` leaves the other workers unjoined.
* A panic in the closure of `init` leaves the worker of that thread without a
  state, on the others the new state is in place.
* Growth read at the latest block may mix blocks, and the tick the caller passes
  may be of another: `GrowthIsAccrued` holds for one block and its own tick.
* `pool_keys_filter` with fewer than `find_count` matches in all returns those
  there are; which ones it returns, when there are more, depends on the order of
  the answers.
* A fetcher over a database answers for its own block, whatever block is asked.

## 6. Not modelled

* `TaskManager::graceful_shutdown`: the manager is moved into its own task, so
  nothing can call it.
* Configuration and construction of the runtime and of the pools, thread
  priorities and the creation of OS threads: values copied once, and calls into
  the system.
* `BlockingTaskGuard`: forwards to tokio's semaphore. Asking for more permits
  than it has waits for ever.
* `mul_div`, `full_mul_x128`, `flat_div_x128`: nothing calls them.
* The decoding of `pool_manager_load_tick_data` (numbers copied as they are), and
  what the databases behind the fetchers cache.
* The panic of tokio when its runtime is dropped inside an async task (see
  `CliRunner` in section 2), blocks that mix in a search or a load at `latest`, and
  the overflow of an I24 in `normalize_tick` at the extremes of the type.
* Deployment constants, and the crates lib-reth and eth-network-exts: tables and
  wiring of external types, no state or protocol of their own. `state_provider`
  (`reth_revm_utils.rs`) clones an `Arc` and then demands to be its only owner: a
  single sequential call shows it.

## 7. Plan

Done: the modules of section 2, and the proof of every safety property up to what
`ENABLED` says in `NoneStranded`. Left: liveness and `CanGo <=> ENABLED Moves`, for
which the prover needs rules for fairness and `ENABLED`.
