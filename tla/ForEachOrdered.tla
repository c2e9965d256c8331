----------------------------- MODULE ForEachOrdered -----------------------------
(***************************************************************************)
(* for_each_ordered.rs: a parallel iterator whose items are handed, in     *)
(* index order, to a closure on the calling thread.  Rayon runs the items  *)
(* in leaves (runs of consecutive indices), each leaf on one pool thread;  *)
(* each item goes through a slot of its own, a Mutex<Option> and a Condvar;*)
(* the caller takes slot after slot.  Several calls may share the pool,    *)
(* and a call may itself be made on one of the pool's threads, which it    *)
(* blocks while it waits.                                                  *)
(***************************************************************************)
EXTENDS Integers, Sequences, FiniteSets

CONSTANTS Calls,    \* calls of for_each_ordered on one pool
          N,        \* items of each call; a call without items returns at once
          Threads   \* threads of the pool

ASSUME SizesAssumption ==
    /\ N \in Nat \ {0}
    /\ Threads \in Nat \ {0}
    /\ IsFiniteSet(Calls)

Index == 0 .. N - 1
Empty == -1

VARIABLES
    cuts,      \* of each call: where rayon splits the indices into leaves
    item,      \* of each item: "todo", "written", "notified" or "panicked"
    slot,      \* of each slot: Empty or the item in it
    panicked,  \* of each call: the AtomicBool
    alarm,     \* of each call: slots the panic handler has notified
    place,     \* of each call: made on a thread of the "pool" or "outside"
    pc,        \* of each call: where the calling thread is
    out        \* of each call: the items f was called with

vars == <<cuts, item, slot, panicked, alarm, place, pc, out>>

-------------------------------------------------------------------------------
SameLeaf(c, i, j) == \A k \in cuts[c] : ~(i < k /\ k <= j)
LeafStart(c, i)   == i = 0 \/ i \in cuts[c]

\* Items behind a panic in their leaf are never computed.
Skipped(c, i) ==
    \E j \in 0 .. i - 1 : item[c][j] = "panicked" /\ SameLeaf(c, j, i)

\* A leaf holds its thread from its first item to its last, or to a panic.
LeafBusy(c, i) ==
    /\ LeafStart(c, i)
    /\ item[c][i] # "todo"
    /\ \E j \in i .. N - 1 :
           /\ SameLeaf(c, i, j)
           /\ \/ item[c][j] = "written"
              \/ item[c][j] = "todo" /\ ~Skipped(c, j)

\* The calling thread is inside take or f: Condvar::wait blocks it for good,
\* whereas the end of the scope lets a pool thread run other jobs.
Taking == {"take", "checked", "parking", "parked", "calling"}
BlockedThreads == {c \in Calls : place[c] = "pool" /\ pc[c] \in Taking}
BusyThreads == Cardinality(BlockedThreads)
                + Cardinality({l \in Calls \X Index : LeafBusy(l[1], l[2])})

\* catch_unwind returns when every leaf has ended.
Produced(c) ==
    \A i \in Index : \/ item[c][i] \in {"notified", "panicked"}
                     \/ item[c][i] = "todo" /\ Skipped(c, i)
Failed(c)   == \E i \in Index : item[c][i] = "panicked"

\* notify_one on slot i: the only thread that ever waits there is the caller.
Woken(c, i) == IF pc[c] = "parked" /\ Len(out[c]) = i
               THEN [pc EXCEPT ![c] = "take"] ELSE pc

\* The mutex of slot i: only take keeps it from one step to the next.
Locked(c, i) == pc[c] \in {"checked", "parking"} /\ Len(out[c]) = i

-------------------------------------------------------------------------------
Init ==
    /\ cuts = [c \in Calls |-> {}]
    /\ item = [c \in Calls |-> [i \in Index |-> "todo"]]
    /\ slot = [c \in Calls |-> [i \in Index |-> Empty]]
    /\ panicked = [c \in Calls |-> FALSE]
    /\ alarm = [c \in Calls |-> 0]
    /\ place = [c \in Calls |-> "outside"]
    /\ pc = [c \in Calls |-> "idle"]
    /\ out = [c \in Calls |-> <<>>]

\* in_place_scope: the producing job is spawned, the caller starts to take.
Call(c, p) ==
    /\ pc[c] = "idle"
    /\ p = "pool" => BusyThreads < Threads
    /\ \E S \in SUBSET (1 .. N - 1) : cuts' = [cuts EXCEPT ![c] = S]
    /\ place' = [place EXCEPT ![c] = p]
    /\ pc' = [pc EXCEPT ![c] = "take"]
    /\ UNCHANGED <<item, slot, panicked, alarm, out>>

-------------------------------------------------------------------------------
(* The producing job.                                                      *)

CanRun(c, i) ==
    /\ pc[c] # "idle"
    /\ item[c][i] = "todo"
    /\ IF LeafStart(c, i) THEN BusyThreads < Threads
                          ELSE item[c][i - 1] = "notified"

\* Mutant: enumerate applied to each leaf instead of to the whole iterator.
WriteLeafIndex(c, i) ==
    /\ CanRun(c, i)
    /\ LET j == CHOOSE j \in 0 .. i : LeafStart(c, j) /\ SameLeaf(c, j, i)
       IN  slot' = [slot EXCEPT ![c][i - j] = i]
    /\ item' = [item EXCEPT ![c][i] = "written"]
    /\ UNCHANGED <<cuts, panicked, alarm, place, pc, out>>

\* Shared::write, under the lock of the slot.
Write(c, i) ==
    /\ CanRun(c, i)
    /\ ~Locked(c, i)
    /\ slot' = [slot EXCEPT ![c][i] = i]
    /\ item' = [item EXCEPT ![c][i] = "written"]
    /\ UNCHANGED <<cuts, panicked, alarm, place, pc, out>>

\* Shared::write, after the unlock.
Notify(c, i) ==
    /\ item[c][i] = "written"
    /\ item' = [item EXCEPT ![c][i] = "notified"]
    /\ pc' = Woken(c, i)
    /\ UNCHANGED <<cuts, slot, panicked, alarm, place, out>>

ItemPanics(c, i) ==
    /\ CanRun(c, i)
    /\ item' = [item EXCEPT ![c][i] = "panicked"]
    /\ UNCHANGED <<cuts, slot, panicked, alarm, place, pc, out>>

\* Mutant: the flag is set where the panic happens, by a guard in the closure.
RaiseFlagAtOnce(c) ==
    /\ Failed(c)
    /\ ~panicked[c]
    /\ panicked' = [panicked EXCEPT ![c] = TRUE]
    /\ UNCHANGED <<cuts, item, slot, alarm, place, pc, out>>

RaiseFlag(c) ==
    /\ Produced(c)
    /\ Failed(c)
    /\ ~panicked[c]
    /\ panicked' = [panicked EXCEPT ![c] = TRUE]
    /\ UNCHANGED <<cuts, item, slot, alarm, place, pc, out>>

\* Mutant: the handler notifies without taking the slot's lock.
SoundAlarmUnlocked(c) ==
    /\ panicked[c]
    /\ alarm[c] < N
    /\ pc' = Woken(c, alarm[c])
    /\ alarm' = [alarm EXCEPT ![c] = @ + 1]
    /\ UNCHANGED <<cuts, item, slot, panicked, place, out>>

\* Mutant: 0..=n.
SoundAlarmTooFar(c) ==
    /\ panicked[c]
    /\ alarm[c] <= N
    /\ ~Locked(c, alarm[c])
    /\ pc' = Woken(c, alarm[c])
    /\ alarm' = [alarm EXCEPT ![c] = @ + 1]
    /\ UNCHANGED <<cuts, item, slot, panicked, place, out>>

\* One turn of the handler's loop: lock, notify, unlock.
SoundAlarm(c) ==
    /\ panicked[c]
    /\ alarm[c] < N
    /\ ~Locked(c, alarm[c])
    /\ pc' = Woken(c, alarm[c])
    /\ alarm' = [alarm EXCEPT ![c] = @ + 1]
    /\ UNCHANGED <<cuts, item, slot, panicked, place, out>>

-------------------------------------------------------------------------------
(* The calling thread.                                                     *)

\* Shared::take: lock the slot and look into it.  A value is taken out and
\* handed to f; without one the lock is kept.
Look(c) ==
    LET i == Len(out[c]) IN
    /\ pc[c] = "take"
    /\ \/ /\ slot[c][i] # Empty
          /\ out' = [out EXCEPT ![c] = Append(@, slot[c][i])]
          /\ slot' = [slot EXCEPT ![c][i] = Empty]
          /\ pc' = [pc EXCEPT ![c] = "calling"]
       \/ /\ slot[c][i] = Empty
          /\ pc' = [pc EXCEPT ![c] = "checked"]
          /\ UNCHANGED <<slot, out>>
    /\ UNCHANGED <<cuts, item, panicked, alarm, place>>

\* Still under the lock: read the flag, which the lock does not protect.
LoadPanicked(c) ==
    /\ pc[c] = "checked"
    /\ pc' = [pc EXCEPT ![c] = IF panicked[c] THEN "stopped" ELSE "parking"]
    /\ UNCHANGED <<cuts, item, slot, panicked, alarm, place, out>>

\* Condvar::wait gives up the lock and parks in one step.
Park(c) ==
    /\ pc[c] = "parking"
    /\ pc' = [pc EXCEPT ![c] = "parked"]
    /\ UNCHANGED <<cuts, item, slot, panicked, alarm, place, out>>

\* f returns, and the loop goes on or is over, or f panics.
CallEnds(c) ==
    /\ pc[c] = "calling"
    /\ \E next \in {IF Len(out[c]) = N THEN "finished" ELSE "take", "unwinding"} :
           pc' = [pc EXCEPT ![c] = next]
    /\ UNCHANGED <<cuts, item, slot, panicked, alarm, place, out>>

\* The scope waits for the producing job and passes on any panic.
Leave(c) ==
    /\ pc[c] \in {"finished", "stopped", "unwinding"}
    /\ Produced(c)
    /\ Failed(c) => alarm[c] = N
    /\ pc' = [pc EXCEPT ![c] = IF pc[c] = "finished" /\ ~Failed(c)
                               THEN "returned" ELSE "raised"]
    /\ UNCHANGED <<cuts, item, slot, panicked, alarm, place, out>>

-------------------------------------------------------------------------------
Next ==
    \E c \in Calls :
        \/ \E p \in {"pool", "outside"} : Call(c, p)
        \/ \E i \in Index : Write(c, i) \/ Notify(c, i) \/ ItemPanics(c, i)
        \/ RaiseFlag(c) \/ SoundAlarm(c)
        \/ Look(c) \/ LoadPanicked(c) \/ Park(c) \/ CallEnds(c) \/ Leave(c)

Spec == Init /\ [][Next]_vars

\* Threads run: the pool's on the leaves it can start or has started (items are
\* computed or panic), the caller's unless it is parked.
Fairness ==
    \A c \in Calls :
        /\ \A i \in Index : /\ WF_vars(Write(c, i) \/ ItemPanics(c, i))
                            /\ WF_vars(Notify(c, i))
        /\ WF_vars(RaiseFlag(c)) /\ WF_vars(SoundAlarm(c))
        /\ WF_vars(Look(c)) /\ WF_vars(LoadPanicked(c)) /\ WF_vars(Park(c))
        /\ WF_vars(CallEnds(c)) /\ WF_vars(Leave(c))

FairSpec == Spec /\ Fairness

-------------------------------------------------------------------------------
(* Properties.                                                             *)

\* Every variable has its type; the handler's loop stays within the slots.
TypeOK ==
    /\ cuts \in [Calls -> SUBSET (1 .. N - 1)]
    /\ item \in [Calls -> [Index -> {"todo", "written", "notified", "panicked"}]]
    /\ slot \in [Calls -> [Index -> Index \cup {Empty}]]
    /\ panicked \in [Calls -> BOOLEAN]
    /\ alarm \in [Calls -> 0 .. N]
    /\ place \in [Calls -> {"pool", "outside"}]
    /\ pc \in [Calls -> Taking \cup {"idle", "finished", "stopped", "unwinding",
                                     "returned", "raised"}]
    /\ out \in [Calls -> Seq(Index)]

\* A caller stops early only at the first item that was never produced: every
\* item before a gap is delivered, even those computed after the panic.
StopsAtFirstGap ==
    \A c \in Calls :
        pc[c] = "stopped" =>
            LET i == Len(out[c]) IN
            item[c][i] = "panicked" \/ (item[c][i] = "todo" /\ Skipped(c, i))

Loop == INSTANCE OrderedLoop
    WITH result <- [c \in Calls |-> IF pc[c] \in {"returned", "raised"}
                                    THEN pc[c] ELSE "running"]

\* Each call is the sequential loop: in order, nothing twice, nothing skipped,
\* and it returns normally only when every item was delivered.
ImplementsLoop == Loop!Spec

\* Every call comes to an end, unless every thread of the pool is blocked in a
\* call made on the pool itself: then no leaf can start, and no call can end.
Terminates ==
    \A c \in Calls :
        pc[c] # "idle" ~> \/ pc[c] \in {"returned", "raised"}
                          \/ Cardinality(BlockedThreads) = Threads
===============================================================================
