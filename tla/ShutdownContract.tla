--------------------------- MODULE ShutdownContract ---------------------------
(***************************************************************************)
(* What the shutdown machinery of exe-runners promises, without channels,  *)
(* counters or tasks.  Holders of a GracefulShutdown (or of the guard it   *)
(* yields) are participants; the first event reported to the TaskManager   *)
(* is the one that decides; the signal needs a cause; and a caller is told *)
(* that everything drained only at an instant without participants.        *)
(* TaskRuntime implements this specification.                              *)
(***************************************************************************)
CONSTANTS Guards,    \* identities of GracefulShutdownGuards
          Callers,   \* threads that call the graceful_shutdown methods
          Events     \* what can be reported: a panic of a task, a request

VARIABLES participants,  \* guards alive
          first,         \* {} or {the first event reported}
          stopped,       \* the runtime itself went away
          signalled,     \* the shutdown signal has fired
          told           \* callers whose last call returned true

vars == <<participants, first, stopped, signalled, told>>

Init ==
    /\ participants = {}
    /\ first = {}
    /\ stopped = FALSE
    /\ signalled = FALSE
    /\ told = {}

Join(g) ==
    /\ g \notin participants
    /\ participants' = participants \cup {g}
    /\ UNCHANGED <<first, stopped, signalled, told>>

Leave(S) ==
    /\ participants' = participants \ S
    /\ UNCHANGED <<first, stopped, signalled, told>>

\* The first report is kept: later ones change nothing.
Report(e) ==
    /\ first = {}
    /\ first' = {e}
    /\ UNCHANGED <<participants, stopped, signalled, told>>

\* A new call forgets the answer of the last one; its request may be the
\* first event, or come too late to be one.
Call(c, e) ==
    /\ told' = told \ {c}
    /\ \/ UNCHANGED first
       \/ first = {} /\ first' = {e}
    /\ UNCHANGED <<participants, stopped, signalled>>

Return(c) ==
    /\ participants = {}
    /\ told' = told \cup {c}
    /\ UNCHANGED <<participants, first, stopped, signalled>>

Stop ==
    /\ stopped' = TRUE
    /\ UNCHANGED <<participants, first, signalled, told>>

\* Only a runtime that goes away may lose a report nobody has read.
Abandon ==
    /\ stopped
    /\ ~signalled
    /\ first' = {}
    /\ UNCHANGED <<participants, stopped, signalled, told>>

Signal ==
    /\ first # {} \/ stopped
    /\ signalled' = TRUE
    /\ UNCHANGED <<participants, first, stopped, told>>

Next ==
    \/ \E g \in Guards : Join(g)
    \/ \E S \in SUBSET Guards : Leave(S)
    \/ \E e \in Events : Report(e)
    \/ \E c \in Callers, e \in Events : Call(c, e)
    \/ \E c \in Callers : Return(c)
    \/ Stop
    \/ Abandon
    \/ Signal

Spec == Init /\ [][Next]_vars
===============================================================================
