------------------------------ MODULE OrderedLoop ------------------------------
(***************************************************************************)
(* What for_each_ordered promises: each call is the sequential loop        *)
(*     for i in 0..n { f(item(i)) }                                        *)
(* which a panic, of an item or of f, may cut short, never silently.       *)
(***************************************************************************)
EXTENDS Integers, Sequences

CONSTANTS Calls,  \* calls of for_each_ordered
          N       \* items of each call

VARIABLES out,    \* of each call: the items f was called with, in order
          result  \* of each call: "running", "returned" or "raised"

vars == <<out, result>>

Init ==
    /\ out = [c \in Calls |-> <<>>]
    /\ result = [c \in Calls |-> "running"]

Deliver(c) ==
    /\ result[c] = "running"
    /\ Len(out[c]) < N
    /\ out' = [out EXCEPT ![c] = Append(@, Len(@))]
    /\ UNCHANGED result

Return(c) ==
    /\ result[c] = "running"
    /\ Len(out[c]) = N
    /\ result' = [result EXCEPT ![c] = "returned"]
    /\ UNCHANGED out

Raise(c) ==
    /\ result[c] = "running"
    /\ result' = [result EXCEPT ![c] = "raised"]
    /\ UNCHANGED out

Next == \E c \in Calls : Deliver(c) \/ Return(c) \/ Raise(c)

Spec == Init /\ [][Next]_vars
===============================================================================
