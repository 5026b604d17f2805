------------------------------ MODULE FifoBuffer ------------------------------
(***************************************************************************)
(* What a durable wake buffer promises, with none of the machinery that    *)
(* keeps the promise: an accepted item stays buffered until it has been    *)
(* handed to the agent at least once, and only the item that was accepted  *)
(* first among those still buffered is ever handed over or removed.        *)
(***************************************************************************)
EXTENDS Naturals

CONSTANT Items    \* what callers ask the buffer to deliver

VARIABLES
    pending,      \* accepted and not yet settled
    arrival,      \* arrival[i]: position of i in the order of acceptance
    handed        \* items handed to the agent at least once

vars == <<pending, arrival, handed>>

Oldest(i) == i \in pending /\ \A j \in pending : arrival[i] <= arrival[j]

Init ==
    /\ pending = {}
    /\ arrival \in [Items -> {0}]
    /\ handed = {}

\* An item enters once, behind everything that is already buffered.
Accept(i) ==
    /\ i \notin pending
    /\ i \notin handed
    /\ pending' = pending \cup {i}
    /\ arrival'[i] \in Nat
    /\ \A j \in pending : arrival[j] < arrival'[i]
    /\ arrival' = [arrival EXCEPT ![i] = arrival'[i]]
    /\ UNCHANGED handed

Hand(i) ==
    /\ Oldest(i)
    /\ handed' = handed \cup {i}
    /\ UNCHANGED <<pending, arrival>>

Settle(i) ==
    /\ Oldest(i)
    /\ i \in handed
    /\ pending' = pending \ {i}
    /\ UNCHANGED <<arrival, handed>>

Next == \E i \in Items : Accept(i) \/ Hand(i) \/ Settle(i)

Spec == Init /\ [][Next]_vars

\* What follows: of the buffered items only the oldest can have been handed over
\* before, so that a repetition never comes out of turn.
OnlyOldestHanded == \A i \in pending \cap handed : Oldest(i)
===============================================================================
