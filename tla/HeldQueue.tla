------------------------------- MODULE HeldQueue -------------------------------
(***************************************************************************)
(* What a queue that holds prompts back promises, with none of the tables, *)
(* rows and threads that keep the promise: an item is accepted once, is    *)
(* held from then on, and is handed over at least once before it is done   *)
(* with, the oldest first.  The oldest is handed over again only when a    *)
(* mishap has kept the queue from being done with it.                      *)
(***************************************************************************)
EXTENDS Naturals, Sequences

CONSTANT Items    \* what callers ask the queue to hold

VARIABLES
    accepted,     \* every item accepted so far, in order
    held,         \* the ones that wait, the oldest first
    tries,        \* how often the oldest has been handed over
    taken,        \* the ones handed over and done with, in order
    mishaps       \* what has gone wrong so far

vars == <<accepted, held, tries, taken, mishaps>>

Accepted(i) == \E k \in DOMAIN accepted : accepted[k] = i

Init ==
    /\ accepted = <<>> /\ held = <<>> /\ taken = <<>>
    /\ tries = 0 /\ mishaps = 0

Put(i) ==
    /\ ~Accepted(i)
    /\ accepted' = Append(accepted, i)
    /\ held' = Append(held, i)
    /\ UNCHANGED <<tries, taken, mishaps>>

HandOver ==
    /\ held # <<>>
    /\ tries <= mishaps
    /\ tries' = tries + 1
    /\ UNCHANGED <<accepted, held, taken, mishaps>>

Take ==
    /\ held # <<>>
    /\ tries > 0
    /\ taken' = Append(taken, Head(held))
    /\ held' = Tail(held)
    /\ tries' = 0
    /\ UNCHANGED <<accepted, mishaps>>

Mishap ==
    /\ mishaps' = mishaps + 1
    /\ UNCHANGED <<accepted, held, tries, taken>>

Next == (\E i \in Items : Put(i)) \/ HandOver \/ Take \/ Mishap

Spec == Init /\ [][Next]_vars

\* What follows: nothing is lost or overtaken, nothing is done with twice, and
\* what is handed over once more than a first time is paid for by a mishap.
InOrder == accepted = taken \o held
TakenOnce == \A j, k \in DOMAIN taken : taken[j] = taken[k] => j = k
RepeatsPaid == tries <= 1 + mishaps
================================================================================
