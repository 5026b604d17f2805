------------------------------- MODULE CursorLog -------------------------------
(***************************************************************************)
(* What a durable cursor over a growing log promises, with none of the     *)
(* readers, generations and sweeps that keep the promise.  Entries are     *)
(* numbered as they are appended.  Readers settle entries in any order and *)
(* as often as they like; the cursor may be moved in either direction, but *)
(* never past an entry that is due and not settled; what is settled stays  *)
(* so, and what is due stays due.                                          *)
(***************************************************************************)
EXTENDS Naturals

VARIABLES
    length,   \* the log is 1..length
    due,      \* the entries the cursor must not skip
    settled,  \* the entries that have been dealt with
    cursor    \* the entries up to here will not be read again

vars == <<length, due, settled, cursor>>

Init ==
    /\ length = 0 /\ due = {}
    /\ settled = {}
    /\ cursor = 0

\* An entry is due from the start, or never.
Append ==
    /\ length' = length + 1
    /\ due' \in {due, due \cup {length + 1}}
    /\ UNCHANGED <<settled, cursor>>

Settle ==
    /\ settled \subseteq settled' /\ settled' \subseteq 1..length
    /\ UNCHANGED <<length, due, cursor>>

Move ==
    /\ cursor' \in 0..length
    /\ \A e \in due : e <= cursor' => e \in settled
    /\ UNCHANGED <<length, due, settled>>

Next == Append \/ Settle \/ Move

Spec == Init /\ [][Next]_vars
================================================================================
