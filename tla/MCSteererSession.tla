---- MODULE MCSteererSession ----
(* The steerer session of one channel for TLC: turns are interchangeable. *)
EXTENDS SteererSession, TLC

TurnSymmetry == Permutations(Turns)
====
