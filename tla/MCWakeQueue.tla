------------------------------ MODULE MCWakeQueue ------------------------------
(* WakeQueue on small instances.                                             *)
EXTENDS WakeQueue, TLC

CONSTANTS w1, w2, f1, f2

\* Flush goroutines are alike.  The two prompts are not when one is held.
FlusherSymmetry == Permutations(Flushers)
===============================================================================
