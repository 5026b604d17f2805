------------------------------ MODULE MCOwnerTick ------------------------------
(* An instance of OwnerTick for TLC: the scheduler and one other dispatcher.    *)
EXTENDS OwnerTick
===============================================================================
