---------------------------- MODULE MCAttentionCard ----------------------------
(* Instances of AttentionCard for TLC.                                          *)
EXTENDS AttentionCard, TLC

\* Handlers are interchangeable; not used with a liveness property.
ActorSymmetry == Permutations(Actors)
================================================================================
