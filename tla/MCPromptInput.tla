----------------------------- MODULE MCPromptInput -----------------------------
(* Instances of PromptInput for TLC.                                        *)
EXTENDS PromptInput, TLC

WakeSymmetry == Permutations(Wakes)
=============================================================================
