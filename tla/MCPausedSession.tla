---------------------------- MODULE MCPausedSession ----------------------------
(* Instances of PausedSession for TLC.                                      *)
EXTENDS PausedSession, TLC

\* Callers of one kind are interchangeable.
CallerSymmetry == Permutations(Nudges) \cup Permutations(Events)
=============================================================================
