---------------------------- MODULE MCInboxMonitor -----------------------------
(* Instances of InboxMonitor for TLC.                                       *)
EXTENDS InboxMonitor

\* A task whose inbox was monitored before, and one whose never was.
Seeded == {0}
Unseeded == {Absent}
=============================================================================
