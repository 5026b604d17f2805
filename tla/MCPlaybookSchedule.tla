-------------------------- MODULE MCPlaybookSchedule ---------------------------
(* An instance of PlaybookSchedule for TLC.                                     *)
EXTENDS PlaybookSchedule
===============================================================================
