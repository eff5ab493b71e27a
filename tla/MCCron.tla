------------------------------- MODULE MCCron -------------------------------
(* Small instances of CronOccurrences for TLC. *)
EXTENDS CronOccurrences

CONSTANTS c1, c2
=============================================================================
