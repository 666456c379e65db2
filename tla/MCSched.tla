------------------------------- MODULE MCSched -------------------------------
(* Sched for TLC.                                                          *)
EXTENDS Sched, TLC

=============================================================================
