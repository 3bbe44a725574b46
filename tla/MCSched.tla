------------------------------ MODULE MCSched ------------------------------
(* A small instance of Sched for TLC.                                        *)
EXTENDS Sched

============================================================================
