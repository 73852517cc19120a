------------------------------ MODULE MCSched ------------------------------
(* Model-checking instance of Sched. *)
EXTENDS Sched
=============================================================================
