------------------------------ MODULE MCSched ------------------------------
(* Sched with a few thread ids and address spaces. *)
EXTENDS Sched
=============================================================================
