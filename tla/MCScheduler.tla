---------------------------- MODULE MCScheduler ----------------------------
(***************************************************************************)
(* Instances of Scheduler; the bounds are in the configurations.           *)
(***************************************************************************)
EXTENDS Scheduler
=============================================================================
