-------------------------- MODULE MCLeaseScheduler --------------------------
(***************************************************************************)
(* Instances of the lease-coordinated schedulers for TLC.                  *)
(***************************************************************************)
EXTENDS LeaseSchedulerProperties

Clear == [fault |-> 0, crash |-> 0, early |-> 0, late |-> 0, shutdown |-> 0]
Disturbed == [fault |-> 1, crash |-> 1, early |-> 1, late |-> 1, shutdown |-> 1]
Stopping == [Clear EXCEPT !.shutdown = 1, !.fault = 1, !.early = 1]
=============================================================================
