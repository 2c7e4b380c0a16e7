------------------------------ MODULE MCOutbox ------------------------------
(***************************************************************************)
(* Instances of the outbox for TLC: a dispatcher that polls and another    *)
(* whose runOnce() somebody calls, and at most two disturbances in all.     *)
(***************************************************************************)
EXTENDS OutboxProperties, TLC

CONSTANTS d1, d2, loop, call

Owners == (loop :> d1 @@ call :> d2)
Disturbed == [fault |-> 2, crash |-> 1, early |-> 2, shutdown |-> 1]
Undisturbed == [fault |-> 0, crash |-> 0, early |-> 0, shutdown |-> 0]
=============================================================================
