--------------------------- MODULE MCTransactions ---------------------------
(***************************************************************************)
(* Instances of createTransactionalDb for TLC.                             *)
(***************************************************************************)
EXTENDS TransactionsProperties

Disturbed == [d \in Disturbances |-> 1]
Undisturbed == [d \in Disturbances |-> 0]
=============================================================================
