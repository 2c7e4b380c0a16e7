---------------------------- MODULE MCMigration ----------------------------
(***************************************************************************)
(* Instances of the migration runner for TLC.                              *)
(***************************************************************************)
EXTENDS MigrationProperties, TLC

AnyRunner == Permutations(Runners)
=============================================================================
