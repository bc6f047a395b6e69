---------------------------- MODULE MCMigration ----------------------------
(***************************************************************************)
(* A small instance of Migration for TLC.                                   *)
(***************************************************************************)
EXTENDS Migration, TLC

CONSTANT p1

OneFile == (1 :> 3)
=============================================================================
