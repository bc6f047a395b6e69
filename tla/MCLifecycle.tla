---------------------------- MODULE MCLifecycle ----------------------------
(***************************************************************************)
(* A small instance of Lifecycle for TLC.                                  *)
(***************************************************************************)
EXTENDS Lifecycle, TLC

CONSTANTS p1, p2, c1

\* Two files of two tables and of one.
MCStatements == (1 :> 2) @@ (2 :> 1)
=============================================================================
