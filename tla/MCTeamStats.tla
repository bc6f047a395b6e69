----------------------------- MODULE MCTeamStats -----------------------------
(* A small instance of TeamStats for TLC. *)
EXTENDS TeamStats, TLC

CONSTANTS w1, k1

\* report is not read by any step.
MCView == <<timedVars, comments, roleOf, askPc, askCall, stored>>
=============================================================================
