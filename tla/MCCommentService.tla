------------------------- MODULE MCCommentService -------------------------
(***************************************************************************)
(* A small instance of CommentService for TLC.                             *)
(***************************************************************************)
EXTENDS CommentService, TLC

CONSTANTS u1, u2, r1, r2, t1

\* history and commentReply are not read by any step.
MCView == <<teams, members, tasks, lastTask, commentTables, clock,
            commentPc, commentCall, taskTeam, stamp, witnesses>>

MCSymmetry == Permutations(Commenters)
=============================================================================
