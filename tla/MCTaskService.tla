--------------------------- MODULE MCTaskService ---------------------------
(***************************************************************************)
(* A small instance of TaskService for TLC.                                *)
(***************************************************************************)
EXTENDS TaskService, TLC

CONSTANTS u1, u2, r1, r2, t1, t2

Body(title, status, assignee) ==
    [title |-> title, status |-> status, assignee |-> assignee]

\* A task open from the start and assigned to its executor, one that is done and
\* nobody's, a rejected one.
MCCreateInputs ==
    {Body(t1, Absent, u2), Body(t1, "done", Null), Body(Invalid, Absent, Null)}

\* A field alone; closing, which an executor may do; opening again with all the
\* rest, which takes the task from its executor; a rejected one.
MCUpdateInputs ==
    {Body(t2, Absent, Absent), Body(Absent, "done", Absent),
     Body(t2, "todo", u1), Body(Absent, Invalid, Absent)}

\* reply and generation are written and never read by the steps.
MCView == <<tables, pc, call, current, role>>

MCSymmetry == Permutations(Requests)
=============================================================================
