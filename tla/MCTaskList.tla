----------------------------- MODULE MCTaskList -----------------------------
(***************************************************************************)
(* A small instance of TaskList for TLC: one team, one task, few writes.   *)
(***************************************************************************)
EXTENDS TaskList, TLC

CONSTANTS u1, r1, r2, q1, q2, t1, t2

Body(title, status, assignee) ==
    [title |-> title, status |-> status, assignee |-> assignee]

MCCreateInputs == {Body(t1, Absent, Null)}
MCUpdateInputs == {Body(t2, Absent, Absent), Body(Absent, "done", Absent)}
OneUpdate == {Body(Absent, "done", Absent)}
AllStatuses == {Null}

\* history and reply are not read by any step.
MCView == <<teams, members, tasks, lastTask, pc, call, current, generation,
            listVars, ghostVars>>

MCSymmetry == Permutations(Requests) \cup Permutations(Readers)
=============================================================================
