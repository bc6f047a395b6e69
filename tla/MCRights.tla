------------------------------ MODULE MCRights ------------------------------
(***************************************************************************)
(* Small instances of Rights for TLC.                                      *)
(***************************************************************************)
EXTENDS Rights, TLC

CONSTANTS u1, u2, u3, r1, s1, s2, t1

Body(title, status, assignee) ==
    [title |-> title, status |-> status, assignee |-> assignee]

None == {}
MCCreateInputs == {Body(t1, Absent, Null), Body(t1, Absent, u2)}
MCUpdateInputs == {Body(Absent, "done", Absent), Body(Absent, Absent, u2)}
MCAssignInputs == {Body(t1, Absent, u2)}
MCCloseInputs == {Body(Absent, "done", Absent)}

\* The replies and the history are not read by any step.
MCView == <<teams, members, tasks, lastTask, pc, call, current, role, generation,
            teamPc, teamCall, actorRole, actorHad, allowed, mates>>

MCSymmetry == Permutations(TeamRequests)
=============================================================================
