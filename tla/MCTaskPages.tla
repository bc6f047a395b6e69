----------------------------- MODULE MCTaskPages -----------------------------
(* A small instance of TaskPages for TLC. *)
EXTENDS TaskPages, TLC

CONSTANTS w1, w2, q1

\* The pages of a generation that is over, and that no request has read, are
\* out of reach; what a client at rest has seen is not read by any step.
MCReach == {generation} \cup {gotten[q] : q \in Pagers}
MCSymmetry == Permutations(Writers)
MCView ==
    <<timedVars, generation, [g \in MCReach \ {Null} |-> pages[g]], gotten, pagerPc, page,
      [q \in Pagers |-> IF pagerPc[q] = "idle" THEN <<>> ELSE seen[q]], pageGhosts>>
=============================================================================
