----------------------------- MODULE FreshReads -----------------------------
(***************************************************************************)
(* What the list of a team promises its clients, whatever is cached: an    *)
(* answer is the selection a reader asked for from one list the team       *)
(* really had, and from none that was over when the reader asked, as far   *)
(* as the cache had been told by then.  TaskList implements it.            *)
(***************************************************************************)
EXTENDS Integers, SequencesExt

CONSTANTS
    Teams, Readers,
    Questions,          \* records with a field team
    Select(_, _),       \* what a question selects from a list
    Null

VARIABLES
    log,        \* log[t]: the lists that team t has had, the last one now
    floor,      \* floor[t]: the list of t when the cache was told last
    asked,      \* asked[q]: what reader q waits for
    since,      \* since[q]: the floor of its team when it asked
    answer      \* answer[q]: what q was answered last, or Null

freshVars == <<log, floor, asked, since, answer>>

Init ==
    /\ log = [t \in Teams |-> <<{}>>]
    /\ floor = [t \in Teams |-> 1]
    /\ asked = [q \in Readers |-> Null]
    /\ since = [q \in Readers |-> 1]
    /\ answer = [q \in Readers |-> Null]

Grow ==
    /\ \A t \in Teams : IsPrefix(log[t], log'[t])
    /\ UNCHANGED <<floor, asked, since, answer>>

Tell(t) ==
    /\ floor' = [floor EXCEPT ![t] = Len(log[t])]
    /\ UNCHANGED <<log, asked, since, answer>>

Ask(q, question) ==
    /\ asked[q] = Null
    /\ asked' = [asked EXCEPT ![q] = question]
    /\ since' = [since EXCEPT ![q] = floor[question.team]]
    /\ answer' = [answer EXCEPT ![q] = Null]
    /\ UNCHANGED <<log, floor>>

Reply(q, list) ==
    /\ asked[q] # Null
    /\ asked' = [asked EXCEPT ![q] = Null]
    /\ answer' = [answer EXCEPT ![q] = list]
    /\ UNCHANGED <<log, floor, since>>

Answer(q) ==
    \E i \in since[q]..Len(log[asked[q].team]) :
        Reply(q, Select(log[asked[q].team][i], asked[q]))

Fail(q) == Reply(q, Null)

\* The readers' process dies.
Vanish ==
    /\ asked' = [q \in Readers |-> Null]
    /\ answer' = [q \in Readers |-> Null]
    /\ UNCHANGED <<log, floor, since>>

Next ==
    \/ Grow \/ Vanish
    \/ \E t \in Teams : Tell(t)
    \/ \E q \in Readers : \/ \E question \in Questions : Ask(q, question)
                          \/ asked[q] # Null /\ Answer(q)
                          \/ Fail(q)

Spec == Init /\ [][Next]_freshVars
=============================================================================
