----------------------------- MODULE TaskPages -----------------------------
(***************************************************************************)
(* A client that reads a long list page by page: GET /tasks with limit and *)
(* offset, over the tasks of TimedTasks (List of internal/task/service.go  *)
(* and internal/repository/task.go).  Every page is a request of its own,  *)
(* and is cached apart from the others under the generation of the team.   *)
(*                                                                         *)
(* Redis answers, and a process that dies is left out: TaskList has both.  *)
(* So are the check of the role and the filters.  One team.                *)
(***************************************************************************)
EXTENDS TimedTasks, SequencesExt

CONSTANTS
    Pagers,         \* clients that read page after page
    Limit,          \* the limit they ask for
    MaxGeneration   \* BOUND: how often the generation moves

ASSUME PageAssumption == Limit \in 1..100 /\ MaxGeneration \in Nat

VARIABLES
    generation,     \* the version key of the team
    pages,          \* the cached pages: pages[g][o], or Null
    pagerPc,        \* pagerPc[q]: the call that q's request makes next
    gotten,         \* gotten[q]: the generation that Get read
    page,           \* page[q]: the rows of the page, as ids
    seen,           \* seen[q]: the pages answered so far, in one sequence
    \* History variables: they are read by the properties only.
    quiet,          \* quiet[q]: no write has been going on since q began
    kept,           \* kept[q]: the tasks in the list ever since, untouched
    removed,        \* removed[q]: a task has left the list since q began
    direct,         \* direct[q]: every page was read from MySQL
    settled         \* settled[q]: no page was read before an InvalidateTeam

cacheVars == <<generation, pages>>
pagerVars == <<pagerPc, gotten, page, seen>>
pageGhosts == <<quiet, kept, removed, direct, settled>>
pageVars == <<timedVars, cacheVars, pagerVars, pageGhosts>>

Listed == {id \in Ids : Live(id)}

\* Wrong: nothing decides between tasks of one microsecond.
NewerByTime(i, j) == rows[i].updatedAt > rows[j].updatedAt

\* Wrong: the oldest comes first.
OldestFirst(i, j) ==
    \/ rows[i].updatedAt < rows[j].updatedAt
    \/ rows[i].updatedAt = rows[j].updatedAt /\ i < j

\* ORDER BY updated_at DESC, id DESC.
Newer(i, j) ==
    \/ rows[i].updatedAt > rows[j].updatedAt
    \/ rows[i].updatedAt = rows[j].updatedAt /\ i > j

\* The orders that MySQL may return: it leaves ties as it finds them.
Orders ==
    {s \in SetToSeqs(Listed) : \A i, j \in 1..Len(s) : i < j => ~Newer(s[j], s[i])}

\* LIMIT and OFFSET.
Cut(s, offset) ==
    LET last == offset + Limit
    IN  SubSeq(s, offset + 1, IF last < Len(s) THEN last ELSE Len(s))

Offset(q) == Len(seen[q])

PagesInit ==
    /\ TimedInit
    /\ generation = 0
    /\ pages = [g \in 0..MaxGeneration |-> [o \in 0..MaxRows |-> Null]]
    /\ pagerPc = [q \in Pagers |-> "idle"]
    /\ gotten = [q \in Pagers |-> Null]
    /\ page = [q \in Pagers |-> <<>>]
    /\ seen = [q \in Pagers |-> <<>>]
    /\ quiet = [q \in Pagers |-> FALSE]
    /\ kept = [q \in Pagers |-> {}]
    /\ removed = [q \in Pagers |-> FALSE]
    /\ direct = [q \in Pagers |-> FALSE]
    /\ settled = [q \in Pagers |-> FALSE]

-----------------------------------------------------------------------------
(* The steps of a client and of its requests *)

PagerGoto(q, step) == pagerPc' = [pagerPc EXCEPT ![q] = step]

\* It asks for the first page.
Open(q) ==
    /\ pagerPc[q] \in {"idle", "end"}
    /\ PagerGoto(q, "version")
    /\ seen' = [seen EXCEPT ![q] = <<>>]
    /\ UNCHANGED <<cacheVars, gotten, page>>

\* It asks for the next one.
TurnPage(q) ==
    /\ pagerPc[q] = "turn"
    /\ PagerGoto(q, "version")
    /\ UNCHANGED <<cacheVars, gotten, page, seen>>

\* The page is answered; a short one is the last.
Deliver(q, ids) ==
    /\ PagerGoto(q, IF Len(ids) < Limit THEN "idle" ELSE "turn")
    /\ seen' = [seen EXCEPT ![q] = @ \o ids]
    /\ gotten' = [gotten EXCEPT ![q] = Null]
    /\ page' = [page EXCEPT ![q] = <<>>]

ReadGeneration(q) ==
    /\ pagerPc[q] = "version"
    /\ PagerGoto(q, "get")
    /\ gotten' = [gotten EXCEPT ![q] = generation]
    /\ UNCHANGED <<cacheVars, page, seen>>

Hit(q) ==
    /\ pagerPc[q] = "get" /\ pages[gotten[q]][Offset(q)] # Null
    /\ Deliver(q, pages[gotten[q]][Offset(q)])
    /\ UNCHANGED cacheVars

Miss(q) ==
    /\ pagerPc[q] = "get" /\ pages[gotten[q]][Offset(q)] = Null
    /\ PagerGoto(q, "query")
    /\ UNCHANGED <<cacheVars, gotten, page, seen>>

\* MySQLTaskRepository.List.
QueryPage(q) ==
    /\ pagerPc[q] = "query"
    /\ PagerGoto(q, "set")
    /\ \E s \in Orders : page' = [page EXCEPT ![q] = Cut(s, Offset(q))]
    /\ UNCHANGED <<cacheVars, gotten, seen>>

SetPage(q) ==
    /\ pagerPc[q] = "set"
    /\ pages' = [pages EXCEPT ![gotten[q]][Offset(q)] = page[q]]
    /\ Deliver(q, page[q])
    /\ UNCHANGED generation

PagerStep(q) ==
    \/ Open(q) \/ TurnPage(q) \/ ReadGeneration(q) \/ Hit(q) \/ Miss(q)
    \/ QueryPage(q) \/ SetPage(q)

\* The time to live of a page runs out.
ExpirePage(g, o) ==
    /\ pages[g][o] # Null
    /\ pages' = [pages EXCEPT ![g][o] = Null]
    /\ UNCHANGED <<generation, pagerVars>>

Increment ==
    /\ generation < MaxGeneration
    /\ generation' = generation + 1

-----------------------------------------------------------------------------
(* The history variables *)

Reading(q) == pagerPc[q] \in {"version", "get", "query", "set"}
NoneWritten == \A w \in Writers : writerPc[w] # "written"
Touched == {id \in Ids : rows'[id] # rows[id]}

Opens(q) == pagerPc[q] = "idle" /\ pagerPc'[q] = "version"
HitBy(q) == pagerPc[q] = "get" /\ pagerPc'[q] \in {"idle", "turn"}
Ends(q) == pagerPc[q] # "idle" /\ pagerPc'[q] = "idle"

GhostPages ==
    LET during(q) == pagerPc'[q] # "idle"
    IN  /\ quiet' = [q \in Pagers |->
              during(q) /\ (Opens(q) \/ quiet[q]) /\ NoneWritten' /\ Touched = {}]
        /\ kept' = [q \in Pagers |->
              IF Opens(q) THEN Listed ELSE IF during(q) THEN kept[q] \ Touched ELSE {}]
        /\ removed' = [q \in Pagers |->
              during(q) /\ ~Opens(q) /\ (removed[q] \/ ~(Listed \subseteq Listed'))]
        /\ direct' = [q \in Pagers |->
              during(q) /\ (Opens(q) \/ direct[q]) /\ ~HitBy(q)]
        /\ settled' = [q \in Pagers |->
              during(q) /\ (Opens(q) \/ settled[q]) /\ (Reading(q)' => NoneWritten')]

PagesNext ==
    /\ \/ /\ \E w \in Writers : Prepare(w) \/ Insert(w) \/ Write(w)
          /\ UNCHANGED <<cacheVars, pagerVars>>
       \/ /\ \E w \in Writers : Respond(w)
          /\ Increment
          /\ UNCHANGED <<pages, pagerVars>>
       \/ Pass /\ UNCHANGED <<cacheVars, pagerVars>>
       \/ \E q \in Pagers : PagerStep(q) /\ UNCHANGED timedVars
       \/ \E g \in 0..MaxGeneration, o \in 0..MaxRows : ExpirePage(g, o) /\ UNCHANGED timedVars
    /\ GhostPages

PagesSpec == PagesInit /\ [][PagesNext]_pageVars

-----------------------------------------------------------------------------
(* Properties *)

PagesTypeOK ==
    /\ TimedTypeOK
    /\ generation \in 0..MaxGeneration
    /\ \A g \in 0..MaxGeneration, o \in 0..MaxRows :
          pages[g][o] # Null => Len(pages[g][o]) <= Limit /\ ToSet(pages[g][o]) \subseteq Ids
    /\ pagerPc \in [Pagers -> {"idle", "version", "get", "query", "set", "turn"}]
    /\ \A q \in Pagers : /\ gotten[q] \in (0..MaxGeneration) \cup {Null}
                         /\ ToSet(page[q]) \subseteq Ids /\ Len(page[q]) <= Limit
                         /\ ToSet(seen[q]) \subseteq Ids

\* While nobody writes, the pages make up the list: every task once, in its
\* order, whatever pages of whatever age are cached (repository/task.go:108;
\* docs/openapi.yaml:284).
QuietPagesExact ==
    [][\A q \in Pagers : Ends(q) /\ quiet[q] => seen'[q] \in Orders]_pageVars

\* While tasks are created and updated, but none is deleted, a task that nobody
\* touches may be met twice and is never skipped: updates only move tasks to
\* the front, even those that are stored late.  It takes pages that are all read
\* from MySQL, or, with the cache, that no request for a page falls between
\* a commit and its InvalidateTeam: else a cached page may be older than the
\* page before it (repository/task.go:108, task/service.go:105-120).
UntouchedNotSkipped ==
    [][\A q \in Pagers :
         Ends(q) /\ ~removed[q] /\ ((direct[q] /\ ~HitBy(q)) \/ settled[q]) =>
             kept[q] \subseteq ToSet(seen'[q])]_pageVars
=============================================================================
