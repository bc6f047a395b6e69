------------------------------ MODULE TaskList ------------------------------
(***************************************************************************)
(* GET /tasks: List of internal/task/service.go over the list cache of     *)
(* internal/cache/task_list.go, beside the requests of TaskService.        *)
(*                                                                         *)
(* The lists of a team are cached in Redis under its generation.  A reader *)
(* reads the generation, looks for the list under it, and on a miss reads  *)
(* MySQL and stores what it read under the generation it started from.  A  *)
(* writer commits, and then moves the generation on.                       *)
(*                                                                         *)
(* A list is the set of its tasks: its order and its page are left out, a  *)
(* filter is a status, or Null for all of them.                            *)
(***************************************************************************)
EXTENDS TaskService, Functions

CONSTANTS
    Readers,        \* slots for List requests in flight
    Filters,        \* the filters clients ask for
    MaxGeneration,  \* BOUND: the generations whose expiry is fair
    RedisLoses      \* whether Redis may restart without its data

VARIABLES
    cached,         \* the cached lists: a function from the keys that are set
    listPc,         \* listPc[q]: the call that reader q makes next
    listCall,       \* listCall[q]: what its client asked for
    listVersion,    \* listVersion[q]: the generation Get read; Null: no cache
    listRows,       \* listRows[q]: the tasks read, and then answered
    \* History variables: they are read by the properties only.
    dirty,          \* dirty[t]: tasks of t changed since its generation moved
    log,            \* log[t]: the lists of t that MySQL has had, in their order
    floor,          \* floor[t]: where log[t] was when t was invalidated
    since           \* since[q]: the floor of q's team when q began

listVars == <<cached, listPc, listCall, listVersion, listRows>>
ghostVars == <<dirty, log, floor, since>>
vars == <<taskVars, listVars, ghostVars>>

Keys == [team : Teams, filter : Filters, generation : Nat]
Key(t, filter, gen) == [team |-> t, filter |-> filter, generation |-> gen]
ListCalls == [actor : Users, team : Teams, filter : Filters]
ListSteps == {"idle", "role", "version", "get", "query", "set"}

ASSUME ListAssumption ==
    /\ Filters \subseteq Statuses \cup {Null, Invalid}
    /\ RedisLoses \in BOOLEAN
    /\ MaxGeneration \in Nat
    /\ Null \notin ListCalls \cup Nat

Matching(list, filter) == {e \in list : filter \in {Null, e.row.status}}

\* MySQLTaskRepository.List.
Listing(t, filter) ==
    Matching({[id |-> id, row |-> tasks[id]] :
                 id \in {i \in TaskIds : Visible(i) /\ tasks[i].team = t}},
             filter)

ListInit ==
    /\ TaskInit
    /\ cached = [k \in {} |-> {}]
    /\ listPc = [q \in Readers |-> "idle"]
    /\ listCall = [q \in Readers |-> Null]
    /\ listVersion = [q \in Readers |-> Null]
    /\ listRows = [q \in Readers |-> Null]
    /\ dirty = [t \in Teams |-> FALSE]
    /\ log = [t \in Teams |-> <<{}>>]
    /\ floor = [t \in Teams |-> 1]
    /\ since = [q \in Readers |-> 1]

-----------------------------------------------------------------------------
(* The steps of a List request *)

\* The request returns its tasks, or Null for an error of any kind.
Answer(q, rows) ==
    /\ listPc' = [listPc EXCEPT ![q] = "idle"]
    /\ listCall' = [listCall EXCEPT ![q] = Null]
    /\ listVersion' = [listVersion EXCEPT ![q] = Null]
    /\ listRows' = [listRows EXCEPT ![q] = rows]

ListGoto(q, step) ==
    /\ listPc' = [listPc EXCEPT ![q] = step]
    /\ UNCHANGED listCall

ListBegin(q, c) ==
    /\ listPc[q] = "idle"
    /\ listPc' = [listPc EXCEPT ![q] = "role"]
    /\ listCall' = [listCall EXCEPT ![q] = c]
    /\ listRows' = [listRows EXCEPT ![q] = Null]
    /\ since' = [since EXCEPT ![q] = floor[c.team]]
    /\ UNCHANGED <<cached, listVersion, dirty, log, floor>>

ListRole(q) ==
    /\ listPc[q] = "role"
    /\ LET c == listCall[q]
       IN  IF MemberRole(c.team, c.actor) = Null \/ c.filter = Invalid
           THEN Answer(q, Null)
           ELSE ListGoto(q, "version") /\ UNCHANGED <<listVersion, listRows>>
    /\ UNCHANGED cached

\* Get, first call: teamVersion.
ReadVersion(q) ==
    /\ listPc[q] = "version"
    /\ ListGoto(q, "get")
    /\ listVersion' = [listVersion EXCEPT ![q] = generation[listCall[q].team]]
    /\ UNCHANGED <<cached, listRows>>

\* Wrong: the generation of now, not the one Get read.
KeyOfNow(q) == Key(listCall[q].team, listCall[q].filter, generation[listCall[q].team])

KeyOf(q) == Key(listCall[q].team, listCall[q].filter, listVersion[q])

\* Get, second call: a hit is the answer.
ReadCached(q) ==
    /\ listPc[q] = "get"
    /\ IF KeyOf(q) \in DOMAIN cached
       THEN Answer(q, cached[KeyOf(q)])
       ELSE ListGoto(q, "query") /\ UNCHANGED <<listVersion, listRows>>
    /\ UNCHANGED cached

\* Either call of Get fails: the list is read from MySQL and not stored.
GetFails(q) ==
    /\ RedisFails
    /\ listPc[q] \in {"version", "get"}
    /\ ListGoto(q, "query")
    /\ listVersion' = [listVersion EXCEPT ![q] = Null]
    /\ UNCHANGED <<cached, listRows>>

Query(q) ==
    /\ listPc[q] = "query"
    /\ LET rows == Listing(listCall[q].team, listCall[q].filter)
       IN  IF listVersion[q] = Null
           THEN Answer(q, rows)
           ELSE /\ ListGoto(q, "set")
                /\ listRows' = [listRows EXCEPT ![q] = rows]
                /\ UNCHANGED listVersion
    /\ UNCHANGED cached

\* Set stores the list under the generation that Get returned.
SetCached(q) ==
    /\ listPc[q] = "set"
    /\ cached' = [k \in DOMAIN cached \cup {KeyOf(q)} |->
                     IF k = KeyOf(q) THEN listRows[q] ELSE cached[k]]
    /\ Answer(q, listRows[q])

\* The error of Set is dropped.
SetFails(q) ==
    /\ RedisFails
    /\ listPc[q] = "set"
    /\ Answer(q, listRows[q])
    /\ UNCHANGED cached

ListFails(q) ==
    /\ listPc[q] \in {"role", "query"}
    /\ Answer(q, Null)
    /\ UNCHANGED cached

-----------------------------------------------------------------------------
(* Redis and the process *)

\* Wrong: the lists are stored without a time to live.
ExpireNever(k) == FALSE

\* The time to live of a list runs out (main.go:92; Set with cache.ttl).
Expire(k) ==
    /\ k \in DOMAIN cached
    /\ cached' = Restrict(cached, DOMAIN cached \ {k})
    /\ UNCHANGED <<taskVars, listPc, listCall, listVersion, listRows, ghostVars>>

\* Redis restarts empty: it has no volume in docker-compose.yml.  A missing
\* version key reads as generation 0.
Lose ==
    /\ RedisLoses
    /\ cached' = [k \in {} |-> {}]
    /\ generation' = [t \in Teams |-> 0]
    /\ UNCHANGED <<tables, requestVars, listPc, listCall, listVersion, listRows, ghostVars>>

\* The process dies with its readers too.
ListCrash ==
    /\ listPc' = [q \in Readers |-> "idle"]
    /\ listCall' = [q \in Readers |-> Null]
    /\ listVersion' = [q \in Readers |-> Null]
    /\ listRows' = [q \in Readers |-> Null]
    /\ UNCHANGED cached

-----------------------------------------------------------------------------
(* The history variables follow the steps of TaskService *)

Invalidated(t) == \E r \in Requests : InvalidateTeam(r) /\ Written(r).team = t

GhostStep ==
    /\ dirty' = [t \in Teams |->
          /\ generation'[t] = generation[t]
          /\ dirty[t] \/ \E id \in TeamTasks(t) \cup TeamTasks(t)' : tasks'[id] # tasks[id]]
    /\ log' = [t \in Teams |->
          IF Listing(t, Null)' = Listing(t, Null) THEN log[t]
                                                  ELSE Append(log[t], Listing(t, Null)')]
    /\ floor' = [t \in Teams |-> IF Invalidated(t) THEN Len(log[t]) ELSE floor[t]]
    /\ UNCHANGED since

ReaderStep(q) ==
    \/ ListRole(q) \/ ReadVersion(q) \/ ReadCached(q) \/ Query(q) \/ SetCached(q)

ReaderFault(q) == GetFails(q) \/ SetFails(q) \/ ListFails(q)

ListNext ==
    \/ RequestNext /\ GhostStep /\ UNCHANGED listVars
    \/ TeamStatement /\ GhostStep /\ UNCHANGED listVars
    \/ Crash /\ GhostStep /\ ListCrash
    \/ \E q \in Readers :
          \/ (ReaderStep(q) \/ ReaderFault(q)) /\ UNCHANGED <<taskVars, ghostVars>>
          \/ \E c \in ListCalls : ListBegin(q, c) /\ UNCHANGED taskVars
    \/ \E k \in DOMAIN cached : Expire(k)
    \/ Lose

ListSpec == ListInit /\ [][ListNext]_vars

\* The readers' goroutines run and their calls return; Redis drops a list when
\* its five minutes are over.
FairListSpec ==
    /\ ListSpec
    /\ \A q \in Readers : WF_vars(ReaderStep(q) /\ UNCHANGED <<taskVars, ghostVars>>)
    /\ \A t \in Teams, f \in Filters, g \in 0..MaxGeneration : WF_vars(Expire(Key(t, f, g)))

-----------------------------------------------------------------------------
(* Properties *)

ListTypeOK ==
    /\ TypeOK
    /\ DOMAIN cached \subseteq Keys
    /\ \A k \in DOMAIN cached : cached[k] \subseteq [id : TaskIds, row : TaskRow]
    /\ listPc \in [Readers -> ListSteps]
    /\ listCall \in [Readers -> ListCalls \cup {Null}]
    /\ listVersion \in [Readers -> Nat \cup {Null}]
    /\ \A q \in Readers : \/ listRows[q] = Null
                          \/ listRows[q] \subseteq [id : TaskIds, row : TaskRow]
    /\ dirty \in [Teams -> BOOLEAN]
    /\ \A t \in Teams : log[t][Len(log[t])] = Listing(t, Null) /\ floor[t] \in DOMAIN log[t]
    /\ since \in [Readers -> Nat]

\* Once a team's generation has moved after the last change of its tasks, what
\* is cached under it, and what a reader is about to cache under it, is what
\* MySQL would answer: a reader that read MySQL before the change has the old
\* generation and stores where nobody looks (service.go:105-118,
\* cache/task_list.go:62).
CleanCacheIsExact ==
    \A t \in Teams, f \in Filters : TeamExists(t) /\ ~dirty[t] =>
        LET key == Key(t, f, generation[t])
        IN  /\ key \in DOMAIN cached => cached[key] = Listing(t, f)
            /\ \A q \in Readers : listPc[q] = "set" /\ KeyOf(q) = key =>
                  listRows[q] = Listing(t, f)

Fresh == INSTANCE FreshReads WITH
    Questions <- ListCalls,
    Select <- LAMBDA list, c : Matching(list, c.filter),
    asked <- listCall,
    answer <- [q \in Readers |-> IF listPc[q] = "idle" THEN listRows[q] ELSE Null]

\* The cache is not seen: a reader is answered one list that MySQL had, whole,
\* and none that a write outdated whose invalidation reached Redis before he
\* asked - which, as long as Redis returns no errors, is every write that was
\* answered ok (service.go:76-78, 105-120, 164-170, 208-213).
FreshReadsSpec == Fresh!Spec

\* However a list got stale - a lost increment, a crash before it, a restart
\* of Redis under a reader - it goes when it expires, and is stored no more:
\* writes end, and the lists that are looked at end up exact.
StaleListsVanish ==
    <>[](\A t \in Teams, f \in Filters : TeamExists(t) =>
            LET key == Key(t, f, generation[t])
            IN  key \in DOMAIN cached => cached[key] = Listing(t, f))
=============================================================================
