---------------------------- MODULE TaskListProofs ----------------------------
(***************************************************************************)
(* Theorems of TaskList, for every value of its constants, while Redis     *)
(* keeps its data: the types, what is cached under a clean generation is   *)
(* exact, and a reader cannot tell that there is a cache (FreshReads).     *)
(***************************************************************************)
EXTENDS TaskList, TaskServiceProofs, SequenceTheorems

Lists == SUBSET [id : TaskIds, row : TaskRow]

ListTypes ==
    /\ cached \in [DOMAIN cached -> Lists] /\ DOMAIN cached \subseteq Keys
    /\ listPc \in [Readers -> ListSteps]
    /\ listCall \in [Readers -> ListCalls \cup {Null}]
    /\ listVersion \in [Readers -> Nat \cup {Null}]
    /\ listRows \in [Readers -> Lists \cup {Null}]
    /\ dirty \in [Teams -> BOOLEAN]
    /\ log \in [Teams -> Seq(Lists)]
    /\ floor \in [Teams -> Nat]
    /\ since \in [Readers -> Nat]

(* The log of a team ends with its list of now.                                *)
LogOK(t) ==
    /\ Len(log[t]) \in Nat \ {0}
    /\ floor[t] \in 1..Len(log[t])
    /\ log[t][Len(log[t])] = Listing(t, Null)

ReaderOK(q) ==
    LET t == listCall[q].team
    IN  IF listPc[q] = "idle" THEN listCall[q] = Null
        ELSE /\ listCall[q] \in ListCalls
             /\ since[q] \in 1..floor[t]
             /\ listPc[q] \in {"get", "set"} => listVersion[q] # Null
             /\ listPc[q] \in {"get", "query", "set"} /\ listVersion[q] # Null =>
                   listVersion[q] <= generation[t]

(* The i-th list of team t may be stored under generation g: nobody who looks  *)
(* there, now or later, asked when that list was known to be over.             *)
Covers(t, g, i) ==
    /\ i \in 1..Len(log[t])
    /\ g = generation[t] => i >= floor[t]
    /\ \A q \in Readers : /\ listPc[q] \in {"get", "query", "set"}
                          /\ listCall[q].team = t /\ listVersion[q] = g
                          => i >= since[q]

StoredOK(k) ==
    /\ k.generation <= generation[k.team]
    /\ \E i \in Nat : /\ Covers(k.team, k.generation, i)
                      /\ cached[k] = Matching(log[k.team][i], k.filter)

HeldOK(q) ==
    listPc[q] = "set" =>
        \E i \in Nat : /\ Covers(listCall[q].team, listVersion[q], i)
                       /\ listRows[q] = Matching(log[listCall[q].team][i], listCall[q].filter)

(* CleanCacheIsExact of one team, which need not exist.                        *)
Clean(t) ==
    ~dirty[t] => \A f \in Filters :
        LET key == Key(t, f, generation[t])
        IN  /\ key \in DOMAIN cached => cached[key] = Listing(t, f)
            /\ \A q \in Readers : listPc[q] = "set" /\ KeyOf(q) = key =>
                  listRows[q] = Listing(t, f)

(* The inductive invariant. No list is stored or held under a generation that  *)
(* is still to come, so that an increment leaves nothing behind under the new  *)
(* one.                                                                        *)
LInv ==
    /\ IInv /\ ListTypes
    /\ \A t \in Teams : LogOK(t) /\ Clean(t)
    /\ \A q \in Readers : ReaderOK(q) /\ HeldOK(q)
    /\ \A k \in DOMAIN cached : StoredOK(k)

-----------------------------------------------------------------------------
(* Lists *)

\* A filter selects from the whole list (repository/task.go:272-339).
LEMMA ListingSelects ==
    ASSUME NEW t, NEW f
    PROVE  Listing(t, f) = Matching(Listing(t, Null), f)
<1> DEFINE S == {[id |-> id, row |-> tasks[id]] :
                    id \in {i \in TaskIds : Visible(i) /\ tasks[i].team = t}}
<1>1. Listing(t, f) = Matching(S, f) /\ Listing(t, Null) = Matching(S, Null)
  BY DEF Listing
<1> HIDE DEF S
<1>2. Matching(S, Null) = S
  BY DEF Matching
<1> QED
  BY <1>1, <1>2

LEMMA ListingType ==
    ASSUME IInv, NEW t, NEW f
    PROVE  Listing(t, f) \in Lists
  BY DEF IInv, TypeOK, Listing, Matching, Lists, Visible

LEMMA MatchingType ==
    ASSUME NEW list \in Lists, NEW f
    PROVE  Matching(list, f) \in Lists
  BY DEF Matching, Lists

\* A list changes only with a task of its team.
LEMMA SameListing ==
    ASSUME NEW t, NEW f,
           \A id \in TeamTasks(t) \cup TeamTasks(t)' : tasks'[id] = tasks[id]
    PROVE  Listing(t, f)' = Listing(t, f)
<1> DEFINE I == {i \in TaskIds : Visible(i) /\ tasks[i].team = t}
           S == {[id |-> id, row |-> tasks[id]] : id \in I}
           T == {[id |-> id, row |-> tasks'[id]] : id \in I'}
<1>1. \A i \in I \cup I' : tasks'[i] = tasks[i]
  BY DEF TeamTasks, Visible
<1>2. I' = I
  BY <1>1 DEF Visible
<1> HIDE DEF I
<1>3. S = T
  BY <1>1, <1>2
<1>4. Listing(t, f) = Matching(S, f)
  BY DEF Listing, I
<1>5. Listing(t, f)' = Matching(T, f)
  BY DEF Listing, Matching, I
<1> QED
  BY <1>3, <1>4, <1>5

-----------------------------------------------------------------------------
(* The generation of a team *)

\* A request that has committed writes for a team (service.go:76, 168, 211).
LEMMA WrittenTeam ==
    ASSUME IInv, NEW r \in Requests, pc[r] = "invalidate"
    PROVE  Written(r).team \in Teams
<1>1. /\ RequestOK(r) /\ TypeOK /\ call[r] \in Call /\ call[r] \in Calls
      /\ ~Malformed(call[r])
  BY CallsType DEF IInv, RequestOK
<1>2. CASE call[r].op = "create"
  BY <1>1, <1>2 DEF Written, NewTask, Malformed, Call
<1>3. CASE call[r].op # "create"
  <2>1. current[r] \in TaskRow
    BY <1>1, <1>3 DEF RequestOK, TypeOK
  <2> QED
    BY <1>3, <2>1 DEF Written, ApplyUpdate, TaskRow
<1> QED
  BY <1>2, <1>3

LEMMA InvalidatedMoves ==
    ASSUME IInv, NEW t \in Teams, Invalidated(t)
    PROVE  /\ generation'[t] = generation[t] + 1 /\ UNCHANGED tables
           /\ \A u \in Teams \ {t} : generation'[u] = generation[u]
<1> PICK r \in Requests : InvalidateTeam(r) /\ Written(r).team = t
  BY DEF Invalidated
<1> QED
  BY DEF InvalidateTeam, IInv, TypeOK

LEMMA NotInvalidated ==
    ASSUME IInv, [Next]_taskVars, NEW t \in Teams, ~Invalidated(t)
    PROVE  generation'[t] = generation[t]
<1>1. ASSUME NEW r \in Requests, InvalidateTeam(r)
      PROVE  generation'[t] = generation[t]
  <2>1. generation' = [generation EXCEPT ![Written(r).team] = @ + 1]
    BY <1>1 DEF InvalidateTeam
  <2>2. Written(r).team # t
    BY <1>1 DEF Invalidated
  <2> QED
    BY <2>1, <2>2 DEF IInv, TypeOK
<1>2. ASSUME NEW r \in Requests,
             \/ \E c \in Calls : Reject(r, c) \/ Begin(r, c)
             \/ RequestStep(r)
             \/ Fault(r)
      PROVE  InvalidateTeam(r) \/ generation' = generation
  BY <1>2 DEF Reject, Begin, RequestStep, Fault, Find, CreateRole, UpdateRole, DeleteRole,
     HistoryRole, Decide, CheckAssignee, Write, WriteConflict, InsertFails, ListHistory,
     CallFails, CommitUnknown, InvalidateFails
<1> QED
  BY <1>1, <1>2 DEF Next, RequestNext, TeamStatement, Crash, taskVars

-----------------------------------------------------------------------------
(* Steps of the service, and what the history variables make of them. *)

\* The log grows, the floor rises, and the two go with the generation.
LEMMA GhostMoves ==
    ASSUME IInv, IInv', [Next]_taskVars, GhostStep, ListTypes, NEW t \in Teams, LogOK(t)
    PROVE  /\ LogOK(t)' /\ log'[t] \in Seq(Lists) /\ floor'[t] \in Nat
           /\ Len(log[t]) <= Len(log'[t])
           /\ \A i \in 1..Len(log[t]) : log'[t][i] = log[t][i]
           /\ floor[t] <= floor'[t]
           /\ \/ generation'[t] = generation[t] /\ floor'[t] = floor[t]
              \/ generation'[t] = generation[t] + 1
<1> DEFINE now == Listing(t, Null)'
<1>1. /\ log'[t] = IF now = Listing(t, Null) THEN log[t] ELSE Append(log[t], now)
      /\ floor'[t] = IF Invalidated(t) THEN Len(log[t]) ELSE floor[t]
  BY DEF GhostStep
<1>2. log[t] \in Seq(Lists) /\ now \in Lists
  <2>1. \A f : Listing(t, f)' \in Lists
    BY DEF IInv, TypeOK, Listing, Matching, Lists, Visible
  <2> QED
    BY <2>1 DEF ListTypes
<1> HIDE DEF now
<1>3. /\ log'[t] \in Seq(Lists) /\ Len(log[t]) <= Len(log'[t]) /\ Len(log'[t]) \in Nat \ {0}
      /\ \A i \in 1..Len(log[t]) : log'[t][i] = log[t][i]
      /\ log'[t][Len(log'[t])] = now
  <2>1. CASE now = Listing(t, Null)
    BY <1>1, <1>2, <2>1 DEF LogOK
  <2>2. CASE now # Listing(t, Null)
    <3>1. log'[t] = Append(log[t], now)
      BY <1>1, <2>2
    <3> QED
      BY <1>2, <3>1 DEF LogOK
  <2> QED
    BY <2>1, <2>2
<1>4. /\ floor'[t] \in 1..Len(log'[t]) /\ floor[t] <= floor'[t] /\ floor'[t] \in Nat
  BY <1>1, <1>3 DEF LogOK
<1>5. \/ generation'[t] = generation[t] /\ floor'[t] = floor[t]
      \/ generation'[t] = generation[t] + 1
  BY <1>1, InvalidatedMoves, NotInvalidated
<1> QED
  BY <1>3, <1>4, <1>5 DEF LogOK, now

\* The types and the readers, when the readers stand still or die.
LEMMA ServiceReaders ==
    ASSUME LInv, IInv', [Next]_taskVars, GhostStep,
           UNCHANGED listVars \/ ListCrash
    PROVE  /\ ListTypes' /\ cached' = cached
           /\ \A t \in Teams : LogOK(t)'
           /\ \A q \in Readers : ReaderOK(q)'
           /\ \A q \in Readers : listPc'[q] # "idle" =>
                 /\ listPc'[q] = listPc[q] /\ listCall'[q] = listCall[q]
                 /\ listVersion'[q] = listVersion[q] /\ listRows'[q] = listRows[q]
<1>1. /\ IInv /\ ListTypes /\ \A t \in Teams : LogOK(t)
  BY DEF LInv
<1>2. \A t \in Teams : /\ LogOK(t)' /\ log'[t] \in Seq(Lists) /\ floor'[t] \in Nat
                       /\ floor[t] <= floor'[t] /\ generation[t] <= generation'[t]
  <2>1. \A t \in Teams : generation[t] \in Nat /\ generation'[t] \in Nat
    BY <1>1 DEF IInv, TypeOK
  <2> QED
    BY <1>1, <2>1, GhostMoves
<1>3. cached' = cached
  BY DEF listVars, ListCrash
<1>4. \A q \in Readers : listPc'[q] # "idle" =>
                 /\ listPc'[q] = listPc[q] /\ listCall'[q] = listCall[q]
                 /\ listVersion'[q] = listVersion[q] /\ listRows'[q] = listRows[q]
  BY DEF listVars, ListCrash
<1>5. ListTypes'
  <2>1. /\ log' \in [Teams -> Seq(Lists)] /\ floor' \in [Teams -> Nat]
        /\ dirty' \in [Teams -> BOOLEAN] /\ since' = since
    BY <1>2 DEF GhostStep
  <2>2. /\ listPc' \in [Readers -> ListSteps]
        /\ listCall' \in [Readers -> ListCalls \cup {Null}]
        /\ listVersion' \in [Readers -> Nat \cup {Null}]
        /\ listRows' \in [Readers -> Lists \cup {Null}]
    BY <1>1 DEF ListTypes, listVars, ListCrash, ListSteps
  <2> QED
    BY <1>1, <1>3, <2>1, <2>2 DEF ListTypes
<1>6. ASSUME NEW q \in Readers PROVE ReaderOK(q)'
  <2>1. CASE listPc'[q] = "idle"
    <3>1. listCall'[q] = Null
      BY <2>1 DEF listVars, ListCrash, LInv, ReaderOK
    <3> QED
      BY <2>1, <3>1 DEF ReaderOK
  <2>2. CASE listPc'[q] # "idle"
    <3> DEFINE t == listCall[q].team
    <3>1. /\ listPc'[q] = listPc[q] /\ listCall'[q] = listCall[q]
          /\ listVersion'[q] = listVersion[q] /\ since'[q] = since[q]
      BY <1>4, <2>2 DEF GhostStep
    <3>2. ReaderOK(q) /\ t \in Teams
      BY <2>2, <3>1 DEF LInv, ReaderOK, ListCalls
    <3>3. /\ floor[t] <= floor'[t] /\ generation[t] <= generation'[t]
          /\ floor[t] \in Nat /\ floor'[t] \in Nat
          /\ generation[t] \in Nat /\ generation'[t] \in Nat
          /\ listVersion[q] \in Nat \cup {Null} /\ since[q] \in Nat
      BY <1>1, <1>2, <3>2 DEF ListTypes, IInv, TypeOK
    <3> HIDE DEF t
    <3> QED
      BY <2>2, <3>1, <3>2, <3>3 DEF ReaderOK, t
  <2> QED
    BY <2>1, <2>2
<1> QED
  BY <1>2, <1>3, <1>4, <1>5, <1>6

\* What is stored or held under a generation that has come stays good for it.
LEMMA ServiceCovers ==
    ASSUME LInv, IInv', [Next]_taskVars, GhostStep,
           UNCHANGED listVars \/ ListCrash,
           NEW t \in Teams, NEW g \in Nat, g <= generation[t], NEW i \in Nat, Covers(t, g, i)
    PROVE  Covers(t, g, i)' /\ log'[t][i] = log[t][i]
<1>1. /\ Len(log[t]) <= Len(log'[t]) /\ Len(log'[t]) \in Nat
      /\ \A j \in 1..Len(log[t]) : log'[t][j] = log[t][j]
      /\ \/ generation'[t] = generation[t] /\ floor'[t] = floor[t]
         \/ generation'[t] = generation[t] + 1
      /\ generation[t] \in Nat /\ Len(log[t]) \in Nat
  BY GhostMoves DEF LInv, IInv, TypeOK, LogOK
<1>2. i \in 1..Len(log'[t]) /\ log'[t][i] = log[t][i]
  BY <1>1 DEF Covers
<1>3. g = generation'[t] => i >= floor'[t]
  BY <1>1 DEF Covers
<1>4. ASSUME NEW q \in Readers, listPc'[q] \in {"get", "query", "set"},
             listCall'[q].team = t, listVersion'[q] = g
      PROVE  i >= since'[q]
  <2>1. /\ listPc'[q] = listPc[q] /\ listCall'[q] = listCall[q]
        /\ listVersion'[q] = listVersion[q] /\ since'[q] = since[q]
    BY <1>4, ServiceReaders DEF GhostStep
  <2> QED
    BY <1>4, <2>1 DEF Covers
<1> QED
  BY <1>2, <1>3, <1>4 DEF Covers

\* A change leaves a team dirty, and only an increment makes it clean
\* (service.go:76, 164-170, 208-213).
LEMMA ServiceClean ==
    ASSUME LInv, IInv', [Next]_taskVars, GhostStep,
           UNCHANGED listVars \/ ListCrash, NEW t \in Teams
    PROVE  Clean(t)'
<1> SUFFICES ASSUME ~dirty'[t], NEW f \in Filters
             PROVE  LET key == Key(t, f, generation'[t])
                    IN  /\ key \in DOMAIN cached => cached[key] = Listing(t, f)'
                        /\ \A q \in Readers : listPc'[q] = "set" /\ KeyOf(q)' = key =>
                              listRows'[q] = Listing(t, f)'
  BY ServiceReaders DEF Clean
<1> DEFINE key == Key(t, f, generation'[t])
<1>1. \A q \in Readers : listPc'[q] = "set" =>
         /\ listPc[q] = "set" /\ KeyOf(q)' = KeyOf(q) /\ listRows'[q] = listRows[q]
  BY ServiceReaders DEF KeyOf
<1>2. generation[t] \in Nat /\ generation'[t] \in Nat
  BY DEF LInv, IInv, TypeOK
<1>3. CASE generation'[t] = generation[t]
  <2>1. ~dirty[t] /\ \A id \in TeamTasks(t) \cup TeamTasks(t)' : tasks'[id] = tasks[id]
    BY <1>3 DEF GhostStep
  <2>2. Listing(t, f)' = Listing(t, f)
    BY <2>1, SameListing
  <2> QED
    BY <1>1, <1>3, <2>1, <2>2 DEF LInv, Clean
<1>4. CASE generation'[t] # generation[t]
  <2>1. generation'[t] = generation[t] + 1
    BY <1>4, GhostMoves DEF LInv
  <2>2. key \notin DOMAIN cached
    <3>1. key.team = t /\ key.generation = generation'[t]
      BY DEF Key
    <3> QED
      BY <1>2, <2>1, <3>1 DEF LInv, StoredOK
  <2>3. ASSUME NEW q \in Readers, listPc[q] = "set" PROVE KeyOf(q) # key
    <3>1. ReaderOK(q)
      BY DEF LInv
    <3>2. listVersion[q] <= generation[listCall[q].team]
      BY <2>3, <3>1 DEF ReaderOK
    <3> QED
      BY <1>2, <2>1, <3>2 DEF KeyOf, Key
  <2> QED
    BY <1>1, <2>2, <2>3
<1> QED
  BY <1>3, <1>4

LEMMA ServiceStepOK ==
    ASSUME LInv, IInv', [Next]_taskVars, GhostStep,
           UNCHANGED listVars \/ ListCrash
    PROVE  LInv'
<1>1. /\ ListTypes' /\ cached' = cached
      /\ \A t \in Teams : LogOK(t)'
      /\ \A q \in Readers : ReaderOK(q)'
      /\ \A q \in Readers : listPc'[q] # "idle" =>
            /\ listPc'[q] = listPc[q] /\ listCall'[q] = listCall[q]
            /\ listVersion'[q] = listVersion[q] /\ listRows'[q] = listRows[q]
  BY ServiceReaders
<1>2. \A t \in Teams : Clean(t)'
  BY ServiceClean
<1>3. \A t \in Teams : generation[t] \in Nat /\ generation'[t] \in Nat
                       /\ generation[t] <= generation'[t]
  <2>1. \A t \in Teams : generation[t] \in Nat /\ generation'[t] \in Nat
    BY DEF LInv, IInv, TypeOK
  <2> QED
    BY <2>1, GhostMoves DEF LInv
<1>4. ASSUME NEW k \in DOMAIN cached PROVE StoredOK(k)'
  <2>1. StoredOK(k) /\ k \in Keys /\ k.team \in Teams /\ k.generation \in Nat
    BY DEF LInv, ListTypes, Keys
  <2>2. PICK i \in Nat : /\ Covers(k.team, k.generation, i)
                         /\ cached[k] = Matching(log[k.team][i], k.filter)
    BY <2>1 DEF StoredOK
  <2>3. k.generation <= generation[k.team]
    BY <2>1 DEF StoredOK
  <2>4. /\ Covers(k.team, k.generation, i)' /\ log'[k.team][i] = log[k.team][i]
    BY <2>1, <2>2, <2>3, ServiceCovers
  <2>5. k.generation <= generation'[k.team]
    BY <1>3, <2>1, <2>3
  <2> QED
    BY <1>1, <2>2, <2>4, <2>5 DEF StoredOK
<1>5. ASSUME NEW q \in Readers PROVE HeldOK(q)'
  <2> SUFFICES ASSUME listPc'[q] = "set"
               PROVE  \E i \in Nat : /\ Covers(listCall[q].team, listVersion[q], i)'
                                     /\ listRows'[q] = Matching(log'[listCall'[q].team][i],
                                                                listCall'[q].filter)
    BY <1>1 DEF HeldOK
  <2>1. /\ listPc[q] = "set" /\ listCall'[q] = listCall[q]
        /\ listVersion'[q] = listVersion[q] /\ listRows'[q] = listRows[q]
    BY <1>1
  <2> DEFINE t == listCall[q].team
             g == listVersion[q]
  <2>2. /\ HeldOK(q) /\ t \in Teams /\ g \in Nat /\ g <= generation[t]
    BY <2>1 DEF LInv, ReaderOK, ListCalls, ListTypes
  <2>3. PICK i \in Nat : /\ Covers(t, g, i)
                         /\ listRows[q] = Matching(log[t][i], listCall[q].filter)
    BY <2>1, <2>2 DEF HeldOK
  <2>4. Covers(t, g, i)' /\ log'[t][i] = log[t][i]
    <3> HIDE DEF t, g
    <3>1. Covers(t, g, i)
      BY <2>3
    <3> QED
      BY <2>1, <2>2, <3>1, ServiceCovers DEF t, g
  <2> QED
    BY <2>1, <2>3, <2>4
<1> QED
  BY <1>1, <1>2, <1>4, <1>5 DEF LInv

-----------------------------------------------------------------------------
(* Steps of a reader. *)

\* Only reader q moves: it ends, or goes on with its call; where it looks for
\* lists is where it looked, or under the generation of now, or nowhere.
Moves(q) ==
    /\ \A p \in Readers \ {q} :
          /\ listPc'[p] = listPc[p] /\ listCall'[p] = listCall[p]
          /\ listVersion'[p] = listVersion[p] /\ listRows'[p] = listRows[p]
    /\ \/ listPc'[q] = "idle" /\ listCall'[q] = Null
       \/ /\ listPc[q] # "idle" /\ listCall'[q] = listCall[q]
          /\ \/ listPc'[q] = "version"
             \/ listPc'[q] = "get" /\ listVersion'[q] = generation[listCall[q].team]
             \/ listPc'[q] = "query" /\ listVersion'[q] = Null
             \/ /\ listPc'[q] \in {"query", "set"} /\ listPc[q] \in {"get", "query"}
                /\ listVersion'[q] = listVersion[q]
                /\ listPc'[q] = "set" => listVersion[q] # Null

LEMMA StepMoves ==
    ASSUME LInv, NEW q \in Readers, ReaderStep(q) \/ ReaderFault(q)
    PROVE  Moves(q)
<1>1. ListTypes
  BY DEF LInv
<1>2. \A x : Answer(q, x) => Moves(q)
  BY <1>1 DEF Answer, Moves, ListTypes
<1>3. ListRole(q) => Moves(q)
  BY <1>1, <1>2 DEF ListRole, ListGoto, Moves, ListTypes
<1>4. ReadVersion(q) => Moves(q)
  BY <1>1 DEF ReadVersion, ListGoto, Moves, ListTypes
<1>5. ReadCached(q) => Moves(q)
  BY <1>1, <1>2 DEF ReadCached, ListGoto, Moves, ListTypes
<1>6. GetFails(q) => Moves(q)
  BY <1>1 DEF GetFails, ListGoto, Moves, ListTypes
<1>7. Query(q) => Moves(q)
  BY <1>1, <1>2 DEF Query, ListGoto, Moves, ListTypes
<1>8. SetCached(q) \/ SetFails(q) \/ ListFails(q) => Moves(q)
  BY <1>2 DEF SetCached, SetFails, ListFails
<1> QED
  BY <1>3, <1>4, <1>5, <1>6, <1>7, <1>8 DEF ReaderStep, ReaderFault

LEMMA StepTypes ==
    ASSUME LInv, NEW q \in Readers, ReaderStep(q) \/ ReaderFault(q),
           UNCHANGED <<taskVars, ghostVars>>
    PROVE  ListTypes'
<1>1. ListTypes /\ ReaderOK(q) /\ IInv
  BY DEF LInv
<1>2. UNCHANGED ghostVars
  OBVIOUS
<1>3. ASSUME NEW x \in Lists \cup {Null}, Answer(q, x), UNCHANGED cached
      PROVE  ListTypes'
  BY <1>1, <1>2, <1>3 DEF Answer, ListTypes, ghostVars, ListSteps
<1>4. ASSUME NEW step \in ListSteps, ListGoto(q, step), UNCHANGED cached,
             \E v \in Nat \cup {Null} :
                listVersion' = [listVersion EXCEPT ![q] = v] \/ UNCHANGED listVersion,
             \E x \in Lists \cup {Null} :
                listRows' = [listRows EXCEPT ![q] = x] \/ UNCHANGED listRows
      PROVE  ListTypes'
  BY <1>1, <1>2, <1>4 DEF ListGoto, ListTypes, ghostVars
<1>5. ListRole(q) => ListTypes'
  BY <1>3, <1>4 DEF ListRole, ListSteps
<1>6. ReadVersion(q) => ListTypes'
  <2>1. listPc[q] = "version" => listCall[q].team \in Teams
    BY <1>1 DEF ReaderOK, ListCalls
  <2>2. listPc[q] = "version" => generation[listCall[q].team] \in Nat
    BY <1>1, <2>1 DEF IInv, TypeOK
  <2> QED
    BY <2>2, <1>4 DEF ReadVersion, ListSteps
<1>7. ReadCached(q) => ListTypes'
  <2>1. KeyOf(q) \in DOMAIN cached => cached[KeyOf(q)] \in Lists
    BY <1>1 DEF ListTypes
  <2> QED
    BY <2>1, <1>3, <1>4 DEF ReadCached, ListSteps
<1>8. GetFails(q) => ListTypes'
  BY <1>4 DEF GetFails, ListSteps
<1>9. Query(q) => ListTypes'
  <2>1. Listing(listCall[q].team, listCall[q].filter) \in Lists
    BY <1>1, ListingType
  <2> QED
    BY <2>1, <1>3, <1>4 DEF Query, ListSteps
<1>10. SetCached(q) => ListTypes'
  <2> SUFFICES ASSUME SetCached(q) PROVE ListTypes'
    OBVIOUS
  <2> DEFINE t == listCall[q].team
  <2>1. /\ listPc[q] = "set" /\ listCall[q] \in ListCalls /\ listVersion[q] \in Nat
        /\ listRows[q] \in Lists
    <3>1. /\ listPc[q] = "set" /\ listCall[q] \in ListCalls /\ listVersion[q] \in Nat
          /\ t \in Teams /\ HeldOK(q)
      BY <1>1 DEF SetCached, ReaderOK, ListTypes, LInv, ListCalls
    <3>2. PICK i \in 1..Len(log[t]) : listRows[q] = Matching(log[t][i], listCall[q].filter)
      BY <3>1 DEF HeldOK, Covers
    <3>3. log[t][i] \in Lists
      <4>1. log[t] \in Seq(Lists)
        BY <1>1, <3>1 DEF ListTypes
      <4> HIDE DEF t
      <4> QED
        BY <3>2, <4>1
    <3> QED
      BY <3>1, <3>2, <3>3, MatchingType
  <2>2. KeyOf(q) \in Keys
    BY <2>1 DEF KeyOf, Key, Keys, ListCalls
  <2>3. cached' \in [DOMAIN cached' -> Lists] /\ DOMAIN cached' \subseteq Keys
    BY <1>1, <2>1, <2>2 DEF SetCached, ListTypes
  <2> QED
    BY <1>1, <1>2, <2>1, <2>3 DEF SetCached, Answer, ListTypes, ghostVars, ListSteps
<1>11. SetFails(q) \/ ListFails(q) => ListTypes'
  BY <1>1, <1>3 DEF SetFails, ListFails, ListTypes
<1> QED
  BY <1>5, <1>6, <1>7, <1>8, <1>9, <1>10, <1>11 DEF ReaderStep, ReaderFault

\* No reader of another generation is let to a list that is over for it.
LEMMA MovesCover ==
    ASSUME LInv, NEW q \in Readers, Moves(q), UNCHANGED <<taskVars, ghostVars>>,
           NEW t \in Teams, NEW g \in Nat, NEW i \in Nat, Covers(t, g, i)
    PROVE  Covers(t, g, i)'
<1>1. ReaderOK(q) /\ UNCHANGED ghostVars /\ UNCHANGED taskVars
  BY DEF LInv
<1>2. ASSUME NEW p \in Readers, listPc'[p] \in {"get", "query", "set"},
             listCall'[p].team = t, listVersion'[p] = g
      PROVE  i >= since[p]
  <2>1. CASE p # q
    BY <1>2, <2>1 DEF Covers, Moves
  <2>2. CASE p = q
    <3>1. listPc[q] # "idle" /\ listCall'[q] = listCall[q]
      BY <1>2, <2>2 DEF Moves
    <3>2. /\ listCall[q].team = t /\ since[q] \in 1..floor[t]
          /\ floor[t] \in Nat
      BY <1>2, <2>2, <3>1, <1>1 DEF ReaderOK, LInv, ListTypes
    <3>3. CASE listPc'[q] = "get" /\ listVersion'[q] = generation[listCall[q].team]
      BY <1>2, <2>2, <3>2, <3>3 DEF Covers
    <3>4. CASE listPc[q] \in {"get", "query"} /\ listVersion'[q] = listVersion[q]
      BY <1>2, <2>2, <3>2, <3>4 DEF Covers
    <3> QED
      BY <1>2, <2>2, <3>1, <3>3, <3>4, ListAssumption DEF Moves
  <2> QED
    BY <2>1, <2>2
<1> QED
  BY <1>1, <1>2 DEF Covers, ghostVars, taskVars

LEMMA MovesReaders ==
    ASSUME LInv, NEW q \in Readers, Moves(q), UNCHANGED <<taskVars, ghostVars>>
    PROVE  /\ IInv' /\ \A t \in Teams : LogOK(t)'
           /\ \A p \in Readers : ReaderOK(p)'
           /\ \A p \in Readers \ {q} : HeldOK(p)'
<1>1. UNCHANGED ghostVars /\ UNCHANGED taskVars
  OBVIOUS
<1>2. IInv'
  BY <1>1, TaskUnchangedOK DEF LInv
<1>3. ASSUME NEW t \in Teams PROVE LogOK(t)'
  <2>1. Listing(t, Null)' = Listing(t, Null)
    BY <1>1 DEF Listing, Visible, taskVars, tables
  <2> QED
    BY <1>1, <2>1 DEF LInv, LogOK, ghostVars
<1>4. ASSUME NEW p \in Readers PROVE ReaderOK(p)'
  <2>1. ReaderOK(p) /\ UNCHANGED <<since, floor, generation>>
    BY <1>1 DEF LInv, ghostVars, taskVars
  <2>2. CASE p # q
    BY <2>1, <2>2 DEF Moves, ReaderOK
  <2>3. CASE p = q /\ listPc'[q] = "idle"
    BY <2>3 DEF Moves, ReaderOK
  <2>4. CASE p = q /\ listPc'[q] # "idle"
    <3> DEFINE t == listCall[q].team
    <3>1. /\ listPc[q] # "idle" /\ listCall'[q] = listCall[q]
          /\ listCall[q] \in ListCalls /\ since[q] \in 1..floor[t]
      BY <2>1, <2>4 DEF Moves, ReaderOK
    <3>2. generation[t] \in Nat
      BY <3>1 DEF LInv, IInv, TypeOK, ListCalls
    <3>3. listPc'[q] \in {"get", "set"} => listVersion'[q] # Null
      BY <2>4, <3>2, ListAssumption DEF Moves
    <3>4. listPc'[q] \in {"get", "query", "set"} /\ listVersion'[q] # Null =>
             listVersion'[q] <= generation[t]
      BY <2>1, <2>4, <3>2 DEF Moves, ReaderOK
    <3> QED
      BY <2>1, <2>4, <3>1, <3>3, <3>4 DEF ReaderOK
  <2> QED
    BY <2>2, <2>3, <2>4
<1>5. ASSUME NEW p \in Readers \ {q} PROVE HeldOK(p)'
  <2> SUFFICES ASSUME listPc'[p] = "set" PROVE HeldOK(p)'
    BY DEF HeldOK
  <2>1. /\ listPc[p] = "set" /\ listCall'[p] = listCall[p]
        /\ listVersion'[p] = listVersion[p] /\ listRows'[p] = listRows[p]
    BY DEF Moves
  <2> DEFINE t == listCall[p].team
             g == listVersion[p]
  <2>2. t \in Teams /\ g \in Nat
    BY <2>1 DEF LInv, ReaderOK, ListCalls, ListTypes
  <2>3. PICK i \in Nat : /\ Covers(t, g, i)
                         /\ listRows[p] = Matching(log[t][i], listCall[p].filter)
    BY <2>1 DEF LInv, HeldOK
  <2>4. Covers(t, g, i)' /\ log' = log
    <3> HIDE DEF t, g
    <3>1. Covers(t, g, i)
      BY <2>3
    <3> QED
      BY <1>1, <2>1, <2>2, <3>1, MovesCover DEF t, g, ghostVars
  <2> QED
    BY <2>1, <2>3, <2>4 DEF HeldOK
<1> QED
  BY <1>2, <1>3, <1>4, <1>5

\* A list that MySQL has just answered (service.go:113) is the last of its
\* team: it was not over when anybody asked.
LEMMA NowCovers ==
    ASSUME LInv, NEW t \in Teams, NEW g
    PROVE  Covers(t, g, Len(log[t]))
<1>1. LogOK(t)
  BY DEF LInv
<1>2. ASSUME NEW p \in Readers, listPc[p] \in {"get", "query", "set"}, listCall[p].team = t
      PROVE  Len(log[t]) >= since[p]
  <2>1. since[p] \in 1..floor[t]
    BY <1>2 DEF LInv, ReaderOK
  <2> QED
    BY <1>1, <2>1 DEF LogOK
<1> QED
  BY <1>1, <1>2 DEF LogOK, Covers

\* What a reader then holds is what it read, or what it held.
LEMMA StepHolds ==
    ASSUME LInv, NEW q \in Readers, ReaderStep(q) \/ ReaderFault(q), listPc'[q] = "set"
    PROVE  /\ listPc[q] = "query" /\ listRows'[q] = Listing(listCall[q].team, listCall[q].filter)
           /\ listCall'[q] = listCall[q] /\ listVersion'[q] = listVersion[q]
           /\ listVersion[q] # Null
  BY DEF ReaderStep, ReaderFault, ListRole, ReadVersion, ReadCached, GetFails, Query,
     SetCached, SetFails, ListFails, Answer, ListGoto, LInv, ListTypes

LEMMA StepKeepsHeld ==
    ASSUME LInv, NEW q \in Readers, ReaderStep(q) \/ ReaderFault(q),
           UNCHANGED <<taskVars, ghostVars>>
    PROVE  HeldOK(q)'
<1> SUFFICES ASSUME listPc'[q] = "set" PROVE HeldOK(q)'
  BY DEF HeldOK
<1> DEFINE t == listCall[q].team
           g == listVersion[q]
           last == Len(log[t])
<1>1. /\ listPc[q] = "query" /\ listRows'[q] = Listing(t, listCall[q].filter)
      /\ listCall'[q] = listCall[q] /\ listVersion'[q] = g /\ g # Null
  BY StepHolds
<1>2. t \in Teams /\ g \in Nat /\ last \in Nat
  BY <1>1 DEF LInv, ReaderOK, ListCalls, ListTypes, LogOK
<1>3. ASSUME NEW u \in Teams, NEW h \in Nat, NEW i \in Nat, Covers(u, h, i)
      PROVE  Covers(u, h, i)'
  BY <1>3, StepMoves, MovesCover
<1>4. PICK u \in Teams, h \in Nat, i \in Nat : u = t /\ h = g /\ i = last /\ Covers(u, h, i)
  BY <1>2, NowCovers
<1>5. listRows'[q] = Matching(log[u][i], listCall[q].filter)
  BY <1>1, <1>2, <1>4, ListingSelects DEF LInv, LogOK
<1> QED
  BY <1>1, <1>3, <1>4, <1>5 DEF HeldOK, ghostVars

LEMMA StepKeepsStored ==
    ASSUME LInv, NEW q \in Readers, ReaderStep(q) \/ ReaderFault(q),
           UNCHANGED <<taskVars, ghostVars>>, NEW k \in DOMAIN cached'
    PROVE  StoredOK(k)'
<1>1. Moves(q) /\ log' = log /\ generation' = generation
  BY StepMoves DEF ghostVars, taskVars
<1>2. ASSUME k \in DOMAIN cached, cached'[k] = cached[k]
      PROVE  StoredOK(k)'
  <2>1. StoredOK(k) /\ k.team \in Teams /\ k.generation \in Nat
    BY <1>2 DEF LInv, ListTypes, Keys
  <2>2. PICK i \in Nat : /\ Covers(k.team, k.generation, i)
                         /\ cached[k] = Matching(log[k.team][i], k.filter)
    BY <2>1 DEF StoredOK
  <2>3. Covers(k.team, k.generation, i)'
    BY <1>1, <2>1, <2>2, MovesCover
  <2> QED
    BY <1>1, <1>2, <2>1, <2>2, <2>3 DEF StoredOK
<1>3. ASSUME listPc[q] = "set", k = KeyOf(q), cached'[k] = listRows[q]
      PROVE  StoredOK(k)'
  <2>1. /\ k.team = listCall[q].team /\ k.generation = listVersion[q]
        /\ k.filter = listCall[q].filter
    BY <1>3 DEF KeyOf, Key
  <2>2. k.team \in Teams /\ k.generation \in Nat /\ k.generation <= generation[k.team]
    BY <1>3, <2>1 DEF LInv, ReaderOK, ListCalls, ListTypes
  <2>3. PICK i \in Nat : /\ Covers(k.team, k.generation, i)
                         /\ listRows[q] = Matching(log[k.team][i], k.filter)
    BY <1>3, <2>1 DEF LInv, HeldOK
  <2>4. Covers(k.team, k.generation, i)'
    BY <1>1, <2>2, <2>3, MovesCover
  <2> QED
    BY <1>1, <1>3, <2>2, <2>3, <2>4 DEF StoredOK
<1>4. \/ k \in DOMAIN cached /\ cached'[k] = cached[k]
      \/ listPc[q] = "set" /\ k = KeyOf(q) /\ cached'[k] = listRows[q]
  BY DEF ReaderStep, ReaderFault, ListRole, ReadVersion, ReadCached, GetFails, Query,
     SetCached, SetFails, ListFails
<1> QED
  BY <1>2, <1>3, <1>4

LEMMA StepKeepsClean ==
    ASSUME LInv, NEW q \in Readers, ReaderStep(q) \/ ReaderFault(q),
           UNCHANGED <<taskVars, ghostVars>>, NEW t \in Teams
    PROVE  Clean(t)'
<1>1. /\ dirty' = dirty /\ generation' = generation /\ Moves(q)
      /\ \A f : Listing(t, f)' = Listing(t, f)
  BY StepMoves DEF ghostVars, taskVars, tables, Listing, Visible
<1> SUFFICES ASSUME ~dirty[t], NEW f \in Filters
             PROVE  LET key == Key(t, f, generation[t])
                    IN  /\ key \in DOMAIN cached' => cached'[key] = Listing(t, f)
                        /\ \A p \in Readers : listPc'[p] = "set" /\ KeyOf(p)' = key =>
                              listRows'[p] = Listing(t, f)
  BY <1>1 DEF Clean
<1> DEFINE key == Key(t, f, generation[t])
<1>2. /\ key \in DOMAIN cached => cached[key] = Listing(t, f)
      /\ \A p \in Readers : listPc[p] = "set" /\ KeyOf(p) = key =>
            listRows[p] = Listing(t, f)
  BY DEF LInv, Clean
<1>3. key.team = t /\ key.filter = f
  BY DEF Key
<1> HIDE DEF key
<1>4. key \in DOMAIN cached' => cached'[key] = Listing(t, f)
  <2>1. key \in DOMAIN cached' =>
           \/ key \in DOMAIN cached /\ cached'[key] = cached[key]
           \/ listPc[q] = "set" /\ key = KeyOf(q) /\ cached'[key] = listRows[q]
    BY DEF ReaderStep, ReaderFault, ListRole, ReadVersion, ReadCached, GetFails, Query,
       SetCached, SetFails, ListFails
  <2> QED
    BY <1>2, <2>1
<1>5. ASSUME NEW p \in Readers, listPc'[p] = "set", KeyOf(p)' = key
      PROVE  listRows'[p] = Listing(t, f)
  <2>1. CASE p = q
    <3>1. /\ listRows'[q] = Listing(listCall[q].team, listCall[q].filter)
          /\ listCall'[q] = listCall[q]
      BY <1>5, <2>1, StepHolds
    <3>2. listCall[q].team = t /\ listCall[q].filter = f
      BY <1>3, <1>5, <2>1, <3>1 DEF KeyOf, Key
    <3> QED
      BY <2>1, <3>1, <3>2
  <2>2. CASE p # q
    <3>1. listPc[p] = "set" /\ KeyOf(p) = key /\ listRows'[p] = listRows[p]
      BY <1>1, <1>5, <2>2 DEF Moves, KeyOf
    <3> QED
      BY <1>2, <3>1
  <2> QED
    BY <2>1, <2>2
<1> QED
  BY <1>4, <1>5 DEF key

LEMMA ReaderStepOK ==
    ASSUME LInv, NEW q \in Readers, ReaderStep(q) \/ ReaderFault(q),
           UNCHANGED <<taskVars, ghostVars>>
    PROVE  LInv'
<1>1. /\ IInv' /\ \A t \in Teams : LogOK(t)'
      /\ \A p \in Readers : ReaderOK(p)'
      /\ \A p \in Readers \ {q} : HeldOK(p)'
  BY StepMoves, MovesReaders
<1>2. ListTypes' /\ HeldOK(q)'
  BY StepTypes, StepKeepsHeld
<1>3. \A k \in DOMAIN cached' : StoredOK(k)'
  BY StepKeepsStored
<1>4. \A t \in Teams : Clean(t)'
  BY StepKeepsClean
<1> QED
  BY <1>1, <1>2, <1>3, <1>4 DEF LInv

-----------------------------------------------------------------------------
(* A new request, and a list that expires. *)

LEMMA ListBeginOK ==
    ASSUME LInv, NEW q \in Readers, NEW c \in ListCalls, ListBegin(q, c), UNCHANGED taskVars
    PROVE  LInv'
<1>1. /\ IInv /\ ListTypes /\ c.team \in Teams /\ LogOK(c.team)
  BY DEF LInv, ListCalls
<1>2. /\ UNCHANGED <<cached, listVersion, dirty, log, floor, generation, tasks>>
      /\ listPc'[q] = "role" /\ listCall'[q] = c /\ since'[q] = floor[c.team]
      /\ \A p \in Readers \ {q} :
            /\ listPc'[p] = listPc[p] /\ listCall'[p] = listCall[p]
            /\ listRows'[p] = listRows[p] /\ since'[p] = since[p]
  BY <1>1 DEF ListBegin, ListTypes, taskVars, tables
<1>3. IInv'
  BY <1>1, TaskUnchangedOK
<1>4. ListTypes'
  BY <1>1, <1>2 DEF ListBegin, ListTypes, ListSteps
<1>5. \A u, f : Listing(u, f)' = Listing(u, f)
  BY <1>2 DEF Listing, Visible
<1>6. ASSUME NEW u \in Teams PROVE LogOK(u)' /\ Clean(u)'
  <2>1. LogOK(u)'
    BY <1>2, <1>5 DEF LInv, LogOK
  <2>2. ASSUME NEW p \in Readers, listPc'[p] = "set"
        PROVE  listPc[p] = "set" /\ KeyOf(p)' = KeyOf(p) /\ listRows'[p] = listRows[p]
    BY <1>2, <2>2 DEF KeyOf
  <2> QED
    BY <1>2, <1>5, <2>1, <2>2 DEF LInv, Clean
<1>7. ASSUME NEW u \in Teams, NEW g \in Nat, NEW i \in Nat, Covers(u, g, i)
      PROVE  Covers(u, g, i)'
  BY <1>2, <1>7 DEF Covers
<1>8. ASSUME NEW p \in Readers PROVE ReaderOK(p)'
  <2>1. CASE p = q
    BY <1>1, <1>2, <2>1 DEF ReaderOK, LogOK
  <2>2. CASE p # q
    BY <1>2, <2>2 DEF ReaderOK, LInv
  <2> QED
    BY <2>1, <2>2
<1>9. ASSUME NEW p \in Readers PROVE HeldOK(p)'
  <2> SUFFICES ASSUME listPc'[p] = "set" PROVE HeldOK(p)'
    BY DEF HeldOK
  <2>1. /\ p # q /\ listPc[p] = "set" /\ listCall'[p] = listCall[p]
        /\ listVersion'[p] = listVersion[p] /\ listRows'[p] = listRows[p]
    BY <1>2
  <2>2. HeldOK(p) /\ listCall[p].team \in Teams /\ listVersion[p] \in Nat
    BY <2>1 DEF LInv, ReaderOK, ListCalls, ListTypes
  <2>3. PICK u \in Teams, g \in Nat, i \in Nat :
           /\ u = listCall[p].team /\ g = listVersion[p] /\ Covers(u, g, i)
           /\ listRows[p] = Matching(log[u][i], listCall[p].filter)
    BY <2>1, <2>2 DEF HeldOK
  <2> QED
    BY <1>2, <1>7, <2>1, <2>3 DEF HeldOK
<1>10. ASSUME NEW k \in DOMAIN cached' PROVE StoredOK(k)'
  <2>1. StoredOK(k) /\ k.team \in Teams /\ k.generation \in Nat
    BY <1>1, <1>2 DEF LInv, ListTypes, Keys
  <2> QED
    BY <1>2, <1>7, <2>1 DEF StoredOK
<1>11. /\ \A u \in Teams : LogOK(u)' /\ Clean(u)'
       /\ \A p \in Readers : ReaderOK(p)' /\ HeldOK(p)'
       /\ \A k \in DOMAIN cached' : StoredOK(k)'
  BY <1>6, <1>8, <1>9, <1>10
<1> QED
  BY <1>3, <1>4, <1>11 DEF LInv

LEMMA ExpireOK ==
    ASSUME LInv, NEW k \in DOMAIN cached, Expire(k)
    PROVE  LInv'
<1>1. /\ UNCHANGED taskVars /\ UNCHANGED ghostVars
      /\ UNCHANGED <<listPc, listCall, listVersion, listRows>>
      /\ DOMAIN cached' = DOMAIN cached \ {k}
      /\ cached' = [j \in DOMAIN cached \ {k} |-> cached[j]]
  BY DEF Expire, Restrict
<1>2. IInv' /\ ListTypes'
  BY <1>1, TaskUnchangedOK DEF LInv, ListTypes, ghostVars
<1>3. /\ \A u, f : Listing(u, f)' = Listing(u, f)
      /\ \A u, g, i : Covers(u, g, i)' = Covers(u, g, i)
      /\ UNCHANGED <<generation, log, dirty, floor, since>>
  BY <1>1 DEF Listing, Visible, Covers, taskVars, tables, ghostVars
<1>4. \A u \in Teams : LogOK(u)' /\ Clean(u)'
  BY <1>1, <1>3 DEF LInv, LogOK, Clean, KeyOf
<1>5. \A q \in Readers : ReaderOK(q)' /\ HeldOK(q)'
  BY <1>1, <1>3 DEF LInv, ReaderOK, HeldOK, Covers
<1>6. \A j \in DOMAIN cached' : StoredOK(j)'
  BY <1>1, <1>3 DEF LInv, StoredOK
<1> QED
  BY <1>2, <1>4, <1>5, <1>6 DEF LInv

LEMMA ListUnchangedOK ==
    ASSUME LInv, UNCHANGED vars
    PROVE  LInv'
<1>1. /\ UNCHANGED taskVars /\ UNCHANGED ghostVars /\ UNCHANGED listVars
  BY DEF vars
<1>2. IInv' /\ ListTypes'
  BY <1>1, TaskUnchangedOK DEF LInv, ListTypes, ghostVars, listVars
<1>3. \A u, f : Listing(u, f)' = Listing(u, f)
  BY <1>1 DEF Listing, Visible, taskVars, tables
<1> QED
  BY <1>1, <1>2, <1>3 DEF LInv, LogOK, Clean, ReaderOK, HeldOK, StoredOK, Covers, KeyOf,
     ghostVars, listVars, taskVars

LEMMA ListInitOK ==
    ASSUME ListInit
    PROVE  LInv
<1>1. IInv
  BY InitOK DEF ListInit
<1>2. ListTypes
  BY DEF ListInit, ListTypes, ListSteps, Lists
<1>3. ASSUME NEW t \in Teams PROVE LogOK(t) /\ Clean(t)
  <2>1. Listing(t, Null) = {}
    BY DEF ListInit, TaskInit, TablesInit, Listing, Matching, Visible
  <2> QED
    BY <2>1 DEF ListInit, LogOK, Clean
<1>4. \A q \in Readers : ReaderOK(q) /\ HeldOK(q)
  BY DEF ListInit, ReaderOK, HeldOK
<1> QED
  BY <1>1, <1>2, <1>3, <1>4 DEF LInv, ListInit

-----------------------------------------------------------------------------
(* The invariant *)

LEMMA ListNextOK ==
    ASSUME LInv, [ListNext]_vars, ~RedisLoses
    PROVE  LInv'
<1>1. ASSUME RequestNext \/ TeamStatement \/ Crash, GhostStep, UNCHANGED listVars \/ ListCrash
      PROVE  LInv'
  <2>1. Next
    BY <1>1 DEF Next
  <2>2. IInv'
    BY <2>1, NextOK DEF LInv
  <2> QED
    BY <1>1, <2>1, <2>2, ServiceStepOK
<1>2. CASE UNCHANGED vars
  BY <1>2, ListUnchangedOK
<1>3. CASE ListNext
  BY <1>1, <1>3, ReaderStepOK, ListBeginOK, ExpireOK DEF ListNext, Lose
<1> QED
  BY <1>2, <1>3

\* The inductive invariant holds while Redis keeps its data: every list that is
\* stored, or about to be, was one that MySQL had, under a generation that has
\* come (cache/task_list.go:40-80).
THEOREM ListInvariance ==
    ASSUME ~RedisLoses
    PROVE  ListSpec => []LInv
<1>1. ListInit => LInv
  BY ListInitOK
<1>2. LInv /\ [ListNext]_vars => LInv'
  BY ListNextOK
<1> QED
  BY <1>1, <1>2, PTL DEF ListSpec

\* The variables keep their types, the log of a team ends with its list of now
\* (internal/task/types.go, cache/task_list.go:14-30).
THEOREM ListTypeCorrect ==
    ASSUME ~RedisLoses
    PROVE  ListSpec => []ListTypeOK
<1>1. LInv => ListTypeOK
  <2> SUFFICES ASSUME LInv PROVE ListTypeOK
    OBVIOUS
  <2>1. TypeOK /\ ListTypes /\ \A t \in Teams : LogOK(t)
    BY DEF LInv, IInv
  <2>2. \A t \in Teams : log[t][Len(log[t])] = Listing(t, Null) /\ floor[t] \in DOMAIN log[t]
    <3> TAKE t \in Teams
    <3>1. log[t] \in Seq(Lists) /\ LogOK(t)
      BY <2>1 DEF ListTypes
    <3> QED
      BY <3>1 DEF LogOK
  <2> QED
    BY <2>1, <2>2 DEF ListTypeOK, ListTypes, Lists
<1> QED
  BY <1>1, ListInvariance, PTL

\* A reader that read MySQL before a write that has been answered cannot make
\* later readers see what it read (service.go:105-118, cache/task_list.go:62).
THEOREM CleanListsAreExact ==
    ASSUME ~RedisLoses
    PROVE  ListSpec => []CleanCacheIsExact
<1>1. LInv => CleanCacheIsExact
  BY DEF LInv, Clean, CleanCacheIsExact
<1> QED
  BY <1>1, ListInvariance, PTL

-----------------------------------------------------------------------------
(* The readers see no cache: TaskList implements FreshReads. *)

answers == [q \in Readers |-> IF listPc[q] = "idle" THEN listRows[q] ELSE Null]

\* A longer sequence that agrees on the shorter one extends it.
LEMMA AgreeingIsPrefix ==
    ASSUME NEW S, NEW a \in Seq(S), NEW b \in Seq(S), Len(a) <= Len(b),
           \A i \in 1..Len(a) : b[i] = a[i]
    PROVE  Fresh!IsPrefix(a, b)
<1> DEFINE n == Len(a)
           x == SubSeq(a, 1, n)
           y == SubSeq(b, 1, n)
<1>1. n \in Nat /\ Len(b) \in Nat
  OBVIOUS
<1>2. \A i \in 1..n : a[i] \in S /\ b[i] \in S
  BY <1>1
<1>3. /\ x \in Seq(S) /\ Len(x) = IF 1 <= n THEN n - 1 + 1 ELSE 0
      /\ \A i \in 1..(n - 1 + 1) : x[i] = a[1 + i - 1]
  BY <1>1, <1>2, SubSeqProperties
<1>4. /\ y \in Seq(S) /\ Len(y) = IF 1 <= n THEN n - 1 + 1 ELSE 0
      /\ \A i \in 1..(n - 1 + 1) : y[i] = b[1 + i - 1]
  BY <1>1, <1>2, SubSeqProperties
<1> HIDE DEF x, y
<1>5. x = y
  <2>1. Len(x) = Len(y) /\ \A i \in 1..Len(x) : x[i] = y[i]
    BY <1>1, <1>3, <1>4
  <2> QED
    BY <1>3, <1>4, <2>1, SeqEqual
<1> QED
  BY <1>5 DEF x, y, Fresh!IsPrefix

\* Service steps make the log grow, or tell the cache of one team.
LEMMA ServiceStepIsFresh ==
    ASSUME LInv, IInv', [Next]_taskVars, GhostStep, UNCHANGED listVars
    PROVE  [Fresh!Next]_(Fresh!freshVars)
<1>1. IInv /\ ListTypes /\ \A t \in Teams : LogOK(t)
  BY DEF LInv
<1>2. since' = since /\ listCall' = listCall /\ answers' = answers
  BY DEF GhostStep, listVars, answers
<1>3. CASE \A t \in Teams : ~Invalidated(t)
  <2>1. floor' = floor
    BY <1>1, <1>3 DEF GhostStep, ListTypes
  <2>2. ASSUME NEW t \in Teams PROVE Fresh!IsPrefix(log[t], log'[t])
    <3>1. /\ log'[t] \in Seq(Lists) /\ Len(log[t]) <= Len(log'[t])
          /\ \A i \in 1..Len(log[t]) : log'[t][i] = log[t][i]
      BY <1>1, GhostMoves
    <3>2. log[t] \in Seq(Lists)
      BY <1>1 DEF ListTypes
    <3> QED
      BY <3>1, <3>2, AgreeingIsPrefix
  <2>3. Fresh!Grow
    BY <1>2, <2>1, <2>2 DEF Fresh!Grow, answers
  <2> QED
    BY <2>3 DEF Fresh!Next
<1>4. CASE \E t \in Teams : Invalidated(t)
  <2> PICK t \in Teams : Invalidated(t)
    BY <1>4
  <2>1. /\ generation'[t] = generation[t] + 1 /\ UNCHANGED tables
        /\ \A u \in Teams \ {t} : generation'[u] = generation[u]
    BY <1>1, InvalidatedMoves
  <2>2. \A u \in Teams \ {t} : ~Invalidated(u)
    <3>1. \A u \in Teams : generation[u] \in Nat
      BY <1>1 DEF IInv, TypeOK
    <3> QED
      BY <1>1, <2>1, <3>1, InvalidatedMoves
  <2>3. \A u \in Teams : Listing(u, Null)' = Listing(u, Null)
    BY <2>1 DEF Listing, Visible, tables
  <2>4. log' = log
    BY <1>1, <2>3 DEF GhostStep, ListTypes
  <2>5. floor' = [floor EXCEPT ![t] = Len(log[t])]
    BY <1>1, <2>2 DEF GhostStep, ListTypes
  <2>6. Fresh!Tell(t)
    BY <1>2, <2>4, <2>5 DEF Fresh!Tell, answers
  <2> QED
    BY <2>6 DEF Fresh!Next
<1> QED
  BY <1>3, <1>4

LEMMA CrashIsFresh ==
    ASSUME LInv, Crash, GhostStep, ListCrash
    PROVE  [Fresh!Next]_(Fresh!freshVars)
<1>1. IInv /\ ListTypes
  BY DEF LInv
<1>2. UNCHANGED <<tables, generation>>
  BY DEF Crash
<1>3. \A u \in Teams : Listing(u, Null)' = Listing(u, Null)
  BY <1>2 DEF Listing, Visible, tables
<1>4. \A t \in Teams : ~Invalidated(t)
  <2>1. \A t \in Teams : generation[t] \in Nat
    BY <1>1 DEF IInv, TypeOK
  <2> QED
    BY <1>1, <1>2, <2>1, InvalidatedMoves
<1>5. log' = log /\ floor' = floor /\ since' = since
  BY <1>1, <1>3, <1>4 DEF GhostStep, ListTypes
<1>6. answers' = [q \in Readers |-> Null] /\ listCall' = [q \in Readers |-> Null]
  BY DEF ListCrash, answers
<1>7. Fresh!Vanish
  BY <1>5, <1>6 DEF Fresh!Vanish, answers
<1> QED
  BY <1>7 DEF Fresh!Next

LEMMA AskIsFresh ==
    ASSUME LInv, NEW q \in Readers, NEW c \in ListCalls, ListBegin(q, c)
    PROVE  Fresh!Next
<1>1. listCall[q] = Null /\ ListTypes
  BY DEF LInv, ReaderOK, ListBegin
<1>2. answers' = [answers EXCEPT ![q] = Null]
  BY <1>1 DEF ListBegin, ListTypes, answers
<1>3. Fresh!Ask(q, c)
  BY <1>1, <1>2 DEF ListBegin, Fresh!Ask, answers
<1> QED
  BY <1>3 DEF Fresh!Next

\* A request that returns gives its reader one answer, list or error.
LEMMA AnswerIsReply ==
    ASSUME LInv, NEW q \in Readers, NEW rows, listPc[q] # "idle", Answer(q, rows),
           UNCHANGED ghostVars
    PROVE  Fresh!Reply(q, rows)
<1>1. listCall[q] # Null /\ ListTypes
  BY ListAssumption DEF LInv, ReaderOK
<1>2. answers' = [answers EXCEPT ![q] = rows]
  BY <1>1 DEF Answer, ListTypes, answers
<1> QED
  BY <1>1, <1>2 DEF Answer, Fresh!Reply, answers, ghostVars

LEMMA ErrorIsFresh ==
    ASSUME LInv, NEW q \in Readers, listPc[q] # "idle", Answer(q, Null), UNCHANGED ghostVars
    PROVE  Fresh!Next
<1>1. Fresh!Fail(q)
  BY AnswerIsReply DEF Fresh!Fail
<1> QED
  BY <1>1 DEF Fresh!Next

LEMMA ListIsFresh ==
    ASSUME LInv, NEW q \in Readers, NEW rows, listPc[q] # "idle", Answer(q, rows),
           UNCHANGED ghostVars,
           NEW i \in 1..Len(log[listCall[q].team]), i >= since[q],
           rows = Matching(log[listCall[q].team][i], listCall[q].filter)
    PROVE  Fresh!Next
<1>1. listCall[q] # Null /\ since[q] \in Nat /\ Len(log[listCall[q].team]) \in Nat
  BY ListAssumption DEF LInv, ReaderOK, ListTypes, ListCalls, LogOK
<1>2. i \in since[q]..Len(log[listCall[q].team])
  BY <1>1
<1>3. Fresh!Reply(q, rows)
  BY AnswerIsReply
<1>4. Fresh!Answer(q)
  BY <1>2, <1>3 DEF Fresh!Answer, Fresh!Reply
<1> QED
  BY <1>1, <1>4 DEF Fresh!Next

\* A request that goes on has been answered nothing.
LEMMA GotoIsFresh ==
    ASSUME LInv, NEW q \in Readers, NEW step, listPc[q] # "idle", step # "idle",
           ListGoto(q, step), UNCHANGED ghostVars,
           \A p \in Readers \ {q} : listRows'[p] = listRows[p]
    PROVE  UNCHANGED Fresh!freshVars
<1>1. ListTypes
  BY DEF LInv
<1>2. \A p \in Readers : (IF listPc'[p] = "idle" THEN listRows'[p] ELSE Null)
                       = (IF listPc[p] = "idle" THEN listRows[p] ELSE Null)
  BY <1>1 DEF ListGoto, ListTypes
<1>3. answers' = answers
  BY <1>2 DEF answers
<1> QED
  BY <1>3 DEF ListGoto, Fresh!freshVars, answers, ghostVars

LEMMA ReaderIsFresh ==
    ASSUME LInv, NEW q \in Readers, ReaderStep(q) \/ ReaderFault(q), UNCHANGED ghostVars
    PROVE  [Fresh!Next]_(Fresh!freshVars)
<1> DEFINE t == listCall[q].team
           f == listCall[q].filter
<1>1. /\ ListTypes /\ ReaderOK(q) /\ HeldOK(q)
      /\ listPc[q] # "idle" => t \in Teams /\ LogOK(t)
  BY DEF LInv, ReaderOK, ListCalls
<1>2. CASE ListRole(q)
  BY <1>1, <1>2, ErrorIsFresh, GotoIsFresh DEF ListRole
<1>3. CASE ReadVersion(q) \/ GetFails(q)
  BY <1>1, <1>3, GotoIsFresh DEF ReadVersion, GetFails
<1>4. CASE ReadCached(q)
  <2>1. CASE KeyOf(q) \notin DOMAIN cached
    BY <1>1, <1>4, <2>1, GotoIsFresh DEF ReadCached
  <2>2. CASE KeyOf(q) \in DOMAIN cached
    <3>1. StoredOK(KeyOf(q)) /\ listPc[q] = "get"
      BY <1>4, <2>2 DEF LInv, ReadCached
    <3>2. PICK i \in Nat : Covers(t, listVersion[q], i)
                           /\ cached[KeyOf(q)] = Matching(log[t][i], f)
      BY <3>1 DEF StoredOK, KeyOf, Key
    <3>3. i \in 1..Len(log[t]) /\ i >= since[q]
      BY <3>1, <3>2 DEF Covers
    <3>4. Answer(q, cached[KeyOf(q)])
      BY <1>4, <2>2 DEF ReadCached
    <3> QED
      BY <3>1, <3>2, <3>3, <3>4, ListIsFresh
  <2> QED
    BY <2>1, <2>2
<1>5. CASE Query(q)
  <2>1. CASE listVersion[q] # Null
    BY <1>1, <1>5, <2>1, GotoIsFresh DEF Query, ListTypes
  <2>2. CASE listVersion[q] = Null
    <3>1. listPc[q] = "query" /\ Answer(q, Listing(t, f))
      BY <1>5, <2>2 DEF Query
    <3>2. Listing(t, f) = Matching(log[t][Len(log[t])], f)
      BY <1>1, <3>1, ListingSelects DEF LogOK
    <3>3. Len(log[t]) \in 1..Len(log[t]) /\ Len(log[t]) >= since[q]
      BY <1>1, <3>1 DEF LogOK, ReaderOK
    <3> QED
      BY <3>1, <3>2, <3>3, ListIsFresh
  <2> QED
    BY <2>1, <2>2
<1>6. CASE SetCached(q) \/ SetFails(q)
  <2>1. listPc[q] = "set" /\ Answer(q, listRows[q])
    BY <1>6 DEF SetCached, SetFails
  <2>2. PICK i \in Nat : /\ Covers(t, listVersion[q], i)
                         /\ listRows[q] = Matching(log[t][i], f)
    BY <1>1, <2>1 DEF HeldOK
  <2>3. i \in 1..Len(log[t]) /\ i >= since[q]
    BY <2>1, <2>2 DEF Covers
  <2> QED
    BY <2>1, <2>2, <2>3, ListIsFresh
<1>7. CASE ListFails(q)
  BY <1>7, ErrorIsFresh DEF ListFails
<1> QED
  BY <1>2, <1>3, <1>4, <1>5, <1>6, <1>7 DEF ReaderStep, ReaderFault

LEMMA StepIsFresh ==
    ASSUME LInv, [ListNext]_vars, ~RedisLoses
    PROVE  [Fresh!Next]_(Fresh!freshVars)
<1>1. CASE UNCHANGED vars
  BY <1>1 DEF vars, listVars, ghostVars, Fresh!freshVars
<1>2. ASSUME RequestNext \/ TeamStatement, GhostStep, UNCHANGED listVars
      PROVE  [Fresh!Next]_(Fresh!freshVars)
  <2>1. Next
    BY <1>2 DEF Next
  <2>2. IInv'
    BY <2>1, NextOK DEF LInv
  <2> QED
    BY <1>2, <2>1, <2>2, ServiceStepIsFresh
<1>3. ASSUME NEW k \in DOMAIN cached, Expire(k)
      PROVE  UNCHANGED Fresh!freshVars
  BY <1>3 DEF Expire, ghostVars, Fresh!freshVars
<1>4. CASE ListNext
  BY <1>2, <1>3, <1>4, CrashIsFresh, ReaderIsFresh, AskIsFresh DEF ListNext, Lose
<1> QED
  BY <1>1, <1>4

\* Whatever is cached, fails, crashes or expires, a reader is answered one list
\* that MySQL had, whole, and none that was over, as the cache had been told,
\* when he asked (service.go:76-78, 105-120, 164-170, 208-213).
THEOREM CacheIsInvisible ==
    ASSUME ~RedisLoses
    PROVE  ListSpec => FreshReadsSpec
<1>1. ListInit => Fresh!Init
  BY DEF ListInit, Fresh!Init
<1>2. LInv /\ [ListNext]_vars => [Fresh!Next]_(Fresh!freshVars)
  BY StepIsFresh
<1> QED
  BY <1>1, <1>2, ListInvariance, PTL DEF ListSpec, FreshReadsSpec, Fresh!Spec
=============================================================================
