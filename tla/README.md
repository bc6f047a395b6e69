# Verification of tz_task_manager

TLA+ models of the task manager API (Go, MySQL 8, Redis), the TLC runs that
check them on small instances, and proofs, checked by TLAPS, of the results
that matter most for instances of any size. File names below are relative to
`src/internal/` unless they say otherwise.

## 1. The system

One process (`src/cmd/api/main.go`) serves an HTTP API. Every request is a
goroutine that runs a handler, which calls a service, which calls repositories
(MySQL) and the list cache (Redis). Nothing is kept in memory between requests:
the goroutines meet in MySQL and Redis only, and each call to one of these is
where another goroutine's calls may fall.

| Component | State | Operations | Talks to |
|---|---|---|---|
| Task service (`task/`) | none of its own | Create, List, Update, Delete, History | task tables, member roles, list cache |
| Task tables (`repository/task.go`) | `tasks` (row, `version`, `closed_at`, `deleted_at`), `task_history` | CreateWithHistory, FindByID, List, UpdateWithHistory, SoftDeleteWithHistory, ListHistory | MySQL transactions |
| Team service (`team/`) | none of its own | Create, List, Invite, ChangeRole, RemoveMember, Delete | team tables, users |
| Team tables (`repository/team.go`) | `teams`, `team_members` | MemberRole, AddMember, ChangeMemberRole, RemoveMember, HasOpenAssignedTasks, Delete with its cascade | MySQL |
| Task list cache (`cache/task_list.go`) | a version key per team, lists under (team, version, filter) with a TTL | Get, Set, InvalidateTeam | Redis |
| HTTP handlers (`httpapi/`) | none | routing, JSON, outcome to status code | services |
| Process lifecycle (`src/cmd/api/main.go`) | a listener, a pool of connections, an exit code | start, migrate, listen, shut down on a signal | all |
| Comment service (`comment/`, `repository/comment.go`) | `task_comments` | Create, List | task tables, member roles |
| User accounts (`user/`, `repository/user.go`) | `users` | Register, Login | MySQL, auth |
| Authentication (`auth/`) | a key | hash and compare, sign and parse | - |
| Statistics (`stats/`, `repository/stats.go`) | none | Get: the report of a team | the tables of the others |
| Migrations (`migration/`) | `schema_migrations`, the schema | Apply | MySQL DDL |

What is hard about each, and what makes it correct:

* **Task service.** Update and Delete read a row, then a role, perhaps another
  role, and only then write, in a transaction that matches the version they
  read. What they decided on may be old. Correct means: whatever requests fall
  between these calls, and whichever call fails, a row changes only as the
  client whose version it still has asked for; the history has exactly the
  changes; conflicts are not invented; every request is answered.
* **Task tables.** Row and history are written together; a deleted row stays
  deleted; `closed_at` follows the status through any sequence of updates.
* **List cache.** A reader and a writer race over two stores. Lists are never
  deleted: the writer moves the version key on after its commit, and a reader
  stores under the version it read before it read MySQL. Correct means that no
  list is older than a write answered before it was asked for, as long as Redis
  answers, and that nothing stays stale for ever when it does not.
* **Team service.** Check, then act, over several statements without a lock.
  Correct means that a team keeps exactly one owner, that only the owner uses the
  owner's rights, and that the answers tell what happened.
* **Times and pages of tasks.** A request takes its times from the clock and
  stores them later, after calls that may take long. Correct means that the times
  of a row stay in order, that `updated_at` never goes back, and that a client
  who pages through a list in that order misses nothing that stood still.
* **Comments.** Access is checked in two statements before the INSERT. Correct
  means that an answer follows what it answers, that a list misses no
  acknowledged comment, and that who never had access gets nothing.
* **Users, tokens.** Registrations race to a unique key whose collation is looser
  than the service's idea of an address. Correct means that who was welcomed
  stays registered and can log in, and that a token lasts as long as it should.
* **Statistics.** One statement over rows that have a long life of closing,
  reopening and deletion behind them. Correct means that its numbers fit together.
* **Migrations, start and stop.** MySQL commits every DDL statement at once, several
  processes start together, a start may die anywhere, a shutdown may run into its
  time limit. Correct means that what is recorded is there, that nobody serves
  without the schema, and that a clean exit code hides no lost request.
* **Limits.** Lengths are counted in bytes by the services, and in characters by
  the columns and the documentation. Correct means that what is accepted fits.

## 2. Modules

```
TaskData            the rows and the history; the variables of the task tables
  TaskStore         abstract: what the task tables promise
  Repository        the schema and the SQL statements, as operators
    TaskService     concurrent task requests            implements TaskStore
      TaskList      + List requests, the cache and Redis,
                                                        implements FreshReads
    TeamService     concurrent team requests
    CommentService  concurrent comment requests
  TaskManager       TaskService and TeamService on the same tables,
                                                        implements TaskService
    Rights          + what the checks of a request could have found
FreshReads          abstract: what the list of a team promises
TimedTasks          the times of a task, taken early and stored late
  TaskPages         + a client that pages through a list, the cached pages
  TeamStats         + comments, roles and the requests for a report
Migration           the starts of several processes over one database
  Lifecycle         + listener, requests in flight, signals, shutdown
Tokens              what Issue signs and Parse accepts
Limits              the lengths of texts that are accepted, stored and hashed
  UserService       over both: registrations, logins, the use of tokens
...Proofs           theorems: TaskStore, TaskService, TaskManager (with Rights), TaskList,
                    CommentService, UserService (with Limits), Migration (with
                    Lifecycle), TimedTasks (with TeamStats)
MC...               instances for TLC
```

**TaskData, Repository.** `tasks`, `history`, `teams` and `members` are the
tables; `lastTask` is AUTO_INCREMENT. Each repository method that writes is one
atomic operator, since it is one statement or one transaction whose row lock is
held to the commit: `UpdateWithHistory` matches `id`, `version` and
`deleted_at IS NULL`, rewrites every mutable column, and appends the entry. The
foreign keys are in the guards (`CreateWithHistory`, `AddMember`) and in the
cascade of `DeleteTeam`. `ChangeMemberRole` does not match a member who has the
role already: MySQL counts rows that change (the DSN does not set
`clientFoundRows`), and `RowsAffected` is all the code sees.

**TaskService.** `pc[r]` is the call that request `r` makes next, `call[r]` what
its client asked for, `current[r]` and `role[r]` the local variables of the
handler's service method, `reply[r]` its outcome. One action is one call together
with the code up to the next one:

| Actions | Code (`task/service.go`) |
|---|---|
| `Reject`, `Begin` | the checks before any call |
| `Find` | `tasks.FindByID` |
| `CreateRole`, `UpdateRole`, `DeleteRole`, `HistoryRole` | `members.MemberRole` and the checks that follow, in the code's order (`UpdateVerdict`, ...) |
| `CheckAssignee` | `validateAssignee` |
| `Write`, `WriteConflict`, `InsertFails` | the transaction commits, matches no row, or violates a key |
| `InvalidateTeam`, `InvalidateFails` | `cache.InvalidateTeam`, whose error is dropped |
| `ListHistory` | `tasks.ListHistory` |
| `CallFails`, `CommitUnknown`, `Crash` | an error without effect, an effect whose answer is lost, the end of the process |
| `TeamStatement` | any statement of the team service, at any time |

A slot of `Requests` serves one request after another.

**TaskList** adds readers (`listPc`, `listCall`, `listVersion`, `listRows`), the
lists in Redis (`cached`), their expiry and the loss of Redis's data. A list is
stored under the version read at the start (`KeyOf`), and not stored at all when
`Get` failed. Four history variables are written and never read by the steps:
`dirty` (tasks changed since the version moved), `log` (the lists that MySQL has
had), `floor` (where the log was when InvalidateTeam reached Redis last) and `since`
(the floor when a reader began).

**FreshReads** knows of no cache and no MySQL: a reader is answered what it asked
for from one list of the log, and from none before its `since`. `FreshReadsSpec`
says that TaskList implements it, whether Redis fails or not: a write whose
invalidation is lost does not raise the floor. The mapping gives `listCall`
for what is asked, and `listRows` of an idle reader for its answer.

**TeamService, TaskManager.** Team requests in the same style; `TeamWrite` runs
the statement, `TeamWriteFails` is a statement that changes no row or violates a
key, with the outcome the code makes of it. TaskManager lets both kinds of
requests interleave in one process.

**TaskStore** is the abstract specification: each step writes one row and one
history entry, and the entry is exactly the difference. It knows of no requests,
roles, versions of clients or faults. TaskService keeps the same tables, so the
refinement mapping is the identity, the modules share the variables, and the
refinement is the property `StoreSpec`. In the same way `TaskServiceSpec` says
that TaskManager implements TaskService: what team requests do is one of the
statements that TaskService allows for.

**Rights** adds history variables to TaskManager: the roles that the actor and the
member of a removal have had since the request began, and who has been of the team of
a task request. They say what the checks of a request are still worth when it
writes, many statements later.

**CommentService** has one action per call of `accessibleTask`, one for the look at
the clock (`TakeTime`), and the INSERT under its two foreign keys; the tables are
those of Repository, changed by `OtherStatement`, and `Cascade` takes the comments
of a task whose row goes. History variables record which creations had been
answered when a request began, and whether its checks could have held since.

**TimedTasks** looks at the tasks again with their times and without rights and
texts: `Create` and `Stamp` read the clock into `draft[w]`, `Insert` and `Write`
store it later, if the version still matches. **TaskPages** adds a client that asks
for page after page, the cache in which every page is kept for itself, and the order
of the list (`Newer`); what MySQL may do about ties is in `Orders`.
**TeamStats** adds comments, roles and requests for a report, whose operators are
named after the parts of the statement (`team_tasks`, `status_counts`, ...).

**Tokens, UserService.** An address is what `normalizeEmail` makes of it, and
`Collated` what the collation of the column makes of that. `StoreUser` is the INSERT
under the unique key. `IssueToken` and `Authenticate` are the two ends of a token's
life on one clock, whose instants are finer than its whole seconds.

**Migration, Lifecycle.** `stage[p]` is the call that process `p` makes next while it
starts; a file is executed table by table (`Execute`), since MySQL commits each. A
process that dies may leave MySQL at work on its file (`orphan`). Lifecycle goes
on where Migration ends: `listener[p]` is the goroutine of `ListenAndServe`,
`stage[p]` the select of `run`, the wait of `Shutdown` and the deferred calls, and a
request in flight meets an open or a closed pool.

**Limits.** Operators only. A text is how many characters of each width in UTF-8 it has,
and blanks; `Accepts` is what the services make of it, `Holds` what the columns and
bcrypt do. UserService asks `Accepts` of passwords.

Operators under a comment `Wrong: ...` are not part of the models: each is a
plausible mistake in the definition that follows it (a dropped condition, a
missing reset, a retry), and some property rejects the model that uses it.
`PROJECT.json` lists them under `mutants`.

## 3. What is abstracted

* A title stands for title and description. Texts, statuses, roles and ids that
  the service rejects are one value `Invalid`; Limits says which texts are too
  long.
* A transaction is atomic. InnoDB would let a plain read of another request
  fall before its commit, which is the same as falling before the transaction
  here, since every read in these services is a statement of its own.
* In TaskList a list is a set: order and pages are in TaskPages. A List request
  that is malformed is refused before any call and changes nothing; it is left
  out, and an invalid filter is refused where the code does it, after the role is
  read. In TaskPages Redis answers, no process dies, and roles and filters are left out.
* Time stamps of TaskService are NULL or set; the times themselves are in
  TimedTasks, whose clock is one (one process serves) and never steps back, and may
  stand still between two readings. TeamStats takes MySQL's clock for the same
  one, counts in seconds, keeps an average as sum and count, and deletes no team.
* A hash stands for its password, a signed token for its claims. Names of users
  take no part in any decision but that of their length.
* In Migration the embedded files are a constant: their versions are 1, 2, ..., and a
  file is the number of tables it creates. net/http, and MySQL's treatment of a
  client that is gone, are modelled from how the code uses them.
* `MaxTasks` bounds the ids. A create that finds none left ends with an error,
  as when the INSERT fails.
* A team has one creation: an id is not handed out again.
* `CallFails` stands for any error of a call, a context cancelled by a client
  that has gone included. The runs with `RedisFails = FALSE` therefore also
  assume that no client goes away between the commit and the increment.

## 4. Runs

| Run | Question | Instance | Expected |
|---|---|---|---|
| `task_race` | Is a version read outside the transaction a sound lock? Does the history account for every change? | 2 task requests, 1 task, 2 users, clients' versions up to 1 (3 versions of a row), faults, crashes, team statements | pass |
| `list_race` | Can a list be older than a write whose invalidation reached Redis, or one that MySQL never had? | 2 writers, 1 reader, errors of Redis | pass |
| `list_expiry` | Does anything stale stay for ever? | 1 writer, 1 reader, errors and restarts of Redis, fair expiry | pass |
| `team_race` | Does a team keep one owner, who alone has the owner's rights? Who can be removed by whom, in the end? | 2 team requests of any kind, 3 users | pass |
| `team_tasks` | Do team requests do what TaskService expects, who can be assigned a task in the end, and is every request answered? | 1 team request, 1 task request, 2 users | pass |
| `team_removal` | Can a member be removed with an open task? | 1 team request, 1 task request, 2 users | **violation** |
| `lifecycle` | What holds of schema and record whatever dies when, and who serves over it? Does a clean exit hide a lost request? Does a process that is told to stop do so, and do starts succeed when nobody dies? | 2 processes, 2 files of 2 tables and 1, 1 client, 1 death, 1 failure of a listener or crash, handlers that may hang | pass |
| `migration_stuck` | Does a start succeed after one death? | 1 process, 1 file of 3 tables, 1 death | **violation** |
| `comment_race` | Is the order of comments that of the conversation? Is an acknowledged one ever lost? Who gets through the checks? | 2 requests, 2 comments, 2 users, a clock of 2 readings | pass |
| `accounts` | Does who was welcomed keep his account, and can he log in? How long does a token open the API? | 2 requests, 5 addresses of which 3 collate alike, passwords of 0, 72 and 74 bytes, seconds of 2 instants, a time to live of 1 | pass |
| `task_pages` | Do times that are stored late go back? What do pages show that are read one by one, and cached? | 2 writers, 1 reader, 2 tasks, pages of 1 | pass |
| `stats` | Do the numbers of a report fit together, over rows of any past? | 1 writer (overlapping ones: `task_pages`, and the theorems of TimedTasksProofs, for any number), 2 tasks, 1 assignee, a top of 1, 2 edits | pass |

**Bounds, and why they are enough.** Requests on different teams share
no rows, and those on different tasks of a team share its members only, so one task
and one team have the interesting cases; a race of the optimistic lock, of a check and its act, or of a
writer and a reader is between two. Two users have every relation to a task
(creator, executor, manager, outsider, no member: the roles change freely under
`TeamStatement`); three are there where an owner, an admin and a member must meet.
`MaxVersion` bounds what clients send, so that rows end at `MaxVersion + 1` (and a
deletion one later). `Founders` bounds who creates teams, which a permutation of
users makes harmless. `ClientOps` and `TeamOps` leave out operations that the
question is not about. `CreateInputs` and `UpdateInputs` have a field alone,
several together, and a rejected one. In `task_race` they are chosen so that a mere
executor comes to his write (`t1` is created open and assigned to `u2`, who may close it)
while another request takes the task from him or closes it (`ExecutorChangesOnlyStatus` is
about that race). With clients' versions up to 1 a task is updated once and then deleted
there, so a task is closed or opened again once; a bound of 2 does not fit the time of a
run. Longer sequences are covered by the theorems, which have no bound. Deadlock is checked everywhere.

Two processes race for a migration, a second file shows that the loop goes on
past the first, and one death leaves a file behind that runs into one that is
started anew. Two comments give every order of two times and two ids; two tasks
and pages of one give every page boundary, and a write of either task before,
between and after the pages. `Window`, `TopSize` and `Limit` stand for 30 days,
3 and up to 100: the properties compare against the parameters, and the
instances of a window of 0 seconds and pages of 1 have something on both sides
of each. `Second` and `Ttl` are chosen so that a time to live is no whole number
of seconds, the case in which truncation shows.

`VIEW`s leave out what no step reads (`reply`, how an address is typed, the generation where no
reader is, the histories where no property of the run reads them); every property
of such a run reads only what the view keeps, or the step itself. Symmetry is over
request slots, in runs without liveness properties.

## 5. Fairness

`FairRightsSpec` (by `ManagerFairness`) and `FairListSpec` assume weak fairness
of each request's next step, and of nothing else but the expiry of a list: the
goroutine is scheduled by Go and a call to MySQL or Redis returns (an error is a
fault of its own, on which there is no fairness, and which ends the request
too). Redis drops a list after its five minutes (`src/cmd/api/main.go:92`).
Arrivals, faults, crashes and team statements are not fair: they may happen or
not.

`StaleListsVanish` is stated as eventually-always: versions are bounded, so writes
end, and what is asserted is that no error, crash or restart before that leaves
a stale list in a place where readers look.

`FairMigrationSpec` assumes that a process that is down is started again, by an
operator or a supervisor (`src/docker-compose.yml` gives the API no restart policy, so
nothing in the repository does it), that its calls return, and that MySQL ends the file
of a client that is gone; deaths are not fair. `FairLifeSpec` assumes the same
of the start, and of the goroutine of `run` with the timer of `Shutdown`:
handlers may hang for ever, and that is the case `SignalStops` is about.
`StartsSucceed` asks for a run without deaths, `EventuallyServes` does not.

## 6. Proofs

All are for any sets of users, teams, titles and requests and any bounds, under
the named assumptions on constants (sentinels such as `Null` differ from real
values; bounds are natural numbers; inputs are of the right shape).

* **TaskStoreProofs.** `SInv` says that the rows, the ids and the histories fit
  together. `HistoryExplainsRow` is not inductive by itself: the argument for
  appending an entry needs that the entries have their types, that an id without
  a row has no history, and that ids above `lastTask` have no row. The
  lemmas `RecordsBefore`, `RecordsNew`, `RecordsKept` and `AccountsNext` say what
  one more entry does to what a history records.
* **TaskServiceProofs.** `IInv` is types, `ClosedIffDone`, "ids not handed out
  have no row", and per request `RequestOK` (what its checks have established at
  each `pc`: the named version was compared, the input is valid, something changes)
  and `Fresh`. `Fresh` is the heart: a row that was read is the row of the table,
  or the table has moved to a later version or has no row any more, *and none
  comes back*, which is why the part about ids is needed. `Commit` then
  writes over exactly the row the request decided on. From it follow `TypeCorrect`,
  `SnapshotsAreFresh`, `ClosedWhileDone` and the refinement
  `ServiceImplementsStore`, through which the theorems of TaskStore hold of the
  service: `ServiceHistoryIsExact` and `ServiceDeletionIsFinal`.
  `OneWinnerPerVersion` says of a step that commits an update or a deletion that it finds
  as many entries in the history as the version the request is based on, and adds one that
  names the request's actor and changes. A second winner of the same version, even one that
  starts long after the first was answered, would find one entry more. `OneWinner` follows
  from `Fresh` (who commits holds the version of the row) and from `ServiceHistoryIsExact`
  (a row of version v has v entries). `WInv` adds `Settled`, what the other properties of
  single requests need: `UpdatesAreAsAsked`, `ExecutorsChangeStatus` and `ConflictsAreReal`
  are action properties that follow from the invariants before the step.
* **TaskManagerProofs.** `TInv` says what a team request has checked at each step
  and that the actor of an owner's request is still the owner when it writes
  (nobody demotes or removes an owner; only the deletion of the team ends it).
  Hence `TeamHasOneOwner`, `OwnerActs`, and `ManagerImplementsTaskService`, by
  which what is proved of TaskService holds of the composition
  (`ManagerImplementsStore`). For Rights, `RInv` says of a removal that the roles it holds
  are among those its actor and its member have had, and that the rights it was
  given were among those that such roles give; and of a task request that the team its
  assignee was looked up in is the team of its row, unless the row is gone. The latter
  needs that a row never changes its team (`RowKeepsTeam`), although requests read
  it in one statement and write it in another. `RemovalsWereAllowed` and
  `AssigneesWereMembers` follow; `RightsImplementsManager` carries everything else over.
* **TaskListProofs.** All under the hypothesis `~RedisLoses`: errors of Redis, expiry, crashes
  and lost invalidations are in; a restart of Redis that loses the generations is not
  (it hands generations out again, and a reader may then find what was stored under
  one long ago; that this does not last is what `list_expiry` checks).
  `CleanCacheIsExact` is not inductive: nothing in it keeps a reader from holding an old list
  under a generation that is still to come. `LInv` says that generations of readers and of
  lists are past or present, and of every list, stored or held, that it was the list of the
  team at some index of the log, not before the point since which anybody asks who may
  still find it (`Covers`): those who look under the same generation, and, while that
  is the current one, those who come later. An increment of the generation raises the
  floor and at once puts every older list out of reach; this is the step on which the
  proof turns (`CleanListsAreExact`). `CacheIsInvisible` is the refinement, step by step: a
  commit of a task or team statement maps to `Grow`, the increment to `Tell`, the first step
  of a reader to `Ask`, a hit and the end of a miss to `Answer` (the index is the one of
  `Covers`), refusals and failed calls to `Fail`, a crash to `Vanish`, and all else to a
  stutter.
* **CommentServiceProofs.** `AnswersFollow` relates comments of requests that never meet, and
  `ListIsComplete` the list of one request to the acknowledgements of others, whose rows the
  table could have lost since. `CInv`
  adds that the time a request has taken is not before that of any comment it has been
  told of (`StampOK`: the clock is read after the request began), that ids are handed out
  in order, and that no acknowledgement is of a comment that is still to come.
  `AccessWasHad` needs that the team in which the task was found is still that of the
  task, or is deleted and has no members (`FoundOK`): a membership that is found
  in the second statement is one in the team of the task of the first.
* **UserServiceProofs.** `UInv` has the unique key as the table keeps it (`TableOK`), by which
  the row of a welcome stays the only one of its address, and, of a login, that the row it
  found is of the address asked for (`LoginsAreHonest`). Of a token it says that it is what
  `Issue` made at the instant kept in `issued`; `TokensLive` is then arithmetic about two
  truncations, for every grain of the second and every time to live. The lemmas on
  Limits say that a text has at most as many characters as bytes: hence
  `AcceptedTextsAreHeld`, for every text.
* **MigrationProofs.** `RecordedIsApplied` is not inductive: that the INSERT may come
  needs that the file of the process that makes it ran to its end. The invariant says
  of every file under way, of a live process or of a dead one, that the tables before
  the statement it is at are there, of a process that records or commits that all
  of its file are, and of every process that the versions below its own are
  applied. Tables are never dropped, so a step of one process takes nothing from
  another, and `RecordedApplied` and `ServingSchema` follow for any number of
  processes, files and deaths.
  `LifeImplementsMigration` shows that Lifecycle refines Migration, with "shutdown" and
  "closing" mapped to "serving": shutting down is a stutter, the end of a process is `Stop`.
  `CleanExitLosesNothing` needs `LifeInv`: only a process that serves listens, so
  none is given a request once its shutdown has begun; a request is with a process
  that serves or shuts down; and who is closing with a request in flight does not
  exit with 0. `CleanExits` follows.
* **TimedTasksProofs.** `TimesInOrder` is not inductive: a row is overwritten with what a
  writer put together long before. `TimedInv` says of every draft that it fits the
  step its writer is at (`Fits`): its times are in order but for an `updated_at` that is
  yet to be stamped (`NearlyInOrder`), it is no newer than the clock, and, if its
  version is still that of the row, it is no older than the row (`Follows`). Matching the
  version is what makes the overwriting write follow its row, whence
  `TimesAlwaysInOrder` and `UpdatedNeverGoesBack`, for any number of writers and tasks.
  TeamStats keeps `TimedInv`; with `StoredInv` (no row is newer than the last write to its
  team) and `AskInv` (who is past the check was allowed) it gives `IdleTeamsHaveNoTop`
  and `AverageIsOverDone`, the part of `ReportAddsUp` that is not about sums.

**Only model-checked:**

* the liveness properties (`AllRequestsReturn`, `StaleListsVanish`, `EventuallyServes`,
  `StartsSucceed`, `SignalStops`), which are out of the prover's reach, and with
  `StaleListsVanish` whatever is said of a Redis that loses its data;
* `ReportAddsUp`: its sums are folds over sets, and what a fold computes takes an
  induction over data that the provers cannot do;
* `QuietPagesExact` and `UntouchedNotSkipped`: where a task stands in a list sorted by
  time is a count of the tasks before it, and no proof is there yet.

Of the type invariants, the runs list those of the task and the team service. Those of
TaskList, CommentService, UserService, TimedTasks, Migration and Lifecycle are proved
(`ListTypeCorrect`, `CommentTypesCorrect`, `AccountTypesCorrect`, `TypesAlways`,
`MigrationTypeCorrect`, `LifeInvariance`). `PagesTypeOK` and `StatsTypeOK` state the
types for the reader and can be added to the INVARIANTS of the configurations, where
they hold.

## 7. Findings

1. **A member can be removed with an open task** (`team_removal`). `RemoveMember`
   asks `HasOpenAssignedTasks` and deletes in two statements
   (`team/service.go:149`); a task assigned in between stays with a user who is
   no member. `docs/openapi.yaml:189` excludes it.
2. **A start that dies in a migration is never made good** (`migration_stuck`). The
   transaction of `apply` (`migration/migration.go:109`) protects nothing, since MySQL
   commits each CREATE TABLE at once. A process that dies between the first table
   and the row of `schema_migrations`, or whose ten seconds are over there
   (`src/cmd/api/main.go:50`), leaves tables on which every later start fails.
   `src/README.md:50` says that a start applies what is not applied.

Further observations, made while modelling; the models behave like this, and no
run is about them:

* `Delete` drops the error of `InvalidateTeam` (`task/service.go:212`) and answers 204; the
  list cached under the unchanged version holds the task until it expires.
  `docs/openapi.yaml:341` says that the task is hidden from the API. What does hold
  is `FreshReadsSpec` and `StaleListsVanish`.
* When another request sets the same role between the read and the UPDATE of
  `ChangeRole`, the UPDATE changes no row, which `repository/team.go:155` takes for a
  missing member: a member who is there is answered 404 (`docs/openapi.yaml:515`).
* Membership is checked before the INSERT of a comment and in another statement
  (`comment/service.go:50-55`), so the author may be no member any more when it is
  added; the comment at line 40 says that only a member adds one. What does hold is
  `AccessWasThere`: he was one during the request.
* The unique key ignores accents (`000001_init.up.sql:9`), `normalizeEmail` does not: an
  address that is not registered can be answered as if it were
  (`repository/user.go:31`, `docs/openapi.yaml:521`). What does hold is `WelcomeIsKept`.
* Limits are in bytes: 51 Cyrillic letters are too long for a name of at most 100
  characters (`user/service.go:95`, `docs/openapi.yaml:572`). What does hold is
  `AcceptedTextsAreHeld`.
* The role that opens a report is read in a statement before the report
  (`stats/service.go:44`): who is demoted or removed in between still gets it. The guard says
  all that holds, so no property is about it.
* With the cache, a page may be older than the page before it, because it was cached
  before a write that the other has seen; a task that nobody touched can then be
  skipped. `UntouchedNotSkipped` says under which conditions it is not.

## 8. Not modelled, and the plan

Left out for good: reading the environment, logging, hashing, signing, JSON and
routing (input, output and library code); `GET /teams`, one statement that
reads; the names in a report; the recovery of MySQL and Redis themselves. A
configuration with several processes that serve at once is modelled for what
they share at the start (Migration, Lifecycle); the requests of TaskManager are
those of one process or of several alike, as goroutines share no memory, except
that CommentService and TimedTasks assume one clock.

What is left is proofs:

1. `UntouchedNotSkipped`, first for pages that are all read from MySQL: a task that is not
   touched only moves back in the list while none is deleted, so that the tasks before it
   that were answered never fall behind the offset. It takes the order of `Orders` as
   facts about a sequence, and a lemma on how many tasks are before another one.
2. `QuietPagesExact`, from the same lemmas.
3. `PagesTypeOK`, and `StatsTypeOK` but for its sums.
