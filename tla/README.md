# Verdox: a verification project

Verdox runs the test suites of GitHub repositories on forks it owns: a Go
backend (`src/backend`, Echo, Postgres, Redis), a Next.js frontend and GitHub
Actions as the machine that executes. This directory models the part of the
backend where several goroutines, requests and external services meet, checks
it with TLC on small instances, and proves with TLAPS, for all of them, every
safety property that is checked there.

- `JobQueue`, `JobDelivery`: the Redis queue and its workers.
- `RunLifecycle`: a test run from the request to the verdict.
- `RunRecords`: the rows of runs and what a report becomes in the database.
- `RepositoryForks`: a repository, its fork, its suites, its branch cache.
- `TeamMembership`, `Accounts`: who may do what, and how that changes.
- `JobQueueProofs`, `JobOrderProofs`, `RunLifecycleProofs`, `RunRecordsProofs`,
  `RunReportProofs`, `RepositoryForksProofs`, `TeamMembershipProofs`,
  `AccountsProofs`: theorems about them, see section 4.
- `MC*` and the `.cfg` files: the instances.
- `PROJECT.json`: runs, mutants, the source lines of every definition, hazards.

To run: `tlc -workers 2 -config MCJobQueue_live.cfg MCJobQueue`;
`tlapm JobQueueProofs.tla`. The proof modules of the queue take a minute or two
each, the others up to ten; each extends the module it is about,
`RunLifecycleProofs` those of the queue, and `RunReportProofs` extends
`RunRecordsProofs`.

## 1. Inventory

Paths are below `src/backend/internal` unless they say otherwise. "Hard" is
what a test would hardly reach; "Right" is what makes the component correct.

**Job queue** (`queue/queue.go`, `model/job_payload.go`).
State, all in Redis: a list for each repository, a lock key for each repository
(`active`, with a TTL), a list for each worker (`processing`). Operations:
`Push`, `Pop` (SCAN, EXISTS, RPOP, SET, LPUSH), `Ack` (DEL, LREM),
`RemoveByRunID`, `PublishCancel`/`SubscribeCancel`, `AppendLog`/`GetLogs`.
Called by the API (push, cancel) and the workers (pop, ack).
Hard: `Pop` is five commands without a transaction; each can fail, or be
applied and reported as failed; the process can die between any two.
Right: a job is in one place, is handed out once, is lost only where the design
accepts it; one active run for each repository; no repository blocked for ever.

**Worker pool and `executeJob`** (`runner/runner.go`).
State: goroutines, their context, the payload in hand. Operations: `Start`,
`runWorker`, `executeJob`, `Shutdown`. `executeJob` looks up the fork, marks the
run started, calls the executor, marks a failure, and acknowledges.
Hard: `Shutdown` cancels the context under the worker's commands; every UPDATE
ignores its error and does not look at the status it replaces.
Right: a shutdown ends, drains, and a job once taken gets a verdict.

**Fork executor** (`runner/fork_gha_executor.go`).
`Execute`: `EnsureBranchWorkflows`, `DispatchWorkflow`, register with the
poller. `Rerun` and `Cancel` exist and nobody calls them.
Hard: the branch can move between the first two; a dispatch can be delivered
although it is reported as failed. Right: the run is registered with the commit
GitHub runs.

**Poller** (`runner/gha_poller.go`).
State: the map `activeRuns` under a mutex. Operations: `Register`, a tick of 15 s
(`poll`, `findWorkflowRun`, `handleCompletion`, artifact and logs), and
`recoverActiveRuns` at a start. Meets the callback and cancels in the row.
Hard: the status is read several network calls before the write; a workflow is
identified by its `head_sha` alone; recovery rebuilds the map from the rows.
Right: each run gets the verdict of its own workflow, and leaves the map.

**Callback of a workflow** (`handler/webhook.go`). `GHACallback` refuses a
terminal run, stores the results, writes the status; `Ingest` accepts a whole
report. Hard: it may come late, twice, or never.

**Test runs** (`service/test_run_service.go`, `repository/test_run_repo.go`,
`model/test_run.go`). `TriggerRun` (commit cache, run number, INSERT, push),
`RerunRun`, `CancelRun`, `RunAll`. Hard: INSERT and push are not atomic, nor are
MAX+1 and INSERT, nor the look for an earlier run and the INSERT. Right: a run
that was accepted ends, a commit is not tested again for nothing.

**Ingestion** (`service/ingestion_service.go`, test group and case
repositories). Groups, cases and the summary of a report, in three
transactions; `IngestHierarchical` makes a run for each job of a report. Hard: a
failure between them, and the unique index on groups when the same report
arrives by the callback and by the poller. Right: what is stored is the report,
once; the counts, the duration and the status follow from it.

**Forks** (`service/fork_service.go`, `handler/fork.go`). `fork_status` of a
repository, the fork on GitHub and its branches. `SetupFork`,
`RefreshSuiteWorkflows`, `PushSuiteWorkflows`, `EnsureBranchWorkflows`,
`RecoverStuckForks`. Hard: concurrent set-ups, crashes in the middle, suites
edited while their files are pushed, a fork that GitHub has accepted and not made.
Right: a fork that reads ready was asked for and has its name, none stays "forking",
the branch holds the workflows of the suites.

**Repositories and suites** (`service/repository_service.go`,
`service/test_suite_service.go`). Add, reactivate, resync, delete; the cache of
branches in Redis. Hard: two INSERTs, goroutines left behind by requests, a
cache filled from an old reading. Right: an added repository can be reached, a
resync is seen.

**Teams** (`service/team_service.go`, `handler/team.go`,
`middleware/team_role.go`). Members with role and status, join requests. Hard:
counts of admins read before the update they guard, requests reviewed twice,
inserts that meet a row. Right: a team keeps an admin, an approved request has
its member, whoever is decided about is told.

**Accounts, bans and sessions** (`service/admin_service.go`,
`service/auth_service.go`, `middleware/auth.go`). Hard: whole rows written back
over single columns, last-root counts, rotation of refresh tokens, sessions
opened while they are ended, review attempts counted before they are stored.
Right: a ban stands, a root remains, a session rests on an account in good
standing and its password.

**Rate limits** (`middleware/ratelimit.go`), **notifications and events**
(`service/notification_service.go`, `sse/`), **report parsers**
(`runner/parser.go`, `runner/results_parser.go`), **suite generation, GitHub
client, configuration**, and the **frontend** (`src/frontend`): counters, rows
told to one user, pure functions, calls without state, pages over the API.

## 2. What is modelled

### JobQueue

One variable for each kind of key (`queue`, `active`, `processing`), and for
each worker where it is (`pc`), the keys its scan has left (`visit`), the
repository and payload it works on (`at`, `job`), and whether that payload has
been changed since it was popped (`altered`). `mode` is the process: running,
stopping (context cancelled) or down. `ticket` and `delivered` record history
for the properties.

Each Redis command is one action, in the order of the code: `Scan`, `Exists`,
`RPop`, `SetLock`, `Requeue`, `Track` are `Pop`; `AckDel`, `AckRem` are `Ack`;
`Work` is `executeJob` as far as the queue is concerned. `Fails(kind)` is an error
of a command: after a shutdown every command of the pool fails without effect
(cancelled context); before, it uses up one of `MaxFaults`, and the command may
have been applied all the same (RPOP, SET). `LockExpire`, `Evict` (Redis runs
with `allkeys-lru`), `Crash`, `Shutdown`, `Exit` and `Restart` are the world.

The operators under "Mistakes" are the actions with a plausible bug. Nothing
uses them; the mutation tests put each in place of its action and expect the
named property to fail.

### JobDelivery

What the rest of the backend relies on: a submitted job is taken, perhaps put
back, and delivered at most once; otherwise it is withdrawn. `JobQueue`
implements it with the refinement mapping `Place`: where a job is, in a list, in
a hand between RPOP and the return of Pop, or handed over, decides its state.

### RunLifecycle

Extends `JobQueue`: its workers are the same workers, and `executeJob` takes the
place of `Work`. Added are the columns of the row (`status`, `ghaRunID`,
`ingested` for the groups), GitHub (`tip` of the branch; `head`, `workflow` and
`outcome` of the workflow run dispatched for a run) and memory (`exec` and `sha`
of a worker, `tracked` for `activeRuns`, the tick `poll`, the callback `hook`, the
requests `trigger` and `cancel`).

| code | actions |
| --- | --- |
| `TriggerRun`, `RerunRun` | `CreateRun` (INSERT), `PushRun` |
| `CancelRun` | `CancelRead`, `CancelRemove`, `CancelFinish` |
| `executeJob`, `Execute` | `LookUpFork`, `MarkStarted`, `Ensure`, `Dispatch`, `Register`, `MarkFailed` |
| GitHub Actions | `StartWorkflow` (with `Dispatch`), `WorkflowEnds` |
| suite edits | `Refresh` |
| `poll`, `handleCompletion` | `Tick`, `PollRead`, `PollFind`, `PollStore`, `PollReport`, `PollFinish`, `TickDone` |
| `GHACallback` | `HookRead`, `HookStore`, `HookFinish` |
| `main`, `recoverActiveRuns` | `LifeCrash`, `LifeExit`, `LifeRestart` |

A step of the model ends where the code reads or writes something another actor
can see. `Error(kind)` is a failing call to GitHub, Postgres or Redis; a lost
answer leaves open whether the call took effect (`Ensure`, `Dispatch`). Where
`poll` cannot read a row it goes on with the next run (`gha_poller.go:125`),
which changes nothing.

### RunRecords

The rows of the runs of one repository: `suites`, `runs`, `groups`, `cases`, and
`jobs`, the runs whose job was pushed and is not over. A request is a process
(`req`): it starts with what its arguments and first checks leave open, and
each of its SQL statements is a step.

| code | actions |
| --- | --- |
| `TriggerRun`, `RunAll`, `RerunRun` | `StartTrigger`, `StartRunAll`, `StartRerun`; `FindStep`, `NumberStep`, `CreateStep`, `PushStep` |
| `Ingest`, `IngestHierarchical` | `StartReport`; `SuiteStep`, `NumberStep`, `CreateStep`, `GroupsStep`, `CasesStep`, `FinishStep` |
| `GHACallback`, `handleCompletion`, `IngestForRun` | `StartCallback`, `StartCompletion`; `GroupsStep`, `CasesStep`, `FinishStep`, `ConcludeStep` |
| executor, `CancelRun`, `poll` | `Dispatch`, `Cancel`, `Forget` |
| an error, the end of the process | `Fault`, `Crash` |

What a report becomes is computed by pure operators (`JobGroups`, `RunGroups`,
`CasesOf`, `WallClock`, `Summary`); `RowsAreOfReport` compares their result with
a second reading of the report that shares none of them. A callback may come for
any run that has a workflow and no verdict, also when the poller has dropped it.
`open` of a trigger is history: the runs without a verdict, or not there yet,
when it looked at its suite (`GoOn`). A report is a
sequence of jobs with their suites and tests (`RecordAssumption`); `NoSummary` is
the null of a run without a summary. This module and
`RunLifecycle` see the same rows from two sides: there the actors around one
run and its status in detail, and a report is one mark; here many runs and
what a report leaves in the tables, and what happens between the dispatch and
the report is one step.

### RepositoryForks

One repository: its row (`repo`), its teams (`linked`), its `suites`, the fork
(`forked`, `tip`: the upstream commit it is based on and the suites whose files
it carries), the `cache` of branches. A task is a request or the goroutine it left
behind. `AddRepository` is `Lookup`, `Insert`, `Link` or `Reactivate`;
`SetupFork` is `MarkForking`, `ForkRepo`, `MarkReady` or `MarkFailed`, and then
the refresh `ReadStatus`, `ReadSuites`, `ReadUpstream`, `Push`, which edits of
suites, synchronisation, `EnsureBranchWorkflows` and the resync also go
through; the resync ends with `Invalidate`, `LookInCache`, `ListRemote`,
`StoreInCache`. `ForkRepo` only asks: GitHub accepts (202) and makes the fork some
time later (`ForkAppears`), while `MarkReady` comes after 3 seconds whatever has
happened; a push to a fork that is not there fails. `IngestSuite` is the writer of
`test_suites` that refreshes nothing: a report with a job of a new name.

`Fail` is a call that fails without effect, for each call of these operations, the
writes of `fork_status` and the DEL of the cache among them, with what the code
does next. `Crash` and `Recover` are a restart with `RecoverStuckForks`,
`RecoverFails` one whose query fails. The history variables name what the
properties except: `overtaken` and `missed` refreshes, `ingested` suites, a `stuck`
status, a `racing` reader, an `abandoned` repository.

### TeamMembership

One team: `members`, `joins`, the notifying goroutines (`outbox`) and what users
have been told (`notices`). The statements are shared by the operations: `RowStep`
is the first read of `InviteMember`, `UpdateMember`, `RemoveMember` and
`SubmitJoinRequest`; `CountStep` the look at the admins; `InsertStep` the INSERT of
an invitation, of an approval, of a creator and of `UpdateUserTeams`. The role of
the caller is checked once, at the start, as the middleware does; of a review
only that he is staff of some team, since nothing compares the team of the join
request with that of the path. `Misread` is the look-up before an INSERT that
fails and is taken for "there is none".

### Accounts

The rows of `user`, `sessions`, `reviews` and `resets`, and `claims`, the roles
that valid access tokens say. `LoadRow` and `WriteRow` are `GetByID` and
`userRepo.Update` with all columns; `SetActive` and `SetBan` write their own. A ban
is a number, the request that set it, so that a property can tell one ban from
the next; so is a password. `UpdateUser` does its parts in the order role,
activity, ban, each with its own look at the row.

### Abstractions

In the four modules above a statement is atomic and nothing else is: a request
can be overtaken between any two. A request that would be refused on its
arguments alone is not started. An error or the end of the process ends a
request where it is; what it wrote stays.

- `RunRecords`: cancelling is one step (its steps are in `RunLifecycle`), a test is
  known by its id, durations are small numbers, and the workflow of a run reports
  one payload, the same to the callback and in the artifact. A test that is named
  twice in a report is refused by the unique index; a case in "error" is counted
  neither as passed nor as failed, so a run whose cases are all in error passes:
  both as in the code.
- `RepositoryForks`: one branch, the default one. A suite that is updated counts
  as another suite, as its file changes. `fork_head_sha` decides nothing.
- `TeamMembership`: soft deletion of the team is one step; its members stay.
- `Accounts`: tokens do not expire; the middleware admits a request by the row at
  its start and the role its token says.

In the queue and the life cycle:


- A job is its run: one `Push` for a run, as the code does. Payloads are never
  malformed. The SCAN of `Pop` is one snapshot; what changes afterwards is met by
  EXISTS and RPOP as in the code. Retries inside the Redis client and a Redis
  that loses acknowledged writes are left out.
- `RemoveByRunID` is one step: LREM of an element that has gone does nothing, and
  one that LRANGE missed is no longer, or not yet, in the list.
- The lock's TTL (twice the runner timeout) outlasts a live `executeJob`, which is
  a bounded number of HTTP calls: only a lock without a holder expires.
- A shutdown that overruns its time (60 s for the pool, 10 s for HTTP) is a
  `Crash`. Recovery is one step with the start that runs it.
- `WithEnv` are the runs whose payload has a non-nil map of variables: those
  `TriggerRun` makes; a rerun's has none.
- A repository has one branch here and a fork that is set up (`TriggerRun` refuses
  others). Each `EnsureBranchWorkflows` makes a new commit; two with the same SHA
  (same parent, content and second) are left out. Commits are numbers.
- A workflow ends with one of `Outcomes`, chosen at its start: conclusion, kind of
  report, and whether that reports failures.

## 3. The runs

Bounds: `MaxFaults`, `MaxCrashes`, `MaxShutdowns`, `MaxErrors`, `MaxCallbacks`,
`MaxRefreshes` and `Cancellable` cap what would repeat for ever; `Runs`, `Repos`
and `Workers` are finite. Deadlock is checked in the runs of the queue and the
life cycle (an idle worker can always scan); in the other four the requests
simply come to an end when `MaxRequests` or `MaxStarts` is used up.

| run | instance | shows |
| --- | --- | --- |
| `queue_faults` | 2 workers, 2 repositories, 3 runs; 1 fault of any kind, 1 crash | `SinglePlace`, `DeliveredOnce`, `LosesOnlyByFault`, and the refinement `ImplementsDelivery`; while nothing has failed, `LockHasHolder` and `AckClearsProcessing` |
| `queue_live` | 1 worker, 2 repositories, 3 runs; 1 fault of any kind but eviction, 1 crash, 1 shutdown | `FifoPerRepo`, `WorkIsLocked`: what the queue guarantees when workers do not race; `QueuedIsTaken`, `ShutdownEnds` under `Fairness` |
| `life_safety` | 1 worker, 2 runs; 1 crash, 1 error, 1 cancel, 1 callback, a workflow that fails without a report or succeeds with a report of failures | `PassedHasCause`, `PollerFindsOwn`, `WithdrawnByItsCancel` |
| `life_live` | 1 worker, 2 runs; 1 error of GitHub or Redis, 1 cancel, at most 1 callback | `PushedRunFinishes` under `LifeFairness` |
| `life_forget` | 1 worker, a run and its rerun; 1 suite edit, 1 crash, 1 shutdown, at most 2 callbacks | `FinishedRunIsForgotten` |
| `records` | 2 of 3 requests at a time, 2 commits, a suite and those the reports name, 3 runs; 1 fault or crash; a report with two jobs, a stated duration, an error and an empty test, and one that names a test twice | `RowsAreOfReport`, `RunsAreOwned`, `ReportIsPrefix`, `NumberIsFresh`, `CommitIsCached` |
| `forks` | 1 team, 2 of 3 tasks at a time (a suite of a report, a deletion and an assignment count), 1 upstream push; 1 failing fork call, "ready" write, DEL or recovery query, 1 restart | `ReadyIsForked`, `BranchHasSuites`, `CacheSeesResync`, `AddedHasTeam`; `ForkSettles` under fairness |
| `teams` | 3 accounts, one of them root, 2 of 3 requests at a time, roles admin and viewer; 1 fault; any set of admins at first, or no team | `LastAdminKept`, `ApprovedWasAdmitted`, `DecisionIsTold` |
| `accounts` | 2 accounts, 2 of 3 requests at a time, 1 review allowed; 1 fault; accounts banned, registered or not, root or user at first | `LastRootKept`, `BanHolds`, `ReviewsOfThisBan`, `ReviewLimitKept`, `SessionsMatchAccount`, `OneSessionPerLogin` |
| `life_v_passed`, `life_v_recover`, `records_v_report` | as the passing ones | violations, see section 5 |

Why these bounds are enough to be interesting: two workers on one repository
give every race of EXISTS and SET, a third run on another repository makes scans
visit more than one key and keeps two lists alive; one fault with one crash
already separates "applied" from "reported" and leaves locks and entries behind.
In the life cycle two runs of one repository share list, lock,
branch and tick. `PollerFindsOwn` is about one worker: with two, `Dispatch` of
one may follow `Ensure` of the other, and the registered commit is not the one
that runs. `LockHasHolder` and `AckClearsProcessing` speak of the time before a
fault or a crash.

Two requests at a time are what a race of a check and a write takes; the third
comes before them or after them (the invitation that is then approved, the ban
before an unban, the trigger before a report). Most properties of these modules
say *only so*: a rule the code checks and can lose is broken by nothing but the
interleaving it admits, named in the property (`LastAdminKept`, `LastRootKept`,
`ReviewLimitKept`, `NumberIsFresh`, `CommitIsCached`, `BanHolds`). They are
stronger than "no race, no violation": a wrong count or a dropped check breaks
them also where requests race.

Fairness. `Fairness`: each worker goroutine is scheduled, keys expire, a
stopping process exits and a supervisor restarts it (`restart: unless-stopped`).
`LifeFairness` adds requests and callbacks once begun, the poller's goroutine, and
the end of a workflow (GitHub's time limit). Nobody is bound to trigger, cancel,
edit, crash or shut down, and no callback need arrive: `PushedRunFinishes` rests
on the poller. It is checked without errors of Postgres, because a last UPDATE
that fails (its error ignored) leaves a run "running", and it claims nothing
after the end of a process, for the reason of section 5. `ForkFairSpec`: a
request or goroutine goes on with its next statement, and a start looks for stuck
forks (`main.go:117`); nobody need start anything, and GitHub need never make the
fork. `ForkSettles` claims nothing from a failed write of `fork_status` until the
next start (`stuck`): nobody but a start looks for such a row.

## 4. What is proved

For any sets of runs, repositories, workers, teams and accounts, any number of
requests and any bounds, from the assumptions the modules name (finitely many
runs, each with a repository; null values are none of the values; bounds are
numbers; reports are sequences of jobs). A theorem that needs more says so. All
have one shape: an inductive invariant, a lemma for each kind of step, and the
property as a consequence. What follows is what each invariant had to add.

### The queue

`JobQueueProofs`: `TypeCorrect`, `OnePlace` (`SinglePlace`), `OneDelivery`
(`DeliveredOnce`). `TypeOK` is not inductive: that `Requeue` puts a run and not
`None` into a list of a repository needs to know what a worker past RPOP holds.
`Typed` adds `Hands` (at those places, and only there, the worker holds a run of the
repository it is at) and `Homes` (a list holds runs of its own repository).
`SinglePlace` is not either: `Push` must add a run that is nowhere yet, and a second
delivery needs a job that is delivered and still in a list or in Pop. `Unique` adds
`Fresh`: a job in a list or a hand has been pushed, and before Pop returns it, it
is not delivered. Actions that only take from the lists and hands share the
lemmas named `Shrinks`.

`JobQueueProofs` also has `QueueDelivers`, the refinement of `JobDelivery`, and
`NothingElseLoses` (`LosesOnlyByFault`). `Settled` is `Unique` and `Worked`: what is in
execution was delivered. From it every step of the queue is, under `Place`, one
job's step along its way, or the withdrawal of some, or nothing.

`JobOrderProofs`: `LockIsHeld` and `AckClears` for any number of workers, as long
as nothing failed (`Locked`: the holder of a lock has yet to delete it; `Cleared`:
what a processing list may hold at each place). `OneWorkerLocks` (`WorkIsLocked`;
no eviction) and `OneWorkerFifo` (`FifoPerRepo`) are about a pool of one worker: two
that pass EXISTS together overwrite each other's lock, and a job one of them puts
back is overtaken by the next of the other. Order needs the numbers Push gives
to be compared in three places: a list is in their order (`Ordered`), whatever is
delivered or in the hand is below the list (`Passed`), what Pop holds is above
what it has returned (`Overtakes`), for it may go back to the front.

### The life of a run

`RunLifecycleProofs`. `LifeRunsTheQueue`: `LifeSpec` implements the queue's `Spec`, so
every theorem above holds of it. `LifeTypes` (`LifeTypeOK`) needs what a worker holds at
each step of `executeJob` (`Stages`), that dispatches are numbered (`Numbering`), which runs
have a workflow (`Sent`), and what a tick has in hand (`Polling`): the greatest number
among the workflows of a commit is taken, so there must be one.
`CancelIsKept` (`WithdrawnByItsCancel`): `Ran` says a verdict has a dispatch or an
executor behind it, `Called` that a callback has a workflow, `Asked` which status
goes with which step of the cancel.

`PassedIsEarned` (`PassedHasCause`) has the hypothesis `[]OneActivePerRepo`, the
documented rule that two workers break (section 5). It is needed: two runs
dispatched on one tip share a `head_sha`, and the poller takes the workflow of one
for the other's. Under it the commit `EnsureBranchWorkflows` made for a run is newer than
every `head_sha` and tracked commit of the fork until it is dispatched (`Newest`), so
no two runs have one commit (`Matched`); what the poller finds is the run's own
workflow, and its verdict is that of its outcome (`Judged`). `OneWorkerPassedIsEarned`
has no such hypothesis: with one worker the rule follows from the queue.
`PollerReadsOwn` is that the poller never reads another run's workflow;
`PollerIsRight` (`PollerFindsOwn`) also that it looks for the right commit, which an
edit of a suite between the commit and the dispatch spoils (`MaxRefreshes = 0`).

### The requests

In these modules the key is the same: a request between two statements may be
overtaken by any other, so the invariant says of each place what the request
has read, and whether that is still so.

`RunRecordsProofs`: `RecordTypes`, `NumbersAreFresh`, `CommitsAreCached`,
`ReportsArePrefixes`, `RunsHaveOwner`. `Typed` carries `Route` (who gets where) and `Sound`:
the number in hand is above those it saw, a looked-up suite has the name asked for,
a trigger on its way to a row has a verdict before it only if the run was open when
it looked (`Unseen`). That alone gives the first three. `InOrder` adds that a
report is at the first job without a finished run, `Apart` that a report has its run for itself and no groups
before its own, so that nothing but a test named twice refuses them; `Owned`
says which request owns a run that is queued or running.

`RunReportProofs`: `RowsFollowReport` (`RowsAreOfReport`), in two halves. The protocol:
`Kept` says the groups and the cases of a run are none or all those of its report,
the cases come only after the groups and the summary after both (`RowKept`), what a
request has written it still finds (`Held`), and two requests write groups of one
run only if its report has no test (`Twins`); the unique index, which refuses a
second batch as a whole, carries this. The data (`ReportRows`): the flattened list
of tests has each test of the report at one place (`ListedTests`), the list of
cases each case (`ListedCases`), so counting rows by status counts the report's
cases (`CasesCounted`), and the pieces of the list that `WallClock` adds up are the
jobs (`ClockIsSlowest`). The sums are folds; that they are sums, and that a
flattened list lays its pieces end to end, is an induction, written as two lemmas
about the set of numbers, or of subsets, of which a fact holds (`NumbersReached`,
`SubsetsReached`).

`RepositoryForksProofs`: `ForkTypes`, `ReadyHasFork`, `CacheIsFresh`, `AddedIsOwned`,
`BranchCatchesUp`. `Forked`: a set-up reaches its last write after GitHub has
accepted the fork, and whoever refreshes has found its name.
`Cached`: what a reader is about to store is as new as the last invalidation, or
the race is noted. `AddedHasTeam` is inductive with `Forked`, which says that what is
to be linked or reactivated is there. `Pushing`: while a ready fork may
differ from the suites that are not `ingested`, some task has not read the suites,
or has read those there are, and nobody is about to push older ones, unless a
refresh was missed or overtaken.

`TeamMembershipProofs`: `TeamTypes`, `ApprovalFollowsRow`, `DecisionReachesUser`,
`LastAdminGuard`. `Admitted`: a request about to write an approval has seen its user
become a member. `Told`: nobody asks or decides before there is a team.
`Guarded`: who is about to demote or remove has seen another admin.

`AccountsProofs`: `AccountTypes`, `LastRoot`, `BanIsKept`, `FreshAttempts`,
`SessionsAreBacked`, `OneToken`, `LimitIsKept`. `Registered`: nothing refers to an account
before there is one, else what is left over would count as its own. `Guarded` and
`Attempts`: what a demotion and a review have seen. `Fresh`: the numbers of requests
are their own, so a login or a review is new. `Backed`: the sessions a refresh
carries rest on their account as the stored ones do, for it may store them again.
`Single`: of two that rotate a session one is late, or neither finds the other.

### What the proofs found

Assumptions and properties that held only on the instances, now in the modules:
a repository added when there is no team (`ForkInit`), an update without any
part (`StartUpdateUser`), two cases of `Place` that overlapped,
`WithdrawnByItsCancel` under errors of Postgres (a lost UPDATE leaves the status
behind, hence `errors = 0`), reports that are not sequences of jobs.

### Only model-checked

- Liveness (`QueuedIsTaken`, `ShutdownEnds`, `PushedRunFinishes`,
  `FinishedRunIsForgotten`, `ForkSettles`): it needs ENABLED, which the installed
  provers do not handle.
- The documented rules of section 5, which do not hold.

## 5. Where code and documents differ

Shown by a run:

- `life_v_passed`: "passed" is documented as all tests passed; the generated
  workflow always succeeds and the poller decides by that.
- `life_v_recover`: a run taken over at a restart is looked up by its upstream
  commit, which is the `head_sha` of nothing.
- `records_v_report`: the runs of a report are to share a `report_id`; `Create`
  does not write the column.

Stated in a module as the documented rule, and violated when it is added to the
configuration named, also with every bound on faults, errors and crashes at 0:

| rule | document, code | add to |
| --- | --- | --- |
| `JobQueue.OneActivePerRepo`: one active run for each repository | `docs/LLD/TEST-RUNNER.md:190`; two workers pass EXISTS and both SET, `queue.go:88` | `MCJobQueue_faults.cfg`, INVARIANT |
| `JobQueue.LosesNothing`: a shutdown drains | `docs/BUILD-PLAN.md:245`; the context is cancelled first, so a worker between RPOP and SET can neither lock nor put back, `queue.go:91` | `MCJobQueue_live.cfg`, PROPERTY |
| `RunLifecycle.CancelTakesEffect`: a cancel stops the run | `docs/USAGE-GUIDE.md:187`; nobody listens on the channel, and `UpdateStarted` overwrites a cancelled row, `test_run_service.go:540` | `MCRunLifecycle_safety.cfg`, INVARIANT |
| `TeamMembership.RemovalLeavesAnAdmin`: the last admin is not removed | `docs/LLD/API.md:2151`; two removals at once, or one and a demotion, both count two, `team_service.go:341` | `MCTeamMembership.cfg`, PROPERTY |
| `RepositoryForks.ReadyExists`: a fork is ready when it exists | `docs/LLD/TEST-RUNNER.md:108`; the code sleeps 3 seconds and does not look, `fork_service.go:418` | `MCRepositoryForks.cfg`, INVARIANT |

Seen while modelling, part of the model, without a run:

- The processing list "for crash recovery" (`queue.go:95`) is never read back;
  entries of runs with a map of variables stay in it, since `executeJob` writes
  into the map `Ack` marshals (hence `WithEnv` in `AckClearsProcessing`).
- The lock goes at dispatch, so workflows of a repository overlap although
  `docs/ARCHITECTURE.md:280` says one at a time; the poller may replace the verdict
  a callback stored since its look at the row.
- A suite edit between `EnsureBranchWorkflows` and the dispatch moves the branch:
  the run is then looked for under a commit no workflow has and stays running.
  `life_live` therefore has no edit; with `MaxRefreshes = 1` and no errors it shows this.
- Run numbers are documented as unique for each suite (`docs/PRD.md:349`); there is
  no such index, and two triggers can get one number.
- A report that names a test twice in a job leaves its run "running" when it is
  pushed, as does any error in the middle of `IngestHierarchical`.
- `AddRepository` of a deleted repository by another team reactivates it and links
  the old teams only. A process that ends before the set-up goroutine has
  written "forking" leaves the fork "none", which no start recovers. A failed
  second INSERT leaves a repository without a team, which nobody can reach.
- `IngestHierarchical` makes suites without a refresh (`ingestion_service.go:68`):
  their workflow files are missing from a ready fork until the next edit, resync or
  dispatch (hence `ingested` in `BranchHasSuites`).
- When the UPDATE to "ready" or to "failed" does not succeed (`fork_service.go:422`,
  `:412`) the row stays "forking" until the process starts again (hence `stuck`).
- A resync whose DEL fails says it has resynced and leaves the old branches in the
  cache (`repository_service.go:486`).
- The review of a join request is open to staff of any team: neither
  `handler/team.go:298` nor `team_service.go:436` compares its team with the path.
- `UNIQUE(team_id, user_id)` on join requests makes every request after a decided
  one fail; a removed member can not ask again.
- A profile or password change that read its row before a ban writes the ban
  away. A moderator may lift a ban by `ReviewBan`, not by `UpdateUser`.
- `docs/SETUP.md:79` gives a base URL to which the code appends a path that URL
  already holds.

## 6. Not modelled, and why

- Rate limits: one counter in Redis; no other component reads it.
- Report parsers, the text of generated workflows, suite generation, GitHub
  client, configuration: functions and calls without state. The models start from
  a parsed report and from the answer of a call.
- The stream of events and reading of notifications: what a browser misses it asks
  for again; nothing in the backend depends on it.
- Tokens of teams (one row, replaced as a whole), renaming, descriptions, lists,
  statistics, avatars: single statements behind a check.
- `GetTeamIDForRepository` picks one of several teams without an order, so who may
  act on a shared repository is up to the database; the models let whoever is
  allowed by some team act.
- The frontend.

## 7. Plan

1. `JobQueue`, `JobDelivery`, proofs: done.
2. `RunLifecycle`, `RunRecords`, `RepositoryForks`, `TeamMembership`, `Accounts`:
   done, model-checked.
3. Proofs of every safety invariant, every action property and the refinement
   that the runs check: done.
4. The fairness-free half of liveness: that whatever a live property waits for is
   never cut off (a queued run is always in a place from which a step leads on).
