---------------------------- MODULE RunLifecycle ----------------------------
(***************************************************************************)
(* The life of a test run, from the request that creates its row to the    *)
(* verdict: the API (service/test_run_service.go), the job queue and its   *)
(* workers (JobQueue), executeJob and the fork executor                    *)
(* (runner/runner.go, runner/fork_gha_executor.go), GitHub Actions, the    *)
(* poller (runner/gha_poller.go) and the callback (handler/webhook.go).    *)
(*                                                                         *)
(* They meet in the row of the run.  Every UPDATE of it is unconditional   *)
(* (repository/test_run_repo.go), and every decision rests on a status     *)
(* read some steps before.                                                 *)
(***************************************************************************)
EXTENDS JobQueue

CONSTANTS
    Outcomes,       \* how a workflow run may end, see OutcomesAssumption
    Cancellable,    \* bound: the runs somebody may cancel
    ErrorKinds,     \* the services a call to which may fail
    MaxErrors,      \* bound: calls to them that fail
    MaxCallbacks,   \* bound: callbacks received
    MaxRefreshes    \* bound: edits of suites that push workflow files

(* A workflow run ends with a conclusion, and may have left a report of    *)
(* its tests, flat (results[]) or hierarchical (jobs[]).                   *)
ASSUME OutcomesAssumption ==
    Outcomes \subseteq [conclusion : {"success", "failure"},
                        report : {"none", "flat", "tree"},
                        failing : BOOLEAN]
ASSUME CancellableAssumption == Cancellable \subseteq Runs
ASSUME ErrorKindsAssumption == ErrorKinds \subseteq {"github", "postgres", "redis"}
ASSUME LifeBoundsAssumption ==
    MaxErrors \in Nat /\ MaxCallbacks \in Nat /\ MaxRefreshes \in Nat

VARIABLES
    (* Postgres, table test_runs (and test_groups) *)
    status,         \* test_runs.status, "absent" before the INSERT
    ghaRunID,       \* test_runs.gha_run_id: the run whose workflow it names
    ingested,       \* test_groups holds the groups of the run
    (* GitHub: the forks and the workflow runs dispatched on them *)
    tip,            \* the commit the fork's branch points at
    head,           \* head_sha of the workflow run of a run, 0 if none
    dispatched,     \* its position in the order of dispatches, 0 if none
    workflow,       \* "none", "in_progress" or "completed"
    outcome,        \* how it ends
    (* memory of the process *)
    exec,           \* where executeJob of each worker is
    sha,            \* the commit EnsureBranchWorkflows returned to it
    tracked,        \* activeRuns: the sha each tracked run is looked up by
    poll,           \* the tick of the poller in progress
    hook,           \* the callback in progress for each run
    trigger,        \* runs whose row was inserted and whose job is not pushed
    cancel,         \* where the cancel request for each run is
    (* bounds *)
    errors, called, refreshes

dbVars     == <<status, ghaRunID, ingested>>
githubVars == <<tip, head, dispatched, workflow, outcome>>
memoryVars == <<exec, sha, tracked, poll, hook, trigger, cancel>>
countVars  == <<errors, called, refreshes>>
lifeVars   == <<dbVars, githubVars, memoryVars, countVars>>
allVars    == <<vars, lifeVars>>

Terminal == {"passed", "failed", "cancelled"}

(* Commits of a fork are numbered; the first is the upstream commit a run  *)
(* is triggered for (commit_hash), the others are Verdox commits.          *)
Upstream == 1

NoPoll == [at |-> "idle", todo |-> {}, run |-> None, found |-> None, verdict |-> "none"]

Error(kind) == /\ kind \in ErrorKinds /\ errors < MaxErrors
               /\ errors' = errors + 1

(* An UPDATE of the pool or the poller, whose error is ignored: that of    *)
(* Postgres, or that of the context once Shutdown has cancelled it.        *)
Update(j, s) ==
    \/ /\ Works
       /\ status' = [status EXCEPT ![j] = s] /\ UNCHANGED errors
    \/ /\ Works => Error("postgres")
       /\ ~Works => UNCHANGED errors
       /\ UNCHANGED status
-----------------------------------------------------------------------------
LifeInit ==
    /\ Init
    /\ status = [j \in Runs |-> "absent"]
    /\ ghaRunID = [j \in Runs |-> None]
    /\ ingested = {}
    /\ tip = [r \in Repos |-> Upstream]
    /\ head = [j \in Runs |-> 0]
    /\ dispatched = [j \in Runs |-> 0]
    /\ workflow = [j \in Runs |-> "none"]
    /\ outcome = [j \in Runs |-> None]
    /\ exec = [w \in Workers |-> "lookup"]
    /\ sha = [w \in Workers |-> 0]
    /\ tracked = [j \in Runs |-> 0]
    /\ poll = NoPoll
    /\ hook = [j \in Runs |-> "none"]
    /\ trigger = {}
    /\ cancel = [j \in Runs |-> "none"]
    /\ errors = 0 /\ called = 0 /\ refreshes = 0
-----------------------------------------------------------------------------
(* The API.                                                                *)

(* TriggerRun and RerunRun insert the row; Push is a later step of theirs, *)
(* and may fail.  The payload of a rerun has no EnvVars.                   *)
CreateRun(j) ==
    /\ mode # "down"
    /\ status[j] = "absent"
    /\ j \notin WithEnv => \E o \in Runs : status[o] \in {"failed", "cancelled"}
    /\ status' = [status EXCEPT ![j] = "queued"]
    /\ trigger' = trigger \cup {j}
    /\ UNCHANGED <<vars, ghaRunID, ingested, githubVars, exec, sha, tracked,
                   poll, hook, cancel, countVars>>

PushRun(j) ==
    /\ j \in trigger
    /\ trigger' = trigger \ {j}
    /\ \/ Push(j) /\ UNCHANGED errors
       \/ Error("redis") /\ UNCHANGED vars
    /\ UNCHANGED <<dbVars, githubVars, exec, sha, tracked, poll, hook, cancel,
                   called, refreshes>>

(* CancelRun reads the row; RemoveByRunID, whose error is only logged, and *)
(* UpdateFinished follow for a run it saw queued.  For one it saw running  *)
(* it publishes on a channel that nobody subscribes to, and answers        *)
(* "cancelled".                                                            *)
CancelRead(j) ==
    /\ mode # "down"
    /\ j \in Cancellable /\ cancel[j] = "none"
    /\ status[j] \in {"queued", "running"}
    /\ cancel' = [cancel EXCEPT ![j] = IF status[j] = "queued" THEN "seen" ELSE "replied"]
    /\ UNCHANGED <<vars, dbVars, githubVars, exec, sha, tracked, poll, hook,
                   trigger, countVars>>

(* Mistake: the oldest job of the list is removed.                         *)
CancelOldest(j) ==
    LET r == RepoOf[j] IN
    /\ cancel[j] = "seen"
    /\ cancel' = [cancel EXCEPT ![j] = "removed"]
    /\ queue' = [queue EXCEPT ![r] = IF @ = << >> THEN @ ELSE Tail(@)]
    /\ UNCHANGED <<active, processing, workerVars, mode, auditVars, boundVars, dbVars,
                   githubVars, exec, sha, tracked, poll, hook, trigger, countVars>>

CancelRemove(j) ==
    /\ cancel[j] = "seen"
    /\ cancel' = [cancel EXCEPT ![j] = "removed"]
    /\ \/ RemoveByRunID(j) /\ UNCHANGED errors
       \/ j \notin Queued(RepoOf[j]) /\ UNCHANGED <<vars, errors>>
       \/ Error("redis") /\ UNCHANGED vars
    /\ UNCHANGED <<dbVars, githubVars, exec, sha, tracked, poll, hook,
                   trigger, called, refreshes>>

(* A request that could not write the status has failed, and may come      *)
(* again.                                                                  *)
CancelFinish(j) ==
    /\ cancel[j] = "removed"
    /\ \/ /\ cancel' = [cancel EXCEPT ![j] = "replied"]
          /\ status' = [status EXCEPT ![j] = "cancelled"]
          /\ UNCHANGED errors
       \/ /\ Error("postgres")
          /\ cancel' = [cancel EXCEPT ![j] = "none"]
          /\ UNCHANGED status
    /\ UNCHANGED <<vars, ghaRunID, ingested, githubVars, exec, sha, tracked,
                   poll, hook, trigger, called, refreshes>>
-----------------------------------------------------------------------------
(* executeJob, by a worker at "working".                                   *)
At(w, label)  == pc[w] = "working" /\ exec[w] = label
Then(w, label) == exec' = [exec EXCEPT ![w] = label]

(* The fork is looked up.                                                  *)
LookUpFork(w) ==
    /\ At(w, "lookup")
    /\ \/ Works /\ Then(w, "start") /\ UNCHANGED errors
       \/ Works /\ Error("postgres") /\ Then(w, "refuse")
       \/ ~Works /\ Then(w, "refuse") /\ UNCHANGED errors
    /\ UNCHANGED <<vars, dbVars, githubVars, sha, tracked, poll, hook, trigger,
                   cancel, called, refreshes>>

(* UpdateStarted, whatever the status has become since Push.               *)
MarkStarted(w) ==
    /\ At(w, "start")
    /\ Update(job[w], "running")
    /\ Then(w, "ensure")
    /\ UNCHANGED <<vars, ghaRunID, ingested, githubVars, sha, tracked, poll,
                   hook, trigger, cancel, called, refreshes>>

(* Mistake: a branch that has workflow files already keeps its commit.     *)
EnsureReuses(w) ==
    LET r == at[w]
        c == IF tip[r] = Upstream THEN Upstream + 1 ELSE tip[r]
    IN
    /\ At(w, "ensure") /\ Works
    /\ tip' = [tip EXCEPT ![r] = c]
    /\ sha' = [sha EXCEPT ![w] = c]
    /\ Then(w, "dispatch")
    /\ UNCHANGED <<vars, dbVars, head, dispatched, workflow, outcome, tracked,
                   poll, hook, trigger, cancel, countVars>>

(* EnsureBranchWorkflows moves the branch to a new Verdox commit; an       *)
(* answer that is lost leaves open whether it did.                         *)
Ensure(w) ==
    LET r == at[w] IN
    /\ At(w, "ensure")
    /\ \/ /\ Works
          /\ tip' = [tip EXCEPT ![r] = @ + 1]
          /\ sha' = [sha EXCEPT ![w] = tip[r] + 1]
          /\ Then(w, "dispatch")
          /\ UNCHANGED errors
       \/ /\ IF Works THEN Error("github") ELSE UNCHANGED errors
          /\ Then(w, "fail")
          /\ UNCHANGED tip \/ (Works /\ tip' = [tip EXCEPT ![r] = @ + 1])
          /\ UNCHANGED sha
    /\ UNCHANGED <<vars, dbVars, head, dispatched, workflow, outcome, tracked,
                   poll, hook, trigger, cancel, called, refreshes>>

(* GitHub starts the workflow on the commit the branch points at now.      *)
StartWorkflow(j) ==
    /\ head' = [head EXCEPT ![j] = tip[RepoOf[j]]]
    /\ dispatched' = [dispatched EXCEPT ![j] =
                        1 + Cardinality({i \in Runs : dispatched[i] # 0})]
    /\ workflow' = [workflow EXCEPT ![j] = "in_progress"]
    /\ \E o \in Outcomes : outcome' = [outcome EXCEPT ![j] = o]

(* The call to GitHub: accepted (204), or an error; a time-out leaves open *)
(* whether GitHub got it, and without a context it is not made.            *)
DispatchWorkflow(j, accepted) ==
    \/ /\ Works
       /\ IF accepted THEN UNCHANGED errors ELSE Error("github")
       /\ StartWorkflow(j)
    \/ /\ ~accepted
       /\ IF Works THEN Error("github") ELSE UNCHANGED errors
       /\ UNCHANGED <<head, dispatched, workflow, outcome>>

(* The workflow of the suite, on the branch of the run.                    *)
Dispatch(w) ==
    /\ At(w, "dispatch")
    /\ \E accepted \in BOOLEAN :
          /\ DispatchWorkflow(job[w], accepted)
          /\ Then(w, IF accepted THEN "register" ELSE "fail")
    /\ UNCHANGED <<vars, dbVars, tip, sha, tracked, poll, hook, trigger, cancel,
                   called, refreshes>>

(* Mistake: the job is registered with the commit of the run.              *)
RegisterUpstream(w) ==
    /\ At(w, "register")
    /\ tracked' = [tracked EXCEPT ![job[w]] = Upstream]
    /\ Work(w, Works)
    /\ Then(w, "lookup")
    /\ sha' = [sha EXCEPT ![w] = 0]
    /\ UNCHANGED <<dbVars, githubVars, poll, hook, trigger, cancel, countVars>>

(* Register, then Ack: the lock of the repository goes although the        *)
(* workflow has only been dispatched.                                      *)
Register(w) ==
    /\ At(w, "register")
    /\ tracked' = [tracked EXCEPT ![job[w]] = sha[w]]
    /\ Work(w, Works)
    /\ Then(w, "lookup")
    /\ sha' = [sha EXCEPT ![w] = 0]
    /\ UNCHANGED <<dbVars, githubVars, poll, hook, trigger, cancel, countVars>>

(* Mistake: the status of a test result is written to the run.             *)
MarkError(w) ==
    /\ At(w, "refuse") \/ At(w, "fail")
    /\ Update(job[w], "error")
    /\ Work(w, exec[w] = "fail" /\ Works)
    /\ Then(w, "lookup")
    /\ UNCHANGED <<ghaRunID, ingested, githubVars, sha, tracked, poll, hook, trigger,
                   cancel, called, refreshes>>

(* UpdateFinished "failed": no fork, or no dispatch.                       *)
MarkFailed(w) ==
    /\ At(w, "refuse") \/ At(w, "fail")
    /\ Update(job[w], "failed")
    /\ Work(w, exec[w] = "fail" /\ Works)
    /\ Then(w, "lookup")
    /\ sha' = [sha EXCEPT ![w] = 0]
    /\ UNCHANGED <<ghaRunID, ingested, githubVars, tracked, poll, hook, trigger,
                   cancel, called, refreshes>>

ExecuteJob(w) ==
    LookUpFork(w) \/ MarkStarted(w) \/ Ensure(w) \/ Dispatch(w)
    \/ Register(w) \/ MarkFailed(w)
-----------------------------------------------------------------------------
(* GitHub Actions: a dispatched workflow runs and ends.                    *)
WorkflowEnds(j) ==
    /\ workflow[j] = "in_progress"
    /\ workflow' = [workflow EXCEPT ![j] = "completed"]
    /\ UNCHANGED <<vars, dbVars, tip, head, dispatched, outcome, memoryVars, countVars>>

(* RefreshSuiteWorkflows, after an edit of a suite: a new Verdox commit.   *)
Refresh(r) ==
    /\ mode # "down" /\ refreshes < MaxRefreshes
    /\ refreshes' = refreshes + 1
    /\ tip' = [tip EXCEPT ![r] = @ + 1]
    /\ UNCHANGED <<vars, dbVars, head, dispatched, workflow, outcome, memoryVars,
                   errors, called>>
-----------------------------------------------------------------------------
(* The poller.  Its context dies with the pool's.                          *)

(* The ticker fires: a copy of activeRuns is taken under the mutex.        *)
Tick ==
    /\ Works /\ poll.at = "idle"
    /\ \E j \in Runs : tracked[j] # 0
    /\ poll' = [NoPoll EXCEPT !.at = "reading", !.todo = {j \in Runs : tracked[j] # 0}]
    /\ UNCHANGED <<vars, dbVars, githubVars, exec, sha, tracked, hook, trigger,
                   cancel, countVars>>

TickDone ==
    /\ poll.at = "reading" /\ poll.todo = {}
    /\ poll' = NoPoll
    /\ UNCHANGED <<vars, dbVars, githubVars, exec, sha, tracked, hook, trigger,
                   cancel, countVars>>

(* Mistake: a run somebody else has finished is skipped, not forgotten.    *)
PollSkips(j) ==
    /\ Works /\ poll.at = "reading" /\ j \in poll.todo
    /\ poll' = IF status[j] \in Terminal THEN [poll EXCEPT !.todo = @ \ {j}]
               ELSE [poll EXCEPT !.todo = @ \ {j}, !.at = "looking", !.run = j]
    /\ UNCHANGED <<vars, dbVars, githubVars, exec, sha, tracked, hook, trigger,
                   cancel, countVars>>

(* The row is read; a run somebody else has finished is forgotten.         *)
PollRead(j) ==
    /\ Works /\ poll.at = "reading" /\ j \in poll.todo
    /\ IF status[j] \in Terminal
       THEN /\ tracked' = [tracked EXCEPT ![j] = 0]
            /\ poll' = [poll EXCEPT !.todo = @ \ {j}]
       ELSE /\ poll' = [poll EXCEPT !.todo = @ \ {j}, !.at = "looking", !.run = j]
            /\ UNCHANGED tracked
    /\ UNCHANGED <<vars, dbVars, githubVars, exec, sha, hook, trigger, cancel, countVars>>

(* Mistake: any status counts as completed.                                *)
Known(g) == workflow[g] # "none"

(* findWorkflowRun: the latest workflow run of the fork with this          *)
(* head_sha; its number is stored once, the error of that write ignored.   *)
Candidates(j) ==
    {g \in Runs : RepoOf[g] = RepoOf[j] /\ dispatched[g] # 0 /\ head[g] = tracked[j]}
Latest(S) == CHOOSE g \in S : \A h \in S : dispatched[h] <= dispatched[g]

Completed(g) == workflow[g] = "completed"

PollFind ==
    LET j == poll.run IN
    /\ Works /\ poll.at = "looking"
    /\ \/ /\ \/ Candidates(j) = {} /\ UNCHANGED errors
             \/ Error("github")
          /\ poll' = [poll EXCEPT !.at = "reading"]
          /\ UNCHANGED ghaRunID
       \/ /\ Candidates(j) # {}
          /\ LET g == Latest(Candidates(j)) IN
             /\ \/ /\ ghaRunID' = [ghaRunID EXCEPT ![j] = IF @ = None THEN g ELSE @]
                   /\ UNCHANGED errors
                \/ ghaRunID[j] = None /\ Error("postgres") /\ UNCHANGED ghaRunID
             /\ poll' = IF Completed(g)
                        THEN [poll EXCEPT !.at = "completing", !.found = g]
                        ELSE [poll EXCEPT !.at = "reading"]
    /\ UNCHANGED <<vars, status, ingested, githubVars, exec, sha, tracked, hook,
                   trigger, cancel, called, refreshes>>

(* A hierarchical report counts its failed tests; otherwise the conclusion *)
(* of the workflow decides, whatever a flat report says.                   *)
ByReport(o) == IF o.failing THEN "failed" ELSE "passed"
ByConclusion(o) == IF o.conclusion = "success" THEN "passed" ELSE "failed"

Decide(label, v) == poll' = [poll EXCEPT !.at = label, !.verdict = v]

(* downloadResultsArtifact: results[] before jobs[], and no report at all  *)
(* when a call on the way to it fails or it can not be read.               *)
Artifact(o, report) ==
    \/ report = o.report
    \/ report = "none" /\ Error("github")

(* handleCompletion up to its last write: details, artifact, results.  The *)
(* groups of a run can be inserted once (UNIQUE(test_run_id, group_id)).   *)
(* Without details the run has failed; without the report, or when it can  *)
(* not be stored entirely, the conclusion decides.                         *)
PollStore ==
    LET j == poll.run
        o == outcome[poll.found]
    IN
    /\ Works /\ poll.at = "completing"
    /\ \/ Error("github") /\ Decide("finishing", "failed") /\ UNCHANGED ingested
       \/ \E report \in {"none", "flat", "tree"} :
          /\ Artifact(o, report)
          /\ IF report = "tree" /\ j \notin ingested
             THEN \/ /\ ingested' = ingested \cup {j}
                     /\ Decide("reporting", ByReport(o))
                     /\ UNCHANGED errors
                  \/ /\ Error("postgres")
                     /\ Decide("finishing", ByConclusion(o))
                     /\ ingested' \in {ingested, ingested \cup {j}}
             ELSE /\ Decide("finishing", ByConclusion(o))
                  /\ UNCHANGED ingested
                  /\ UNCHANGED errors \/ Error("github") \/ Error("postgres")
    /\ UNCHANGED <<vars, status, ghaRunID, githubVars, exec, sha, tracked, hook,
                   trigger, cancel, called, refreshes>>

(* UpdateSummaryAndFinish ends the ingestion of a report; when it fails,   *)
(* the conclusion decides after all.                                       *)
PollReport ==
    /\ Works /\ poll.at = "reporting"
    /\ \/ /\ status' = [status EXCEPT ![poll.run] = poll.verdict]
          /\ tracked' = [tracked EXCEPT ![poll.run] = 0]
          /\ poll' = [NoPoll EXCEPT !.at = "reading", !.todo = poll.todo]
          /\ UNCHANGED errors
       \/ /\ Error("postgres")
          /\ Decide("finishing", ByConclusion(outcome[poll.found]))
          /\ UNCHANGED <<status, tracked>>
    /\ UNCHANGED <<vars, ghaRunID, ingested, githubVars, exec, sha, hook, trigger,
                   cancel, called, refreshes>>

(* UpdateFinished, its error ignored; the run is forgotten.                *)
PollFinish ==
    /\ Works /\ poll.at = "finishing"
    /\ Update(poll.run, poll.verdict)
    /\ tracked' = [tracked EXCEPT ![poll.run] = 0]
    /\ poll' = [NoPoll EXCEPT !.at = "reading", !.todo = poll.todo]
    /\ UNCHANGED <<vars, ghaRunID, ingested, githubVars, exec, sha, hook, trigger,
                   cancel, called, refreshes>>

Poller == Tick \/ TickDone \/ (\E j \in Runs : PollRead(j)) \/ PollFind
          \/ PollStore \/ PollReport \/ PollFinish
-----------------------------------------------------------------------------
(* The callback, the last step of a workflow: it arrives before GitHub     *)
(* reports the end, or late.  GHACallback reads the row and refuses a      *)
(* finished run, stores the results, then writes the status.               *)
HookRead(j) ==
    /\ mode # "down"
    /\ workflow[j] # "none" /\ outcome[j].report # "none"
    /\ hook[j] = "none" /\ called < MaxCallbacks
    /\ called' = called + 1
    /\ hook' = [hook EXCEPT ![j] = IF status[j] \in Terminal THEN "none" ELSE "accepted"]
    /\ UNCHANGED <<vars, dbVars, githubVars, exec, sha, tracked, poll, trigger,
                   cancel, errors, refreshes>>

HookStore(j) ==
    LET tree == outcome[j].report = "tree" IN
    /\ hook[j] = "accepted"
    /\ \/ /\ ~(tree /\ j \in ingested)
          /\ ingested' = IF tree THEN ingested \cup {j} ELSE ingested
          /\ hook' = [hook EXCEPT ![j] = "stored"]
          /\ UNCHANGED errors
       \/ /\ IF tree /\ j \in ingested THEN UNCHANGED errors ELSE Error("postgres")
          /\ hook' = [hook EXCEPT ![j] = "none"]
          /\ \/ UNCHANGED ingested
             \/ tree /\ ingested' = ingested \cup {j}
    /\ UNCHANGED <<vars, status, ghaRunID, githubVars, exec, sha, tracked, poll,
                   trigger, cancel, called, refreshes>>

HookFinish(j) ==
    /\ hook[j] = "stored"
    /\ hook' = [hook EXCEPT ![j] = "none"]
    /\ \/ status' = [status EXCEPT ![j] = ByReport(outcome[j])] /\ UNCHANGED errors
       \/ Error("postgres") /\ UNCHANGED status
    /\ UNCHANGED <<vars, ghaRunID, ingested, githubVars, exec, sha, tracked, poll,
                   trigger, cancel, called, refreshes>>
-----------------------------------------------------------------------------
(* The end of the process takes its memory.  A start reads back the        *)
(* running runs whose gha_run_id is known, and looks them up by the commit *)
(* of the run (commit_hash), not by the Verdox commit.                     *)
Forget ==
    /\ exec' = [w \in Workers |-> "lookup"]
    /\ sha' = [w \in Workers |-> 0]
    /\ tracked' = [j \in Runs |-> 0]
    /\ poll' = NoPoll
    /\ hook' = [j \in Runs |-> "none"]
    /\ trigger' = {}
    /\ cancel' = [j \in Runs |-> IF cancel[j] = "replied" THEN "replied" ELSE "none"]

LifeCrash == Crash /\ Forget /\ UNCHANGED <<dbVars, githubVars, countVars>>

(* A graceful end lets the requests in progress finish (for 10 seconds: a  *)
(* later one is cut off by a Crash).                                       *)
LifeExit ==
    /\ trigger = {}
    /\ \A j \in Runs : hook[j] = "none" /\ cancel[j] \in {"none", "replied"}
    /\ Exit /\ Forget
    /\ UNCHANGED <<dbVars, githubVars, countVars>>

Recoverable(j) == status[j] = "running" /\ ghaRunID[j] # None

LifeRestart ==
    /\ Restart
    /\ tracked' = [j \in Runs |-> IF Recoverable(j) THEN Upstream ELSE 0]
    /\ UNCHANGED <<dbVars, githubVars, exec, sha, poll, hook, trigger, cancel, countVars>>

QueueWorker(w) == (Stop(w) \/ Pop(w) \/ Ack(w)) /\ UNCHANGED lifeVars
Worker(w) == QueueWorker(w) \/ ExecuteJob(w)

Expire(r) == LockExpire(r) /\ UNCHANGED lifeVars

(* What goes on once begun: a request or a callback in progress.           *)
Request(j) == PushRun(j) \/ CancelRemove(j) \/ CancelFinish(j)
Callback(j) == HookStore(j) \/ HookFinish(j)

LifeNext ==
    \/ \E j \in Runs : CreateRun(j) \/ CancelRead(j) \/ HookRead(j)
    \/ \E j \in Runs : Request(j) \/ Callback(j) \/ WorkflowEnds(j)
    \/ \E w \in Workers : Worker(w)
    \/ \E r \in Repos : Expire(r) \/ Refresh(r)
    \/ Shutdown /\ UNCHANGED lifeVars
    \/ Poller
    \/ LifeCrash \/ LifeExit \/ LifeRestart

LifeSpec == LifeInit /\ [][LifeNext]_allVars

(* Goroutines run, requests in progress end, GitHub ends every workflow    *)
(* (its time limit), keys expire, the process is restarted.  Nobody need   *)
(* trigger, cancel or edit anything, and a callback may never arrive.      *)
LifeFairness ==
    /\ \A w \in Workers : WF_allVars(Worker(w))
    /\ \A j \in Runs : /\ WF_allVars(Request(j)) /\ WF_allVars(Callback(j))
                       /\ WF_allVars(WorkflowEnds(j))
    /\ \A r \in Repos : WF_allVars(Expire(r))
    /\ WF_allVars(Poller)
    /\ WF_allVars(LifeExit) /\ WF_allVars(LifeRestart)

LifeFairSpec == LifeSpec /\ LifeFairness
-----------------------------------------------------------------------------
LifeTypeOK ==
    /\ TypeOK
    /\ status \in [Runs -> {"absent", "queued", "running"} \cup Terminal]
    /\ ghaRunID \in [Runs -> Runs \cup {None}]
    /\ ingested \subseteq Runs
    /\ tip \in [Repos -> Nat \ {0}]
    /\ head \in [Runs -> Nat] /\ dispatched \in [Runs -> Nat]
    /\ workflow \in [Runs -> {"none", "in_progress", "completed"}]
    /\ outcome \in [Runs -> Outcomes \cup {None}]
    /\ exec \in [Workers -> {"lookup", "start", "ensure", "dispatch",
                             "register", "refuse", "fail"}]
    /\ sha \in [Workers -> Nat]
    /\ tracked \in [Runs -> Nat]
    /\ poll \in [at : {"idle", "reading", "looking", "completing", "reporting", "finishing"},
                 todo : SUBSET Runs, run : Runs \cup {None},
                 found : Runs \cup {None}, verdict : {"none", "passed", "failed"}]
    /\ hook \in [Runs -> {"none", "accepted", "stored"}]
    /\ trigger \subseteq Runs
    /\ cancel \in [Runs -> {"none", "seen", "removed", "replied"}]
    /\ errors \in Nat /\ called \in Nat /\ refreshes \in Nat

(* A run is "passed" only by what its own workflow run said: not by a      *)
(* refused dispatch, a lost answer, a restart, a late callback or a cancel *)
(* in between, nor by the workflow of another run.                         *)
PassedHasCause ==
    \A j \in Runs : status[j] = "passed" =>
      \/ workflow[j] = "completed" /\ outcome[j].conclusion = "success"
      \/ /\ workflow[j] # "none" /\ outcome[j].report # "none"
         /\ ~outcome[j].failing

(* With one worker for each repository, the poller finds the workflow run  *)
(* of the very run it is looking at: by head_sha alone.                    *)
PollerFindsOwn ==
    /\ \A j \in Runs : tracked[j] \in {0, Upstream, head[j]}
    /\ poll.at \in {"completing", "reporting", "finishing"} => poll.found = poll.run

(* A cancel that meets its job in the queue wins for good: nobody else's   *)
(* job goes with it, its run is never started and becomes "cancelled".     *)
(* (Nothing else makes a job go away while the process lives and Redis     *)
(* answers.)                                                               *)
WithdrawnByItsCancel ==
    \A j \in Runs : Place(j) = "gone" /\ Undisturbed /\ errors = 0 =>
      /\ cancel[j] \in {"removed", "replied"} /\ workflow[j] = "none"
      /\ status[j] = IF cancel[j] = "replied" THEN "cancelled" ELSE "queued"

(* A run whose job was pushed ends in a terminal status and stays there,   *)
(* whichever of the worker, the poller, a callback and a cancel is last,   *)
(* unless the process ends meanwhile.                                      *)
PushedRunFinishes ==
    \A j \in Runs : j \in Queued(RepoOf[j]) /\ crashes + shutdowns = 0
      ~> ([](status[j] \in Terminal) \/ crashes + shutdowns > 0)

(* The poller stops looking for a run once its row is final, also for a    *)
(* run it took over at a restart.                                          *)
FinishedRunIsForgotten ==
    \A j \in Runs : (tracked[j] # 0 /\ status[j] \in Terminal) ~> tracked[j] = 0

(* docs/USAGE-GUIDE.md: a run that is cancelled becomes Cancelled.         *)
CancelTakesEffect ==
    \A j \in Runs : cancel[j] = "replied" => status[j] = "cancelled"

(* docs/USAGE-GUIDE.md: Passed means that all tests passed.                *)
PassedMeansNoFailure ==
    \A j \in Runs : status[j] = "passed" => ~outcome[j].failing

(* gha_poller.go: a running run with a gha_run_id is polled again after a  *)
(* restart, and so ends.                                                   *)
RecoveredRunFinishes ==
    \A j \in Runs : (mode = "down" /\ Recoverable(j)) ~> status[j] \in Terminal
=============================================================================
