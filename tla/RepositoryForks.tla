--------------------------- MODULE RepositoryForks ---------------------------
(***************************************************************************)
(* One GitHub repository in Verdox: its row and its teams, its fork, the   *)
(* suites whose workflow files are pushed to the fork, and the cache of    *)
(* its branches.  RepositoryService, TestSuiteService, ForkService and the *)
(* fork handler.  A task is a request or a goroutine that a request left   *)
(* behind; its SQL statements and calls to GitHub are separate steps.      *)
(* GitHub accepts a fork first and makes it later.  A report that arrives  *)
(* creates suites too (IngestionService).                                  *)
(* fork_head_sha, which a refresh also writes, decides nothing anywhere.   *)
(***************************************************************************)
EXTENDS Naturals, FiniteSets

CONSTANTS
    Teams,
    NoTeam,
    Tasks,       \* requests and goroutines in progress at once
    FaultAt,     \* the calls that may fail
    MaxStarts,   \* bound: tasks started
    MaxPushes,   \* bound: commits on the upstream branch
    MaxFaults, MaxCrashes

ASSUME ForkAssumption ==
    /\ NoTeam \notin Teams
    /\ FaultAt \subseteq {"lookup", "insert", "link", "reactivate", "forking", "fork", "ready",
                      "markFailed", "status", "suites", "upstream", "push", "invalidate",
                      "cached", "list", "store", "recover"}
    /\ MaxStarts \in Nat /\ MaxPushes \in Nat /\ MaxFaults \in Nat /\ MaxCrashes \in Nat

VARIABLES
    repo,      \* the row in repositories
    linked,    \* its rows in team_repositories
    suites,    \* its rows in test_suites; an edit replaces a suite by a new one
    upstream,  \* the head of the default branch upstream: how often it was pushed to
    forked,    \* the fork on GitHub: not asked for, accepted (202), or there
    tip,       \* the head of the fork's default branch
    cache,     \* branches:{repo} in Redis: the upstream head it shows, 0 if unset
    task,      \* task[p]: what p is doing
    booting,   \* RecoverStuckForks has not looked yet
    overtaken, \* history: a refresh ended while another had read and not pushed
    missed,    \* history: a refresh failed or was cut off, and none has pushed since
    ingested,  \* history: suites made by a report that no push has carried yet
    stuck,     \* history: a write of fork_status failed over "forking", since the last start
    resynced,  \* history: the upstream head when the cache was last invalidated
    racing,    \* history: and a reader had listed the branches but not stored them
    abandoned, \* history: a team gave the repository up, or never got its row
    started, crashes, faults

github == <<upstream, forked, tip>>
pushes == <<overtaken, missed, ingested>>
history == <<pushes, stuck, resynced, racing, abandoned>>
bounds == <<started, crashes, faults>>
vars == <<repo, linked, suites, github, cache, task, booting, history, bounds>>

Suite == 1..MaxStarts
Head == 1..(MaxPushes + 1)
Commit == [base : Head, files : SUBSET Suite]
Idle == [at |-> "idle", resync |-> FALSE, team |-> NoTeam, files |-> {}, base |-> 0]

ForkTypeOK ==
    /\ repo \in [row : {"absent", "active", "inactive"}, named : BOOLEAN,
                 fork : {"none", "forking", "ready", "failed"}]
    /\ linked \subseteq Teams /\ suites \subseteq Suite
    /\ upstream \in Head /\ forked \in {"no", "accepted", "yes"} /\ tip \in Commit
    /\ overtaken \in BOOLEAN /\ missed \in BOOLEAN /\ stuck \in BOOLEAN /\ ingested \subseteq Suite
    /\ cache \in Head \cup {0} /\ resynced \in Head \cup {0}
    /\ \A p \in Tasks : task[p].files \subseteq Suite /\ task[p].base \in Head \cup {0}
    /\ started \in 0..MaxStarts /\ crashes \in 0..MaxCrashes /\ faults \in 0..MaxFaults

\* The repository is unknown, its fork perhaps not (the database was wiped), or it
\* has been set up for some teams, with no suites so far.
ForkInit ==
    /\ \/ /\ repo = [row |-> "absent", named |-> FALSE, fork |-> "none"]
          /\ linked = {} /\ forked \in {"no", "yes"}
       \/ /\ repo = [row |-> "active", named |-> TRUE, fork |-> "ready"]
          /\ linked \in (SUBSET Teams) \ {{}} /\ forked = "yes"
    /\ suites = {} /\ upstream = 1 /\ tip = [base |-> 1, files |-> {}]
    /\ cache = 0 /\ task = [p \in Tasks |-> Idle] /\ booting = FALSE
    /\ overtaken = FALSE /\ missed = FALSE /\ ingested = {} /\ stuck = FALSE
    /\ resynced = 0 /\ racing = FALSE /\ abandoned = FALSE
    /\ started = 0 /\ crashes = 0 /\ faults = 0

-----------------------------------------------------------------------------
\* A task at its first statement, with nothing read.
Fresh(at) == [Idle EXCEPT !.at = at]

\* What is started. Every endpoint but the fork handler finds the team of the
\* repository first, so a repository without a team can not be reached.

Begin(p, t) ==
    /\ task[p] = Idle /\ started < MaxStarts
    /\ started' = started + 1
    /\ task' = [task EXCEPT ![p] = t]
    /\ UNCHANGED <<linked, github, cache, booting, history, crashes, faults>>

StartAdd(p) ==
    \E t \in Teams : Begin(p, [Fresh("lookup") EXCEPT !.team = t]) /\ UNCHANGED <<repo, suites>>

\* The fork handler, on its own goroutine.
StartSetup(p) ==
    repo.row # "absent" /\ Begin(p, Fresh("forking")) /\ UNCHANGED <<repo, suites>>

StartSync(p) ==
    repo.named /\ Begin(p, Fresh("status")) /\ UNCHANGED <<repo, suites>>

StartResync(p) ==
    /\ linked # {}
    /\ Begin(p, IF repo.named THEN [Fresh("status") EXCEPT !.resync = TRUE]
                              ELSE Fresh("invalidate"))
    /\ UNCHANGED <<repo, suites>>

StartBranches(p) ==
    linked # {} /\ Begin(p, Fresh("cached")) /\ UNCHANGED <<repo, suites>>

\* A worker about to dispatch a run on the default branch.
StartEnsure(p) ==
    suites # {} /\ Begin(p, Fresh("status")) /\ UNCHANGED <<repo, suites>>

\* Create, update or delete a suite: one statement, and then a goroutine that
\* refreshes the workflows.
Edit(p) == linked # {} /\ Begin(p, Fresh("status")) /\ UNCHANGED repo

CreateSuite(p) == suites' = suites \cup {started + 1} /\ Edit(p)

UpdateSuite(p) == \E s \in suites : suites' = (suites \ {s}) \cup {started + 1} /\ Edit(p)

DeleteSuite(p) == \E s \in suites : suites' = suites \ {s} /\ Edit(p)

\* IngestHierarchical, which asks for no team: a job without a suite gets one, and
\* nobody refreshes the workflows.
IngestSuite ==
    /\ repo.row # "absent" /\ started < MaxStarts
    /\ suites' = suites \cup {started + 1}
    /\ ingested' = ingested \cup {started + 1}
    /\ started' = started + 1
    /\ UNCHANGED <<repo, linked, github, cache, task, booting, overtaken, missed, stuck,
                   resynced, racing, abandoned, crashes, faults>>

SoftDelete ==
    /\ linked # {} /\ repo.row = "active" /\ started < MaxStarts
    /\ repo' = [repo EXCEPT !.row = "inactive"]
    /\ started' = started + 1
    /\ UNCHANGED <<linked, suites, github, cache, task, booting, history, crashes, faults>>

\* AssignRepo and UnassignRepo of a team.
Assign(t) ==
    /\ repo.row # "absent" /\ started < MaxStarts
    /\ \/ t \notin linked /\ linked' = linked \cup {t} /\ UNCHANGED abandoned
       \/ t \in linked /\ linked' = linked \ {t} /\ abandoned' = TRUE
    /\ started' = started + 1
    /\ UNCHANGED <<repo, suites, github, cache, task, booting, pushes, stuck, resynced, racing,
                   crashes, faults>>

Start(p) ==
    \/ StartAdd(p) \/ StartSetup(p) \/ StartSync(p) \/ StartResync(p)
    \/ StartBranches(p) \/ StartEnsure(p)
    \/ CreateSuite(p) \/ UpdateSuite(p) \/ DeleteSuite(p)

-----------------------------------------------------------------------------
Goto(p, at) == task' = [task EXCEPT ![p] = IF at = "end" THEN Idle ELSE [@ EXCEPT !.at = at]]

\* The request ends, and leaves a goroutine that sets the fork up.
SetUp(p) == task' = [task EXCEPT ![p] = Fresh("forking")]

\* Only ResyncRepository has something left to do, and whatever came of it.
AfterRefresh(p) ==
    task' = [task EXCEPT ![p] = IF @.resync THEN Fresh("invalidate") ELSE Idle]

\* Plausible mistakes in the code below; the specification uses none of them.

\* The junction row is left to AssignRepo.
InsertAlone(p) ==
    /\ task[p].at = "insert"
    /\ IF repo.row = "absent"
       THEN repo' = [row |-> "active", named |-> FALSE, fork |-> "none"] /\ SetUp(p)
       ELSE UNCHANGED repo /\ Goto(p, "end")
    /\ UNCHANGED <<linked, suites, github, cache, booting, history, bounds>>

\* The fork is announced before GitHub is asked for it.
MarkForkingReady(p) ==
    /\ task[p].at = "forking"
    /\ repo' = [repo EXCEPT !.fork = "ready"]
    /\ Goto(p, "fork")
    /\ UNCHANGED <<linked, suites, github, cache, booting, history, bounds>>

\* The suites are left to the next edit.
MarkReadyOnly(p) ==
    /\ task[p].at = "ready"
    /\ repo' = [repo EXCEPT !.fork = "ready", !.named = TRUE]
    /\ Goto(p, "end")
    /\ UNCHANGED <<linked, suites, github, cache, booting, history, bounds>>

\* The cache is left to its TTL.
InvalidateNot(p) ==
    /\ task[p].at = "invalidate"
    /\ resynced' = upstream
    /\ racing' = \E q \in Tasks : task[q].at = "store"
    /\ Goto(p, "cached")
    /\ UNCHANGED <<repo, linked, suites, github, cache, booting, pushes, stuck, abandoned, bounds>>

\* A head that could not be resolved is taken as it is.
ReadUpstreamAny(p) ==
    /\ task[p].at = "upstream"
    /\ \E sha \in {0, upstream} :
          task' = [task EXCEPT ![p].base = sha, ![p].at = "push"]
    /\ UNCHANGED <<repo, linked, suites, github, cache, booting, history, bounds>>

\* Nothing is recovered at a start.
RecoverNothing(p) ==
    /\ booting /\ task[p] = Idle
    /\ booting' = FALSE
    /\ UNCHANGED <<repo, linked, suites, github, cache, task, history, bounds>>

-----------------------------------------------------------------------------
\* AddRepository.

Lookup(p) ==
    /\ task[p].at = "lookup"
    /\ Goto(p, CASE repo.row = "absent" -> "insert"
                 [] repo.row = "inactive" -> "reactivate"
                 [] repo.row = "active" -> "end")
    /\ UNCHANGED <<repo, linked, suites, github, cache, booting, history, bounds>>

\* github_repo_id is unique: the second of two INSERTs fails.
Insert(p) ==
    /\ task[p].at = "insert"
    /\ IF repo.row = "absent"
       THEN repo' = [row |-> "active", named |-> FALSE, fork |-> "none"] /\ Goto(p, "link")
       ELSE UNCHANGED repo /\ Goto(p, "end")
    /\ UNCHANGED <<linked, suites, github, cache, booting, history, bounds>>

\* (team, repository) is unique; the goroutine that forks starts after it.
Link(p) ==
    /\ task[p].at = "link"
    /\ linked' = linked \cup {task[p].team}
    /\ IF task[p].team \in linked THEN Goto(p, "end") ELSE SetUp(p)
    /\ UNCHANGED <<repo, suites, github, cache, booting, history, bounds>>

\* The old teams keep the repository, the one that asked is not linked.
Reactivate(p) ==
    /\ task[p].at = "reactivate"
    /\ repo' = [repo EXCEPT !.row = "active", !.fork = "none"]
    /\ SetUp(p)
    /\ UNCHANGED <<linked, suites, github, cache, booting, history, bounds>>

-----------------------------------------------------------------------------
\* SetupFork.

MarkForking(p) ==
    /\ task[p].at = "forking"
    /\ repo' = [repo EXCEPT !.fork = "forking"]
    /\ Goto(p, "fork")
    /\ UNCHANGED <<linked, suites, github, cache, booting, history, bounds>>

\* GitHub names the fork there is (200), or accepts to make one (202).
ForkRepo(p) ==
    /\ task[p].at = "fork"
    /\ forked' = IF forked = "no" THEN "accepted" ELSE forked
    /\ Goto(p, "ready")
    /\ UNCHANGED <<repo, linked, suites, upstream, tip, cache, booting, history, bounds>>

\* After 3 seconds, whether or not the fork is there by then.
MarkReady(p) ==
    /\ task[p].at = "ready"
    /\ repo' = [repo EXCEPT !.fork = "ready", !.named = TRUE]
    /\ Goto(p, "status")
    /\ UNCHANGED <<linked, suites, github, cache, booting, history, bounds>>

MarkFailed(p) ==
    /\ task[p].at = "markFailed"
    /\ repo' = [repo EXCEPT !.fork = "failed"]
    /\ Goto(p, "end")
    /\ UNCHANGED <<linked, suites, github, cache, booting, history, bounds>>

-----------------------------------------------------------------------------
\* RefreshSuiteWorkflows and EnsureBranchWorkflows.

ReadStatus(p) ==
    /\ task[p].at = "status"
    /\ IF repo.fork = "ready" /\ repo.named THEN Goto(p, "suites") ELSE AfterRefresh(p)
    /\ UNCHANGED <<repo, linked, suites, github, cache, booting, history, bounds>>

ReadSuites(p) ==
    /\ task[p].at = "suites"
    /\ task' = [task EXCEPT ![p].files = suites, ![p].at = "upstream"]
    /\ UNCHANGED <<repo, linked, suites, github, cache, booting, history, bounds>>

\* The branch is forced to the commit, whatever it points at.
UpdateRef(commit) == tip' = commit

\* PushSuiteWorkflows: one commit on top of the upstream head, then the branch
\* is forced to it (with no suites, to the upstream head itself).
ReadUpstream(p) ==
    /\ task[p].at = "upstream"
    /\ task' = [task EXCEPT ![p].base = upstream, ![p].at = "push"]
    /\ UNCHANGED <<repo, linked, suites, github, cache, booting, history, bounds>>

Overtakes(p) == \E q \in Tasks \ {p} : task[q].at \in {"upstream", "push"}

\* A fork that is not there yet has neither the commit nor the branch.
Push(p) ==
    /\ task[p].at = "push"
    /\ \/ /\ forked = "yes"
          /\ UpdateRef([base |-> task[p].base, files |-> task[p].files])
          /\ ingested' = ingested \ task[p].files
          /\ missed' = FALSE
       \/ forked # "yes" /\ missed' = TRUE /\ UNCHANGED <<tip, ingested>>
    /\ overtaken' = (overtaken \/ Overtakes(p))
    /\ AfterRefresh(p)
    /\ UNCHANGED <<repo, linked, suites, upstream, forked, cache, booting, stuck, resynced,
                   racing, abandoned, bounds>>

-----------------------------------------------------------------------------
\* The cache of the branches: 5 minutes, and dropped by a resync.

Invalidate(p) ==
    /\ task[p].at = "invalidate"
    /\ cache' = 0
    /\ resynced' = upstream
    /\ racing' = \E q \in Tasks : task[q].at = "store"
    /\ Goto(p, "cached")
    /\ UNCHANGED <<repo, linked, suites, github, booting, pushes, stuck, abandoned, bounds>>

LookInCache(p) ==
    /\ task[p].at = "cached"
    /\ Goto(p, IF cache # 0 THEN "end" ELSE "list")
    /\ UNCHANGED <<repo, linked, suites, github, cache, booting, history, bounds>>

ListRemote(p) ==
    /\ task[p].at = "list"
    /\ task' = [task EXCEPT ![p].base = upstream, ![p].at = "store"]
    /\ UNCHANGED <<repo, linked, suites, github, cache, booting, history, bounds>>

StoreInCache(p) ==
    /\ task[p].at = "store"
    /\ cache' = task[p].base
    /\ Goto(p, "end")
    /\ UNCHANGED <<repo, linked, suites, github, booting, history, bounds>>

Expire ==
    /\ cache # 0 /\ cache' = 0
    /\ UNCHANGED <<repo, linked, suites, github, task, booting, history, bounds>>

-----------------------------------------------------------------------------
Step(p) ==
    \/ Lookup(p) \/ Insert(p) \/ Link(p) \/ Reactivate(p)
    \/ MarkForking(p) \/ ForkRepo(p) \/ MarkReady(p) \/ MarkFailed(p)
    \/ ReadStatus(p) \/ ReadSuites(p) \/ ReadUpstream(p) \/ Push(p)
    \/ Invalidate(p) \/ LookInCache(p) \/ ListRemote(p) \/ StoreInCache(p)

UpstreamMoves ==
    /\ upstream \in 1..MaxPushes
    /\ upstream' = upstream + 1
    /\ UNCHANGED <<repo, linked, suites, forked, tip, cache, task, booting, history, bounds>>

ForkAppears ==
    /\ forked = "accepted"
    /\ forked' = "yes"
    /\ tip' = [base |-> upstream, files |-> {}]
    /\ UNCHANGED <<repo, linked, suites, upstream, cache, task, booting, history, bounds>>

Refreshing == {"status", "suites", "upstream", "push"}
Marking == {"forking", "ready", "markFailed"}

\* A call fails and changes nothing.  A failing lookup counts as "no such row", a
\* failing GET as a miss, a failing DEL is not looked at; a set-up records that
\* GitHub refused, a resync goes on, the rest ends.
Fail(p) ==
    LET at == task[p].at IN
    /\ at \in FaultAt /\ faults < MaxFaults
    /\ faults' = faults + 1
    /\ IF at \in Refreshing
       THEN AfterRefresh(p)
       ELSE Goto(p, CASE at = "lookup" -> "insert"
                      [] at = "fork" -> "markFailed"
                      [] at = "invalidate" -> "cached"
                      [] at = "cached" -> "list"
                      [] OTHER -> "end")
    /\ missed' = (missed \/ at \in Refreshing)
    /\ overtaken' = (overtaken \/ (at \in Refreshing /\ Overtakes(p)))
    /\ stuck' = (stuck \/ (at \in Marking /\ repo.fork = "forking"))
    /\ abandoned' = (abandoned \/ at = "link")
    /\ UNCHANGED <<repo, linked, suites, github, cache, booting, ingested, resynced, racing,
                   started, crashes>>

\* The process ends with everything it was doing, and starts again.
Crash ==
    /\ crashes < MaxCrashes
    /\ crashes' = crashes + 1
    /\ task' = [p \in Tasks |-> Idle]
    /\ booting' = TRUE
    /\ missed' = (missed \/ \E p \in Tasks : task[p].at \in Refreshing)
    /\ abandoned' = (abandoned \/ \E p \in Tasks : task[p].at = "link")
    /\ stuck' = FALSE
    /\ UNCHANGED <<repo, linked, suites, github, cache, overtaken, ingested, resynced, racing,
                   started, faults>>

\* RecoverStuckForks: active repositories only.
Recover(p) ==
    /\ booting /\ task[p] = Idle
    /\ booting' = FALSE
    /\ IF repo.row = "active" /\ repo.fork = "forking" THEN SetUp(p) ELSE UNCHANGED task
    /\ UNCHANGED <<repo, linked, suites, github, cache, history, bounds>>

\* Its query fails: nothing is recovered.
RecoverFails ==
    /\ booting /\ "recover" \in FaultAt /\ faults < MaxFaults
    /\ booting' = FALSE
    /\ faults' = faults + 1
    /\ stuck' = (stuck \/ repo.fork = "forking")
    /\ UNCHANGED <<repo, linked, suites, github, cache, task, pushes, resynced, racing, abandoned,
                   started, crashes>>

ForkNext ==
    \/ \E p \in Tasks : Start(p) \/ Step(p) \/ Fail(p) \/ Recover(p)
    \/ \E t \in Teams : Assign(t)
    \/ IngestSuite \/ SoftDelete \/ UpstreamMoves \/ ForkAppears \/ Expire
    \/ Crash \/ RecoverFails

ForkSpec == ForkInit /\ [][ForkNext]_vars

\* Requests and goroutines go on, and a start looks for stuck forks.
ForkFairSpec ==
    /\ ForkSpec
    /\ \A p \in Tasks : WF_vars(Step(p))
    /\ WF_vars(\E p \in Tasks : Recover(p))

-----------------------------------------------------------------------------
\* Nobody finds a fork ready, or pushes to it, before GitHub has accepted to make
\* it and its name is stored, through repeated and parallel set-ups, failing
\* writes, reactivation and restarts (fork_service.go:402-426). Whether it is
\* there by then, the code does not look.
ReadyIsForked ==
    repo.fork = "ready" \/ (\E p \in Tasks : task[p].at = "push") => repo.named /\ forked # "no"

\* The documented rule, which does not hold: "Wait for fork to be ready (GitHub forks
\* are async)" (docs/LLD/TEST-RUNNER.md:108); SetupFork sleeps 3 seconds (:418).
ReadyExists == repo.fork = "ready" => forked = "yes"

\* Once nothing is going on, a ready fork carries the workflow files of exactly
\* the suites there are, also of those edited while the set-up was running
\* (:428-432, test_suite_service.go:83-90), but for those a report made since
\* anybody pushed (ingestion_service.go:68-81). Unless one refresh overtook
\* another, or the last one failed, was cut off, or came before the fork.
BranchHasSuites ==
    (\A p \in Tasks : task[p] = Idle) /\ repo.fork = "ready" /\ ~missed /\ ~overtaken
    => tip.files = suites \ ingested

\* What the cache shows is not older than when it was last invalidated, unless a
\* reader had listed the branches before and stores them after. A resync whose DEL
\* fails invalidates nothing, and says it has (repository_service.go:485-492).
CacheSeesResync == cache # 0 => cache >= resynced \/ racing

\* Every repository somebody added belongs to a team, so that somebody can reach
\* it (:156-163): whatever else fails or is cut off, unless the second INSERT was
\* lost or a team gave it up.
AddedHasTeam ==
    repo.row # "absent" => linked # {} \/ abandoned \/ \E p \in Tasks : task[p].at = "link"

\* "Recover repos stuck in forking state" (cmd/server/main.go:117): an active
\* repository does not stay in "forking", wherever the process ended, unless a
\* write of the status has failed since the last start: SetupFork then gives up
\* (fork_service.go:412, :422-426), and only a start looks for such rows.
ForkSettles ==
    repo.row = "active" /\ repo.fork = "forking" /\ ~stuck
        ~> repo.fork # "forking" \/ repo.row # "active" \/ stuck
=============================================================================
