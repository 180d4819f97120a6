----------------------- MODULE RepositoryForksProofs -----------------------
(***************************************************************************)
(* Proofs about RepositoryForks, for any teams, any number of tasks in     *)
(* progress, of pushes upstream, of failing calls and of restarts.         *)
(***************************************************************************)
EXTENDS RepositoryForks, TLAPS

(* What a task is, and what it has in hand at its steps.                   *)
Labels == {"idle", "lookup", "insert", "link", "reactivate", "forking", "fork", "ready",
           "markFailed", "status", "suites", "upstream", "push", "invalidate", "cached",
           "list", "store"}
Doing == [at : Labels, resync : BOOLEAN, team : Teams \cup {NoTeam},
          files : SUBSET Suite, base : Head \cup {0}]

Legal(t) ==
    /\ t \in Doing
    /\ t.at = "idle" => t = Idle
    /\ t.at \in {"lookup", "insert", "link", "reactivate"} => t.team \in Teams
    /\ t.at \in {"push", "store"} => t.base \in Head

(* A suite has the number of the request that made it.                     *)
Typed ==
    /\ ForkTypeOK
    /\ task \in [Tasks -> Doing]
    /\ \A p \in Tasks : Legal(task[p])
    /\ suites \subseteq 1..started

(* A set-up is of a repository there is, and gets to its last write only   *)
(* after GitHub has accepted; a refresh goes on only with a stored name.   *)
Standing(t) ==
    /\ t.at \in {"link", "reactivate", "forking", "fork", "ready"} => repo.row # "absent"
    /\ t.at = "ready" => forked # "no"
    /\ t.at \in {"suites", "upstream", "push"} => repo.named /\ forked # "no"

(* A fork that is not there yet has no files.                              *)
Forked ==
    /\ repo.fork = "ready" => repo.named /\ forked # "no"
    /\ repo.named => repo.row # "absent"
    /\ forked # "yes" => tip.files = {}
    /\ \A p \in Tasks : Standing(task[p])

(* What a reader is about to store is as new as the last time the cache    *)
(* was invalidated, or the resync has seen it.                             *)
Cached ==
    /\ CacheSeesResync
    /\ resynced <= upstream
    /\ \A p \in Tasks : task[p].at = "store" => task[p].base >= resynced \/ racing

(* The suites there are, without some of those only a report has made.     *)
Current(files) == suites \ ingested \subseteq files /\ files \subseteq suites

(* A task that will have pushed the suites there are now: it has not read  *)
(* them, or has read them and not pushed.                                  *)
WillPush(p) ==
    \/ task[p].at \in {"status", "suites"}
    \/ task[p].at \in {"upstream", "push"} /\ Current(task[p].files)

(* Either somebody is going to push the suites there are, or nobody is     *)
(* about to push others, and the branch has them or a refresh was missed.  *)
Pushing ==
    repo.fork = "ready" /\ ~overtaken =>
        \/ \E p \in Tasks : WillPush(p)
        \/ /\ \A p \in Tasks : task[p].at \notin {"upstream", "push"}
           /\ missed \/ tip.files = suites \ ingested
-----------------------------------------------------------------------------
(* Steps change at most one task, and to a legal one.                      *)
Moves(p) ==
    /\ task' \in [Tasks -> Doing] /\ Legal(task'[p])
    /\ \A q \in Tasks : q # p => task'[q] = task[q]

LEMMA IdleIsLegal == Legal(Idle)
  BY DEF Legal, Doing, Labels, Idle

LEMMA IdleFacts ==
    Idle.at = "idle" /\ Idle.files = {} /\ Idle.base = 0
  BY DEF Idle

LEMMA FreshFacts ==
    ASSUME NEW at \in {"forking", "status", "invalidate", "cached"}
    PROVE  Legal(Fresh(at)) /\ Fresh(at).at = at
  BY DEF Fresh, Idle, Legal, Doing, Labels

LEMMA OneTask ==
    ASSUME Typed, NEW p \in Tasks, NEW r, Legal(r), task' = [task EXCEPT ![p] = r]
    PROVE  Moves(p) /\ task'[p] = r
<1>1. r \in Doing
  BY DEF Legal
<1>2. QED  BY <1>1 DEF Typed, Moves

LEMMA MovesFacts ==
    ASSUME Typed, NEW p \in Tasks, Moves(p)
    PROVE  /\ task' \in [Tasks -> Doing]
           /\ \A q \in Tasks : Legal(task'[q])
           /\ \A q \in Tasks : task'[q].files \subseteq Suite /\ task'[q].base \in Head \cup {0}
<1>1. task' \in [Tasks -> Doing] /\ \A q \in Tasks : Legal(task'[q])
  BY DEF Typed, Moves
<1>2. QED  BY <1>1 DEF Doing

(* The labels a task can go to whatever it has in hand.                    *)
Free == {"fork", "ready", "markFailed", "status", "suites", "upstream", "cached", "list", "end"}

LEMMA GotoFacts ==
    ASSUME Typed, NEW p \in Tasks, NEW at, Goto(p, at),
           at \in Free \/ (at \in {"insert", "link", "reactivate"} /\ task[p].team \in Teams)
    PROVE  /\ Moves(p)
           /\ at = "end" => task'[p] = Idle
           /\ at # "end" => task'[p] = [task[p] EXCEPT !.at = at]
           /\ task'[p].at = IF at = "end" THEN "idle" ELSE at
<1>1. task[p] \in Doing
  BY DEF Typed
<1>2. CASE at = "end"
  BY <1>2, IdleIsLegal, IdleFacts, OneTask DEF Goto
<1>3. CASE at # "end"
  <2>1. task' = [task EXCEPT ![p] = [task[p] EXCEPT !.at = at]]
    BY <1>3 DEF Goto, Typed
  <2>2. Legal([task[p] EXCEPT !.at = at])
    BY <1>1, <1>3 DEF Free, Legal, Doing, Labels
  <2>3. [task[p] EXCEPT !.at = at].at = at
    BY <1>1 DEF Doing
  <2>4. QED  BY <1>3, <2>1, <2>2, <2>3, OneTask
<1>4. QED  BY <1>2, <1>3

LEMMA SetUpFacts ==
    ASSUME Typed, NEW p \in Tasks, SetUp(p)
    PROVE  Moves(p) /\ task'[p].at = "forking"
  BY FreshFacts, OneTask DEF SetUp

LEMMA AfterFacts ==
    ASSUME Typed, NEW p \in Tasks, AfterRefresh(p)
    PROVE  Moves(p) /\ task'[p].at \in {"idle", "invalidate"}
<1>1. PICK r \in {Fresh("invalidate"), Idle} : task' = [task EXCEPT ![p] = r]
  BY DEF AfterRefresh, Typed
<1>2. Legal(r) /\ r.at \in {"idle", "invalidate"}
  BY FreshFacts, IdleIsLegal, IdleFacts
<1>3. QED  BY <1>1, <1>2, OneTask

LEMMA StartMoves ==
    ASSUME Typed, NEW p \in Tasks, Start(p)
    PROVE  /\ Moves(p) /\ task[p] = Idle
           /\ task'[p].at \in {"lookup", "forking", "status", "invalidate", "cached"}
           /\ task'[p].at = "forking" => repo.row # "absent"
           /\ suites' # suites => task'[p].at = "status"
           /\ suites' \subseteq suites \cup {started + 1}
           /\ started < MaxStarts /\ started' = started + 1
           /\ UNCHANGED <<repo, linked, github, cache, booting, history, crashes, faults>>
<1>1. CASE StartAdd(p)
  <2>1. PICK t \in Teams : Begin(p, [Fresh("lookup") EXCEPT !.team = t]) /\ UNCHANGED <<repo, suites>>
    BY <1>1 DEF StartAdd
  <2>2. Legal([Fresh("lookup") EXCEPT !.team = t]) /\ [Fresh("lookup") EXCEPT !.team = t].at = "lookup"
    BY DEF Fresh, Idle, Legal, Doing, Labels
  <2>3. QED  BY <2>1, <2>2, OneTask DEF Begin
<1>2. CASE StartResync(p)
  <2>1. PICK r \in {[Fresh("status") EXCEPT !.resync = TRUE], Fresh("invalidate")} :
          Begin(p, r) /\ UNCHANGED <<repo, suites>>
    BY <1>2 DEF StartResync
  <2>2. Legal(r) /\ r.at \in {"status", "invalidate"}
    BY <2>1 DEF Fresh, Idle, Legal, Doing, Labels
  <2>3. QED  BY <2>1, <2>2, OneTask DEF Begin
<1>3. CASE StartSetup(p) \/ StartSync(p) \/ StartBranches(p) \/ StartEnsure(p)
  <2>1. PICK at \in {"forking", "status", "cached"} :
          Begin(p, Fresh(at)) /\ UNCHANGED <<repo, suites>> /\ (at = "forking" => repo.row # "absent")
    BY <1>3 DEF StartSetup, StartSync, StartBranches, StartEnsure
  <2>2. Legal(Fresh(at)) /\ Fresh(at).at = at
    BY FreshFacts
  <2>3. QED  BY <2>1, <2>2, OneTask DEF Begin
<1>4. CASE CreateSuite(p) \/ UpdateSuite(p) \/ DeleteSuite(p)
  <2>1. /\ Begin(p, Fresh("status")) /\ UNCHANGED repo
        /\ suites' \subseteq suites \cup {started + 1}
    BY <1>4 DEF CreateSuite, UpdateSuite, DeleteSuite, Edit
  <2>2. Legal(Fresh("status")) /\ Fresh("status").at = "status"
    BY FreshFacts
  <2>3. QED  BY <2>1, <2>2, OneTask DEF Begin
<1>5. QED  BY <1>1, <1>2, <1>3, <1>4 DEF Start

(* Where each step leads.                                                  *)
LEMMA RowStepsLead ==
    ASSUME Typed, NEW p \in Tasks
    PROVE  /\ Lookup(p) =>
                /\ Moves(p) /\ task'[p].at \in {"insert", "reactivate", "idle"}
                /\ task'[p].at = "reactivate" => repo.row # "absent"
           /\ Insert(p) =>
                /\ Moves(p) /\ task'[p].at \in {"link", "idle"}
                /\ \/ repo.row = "absent" /\ task'[p].at = "link"
                         /\ repo' = [row |-> "active", named |-> FALSE, fork |-> "none"]
                   \/ repo.row # "absent" /\ task'[p].at = "idle" /\ repo' = repo
           /\ Link(p) => Moves(p) /\ task'[p].at \in {"forking", "idle"}
           /\ Reactivate(p) => Moves(p) /\ task'[p].at = "forking"
<1>1. task[p] \in Doing /\ Legal(task[p]) /\ repo.row \in {"absent", "active", "inactive"}
  BY DEF Typed, ForkTypeOK
<1>2. ASSUME Lookup(p)
      PROVE  /\ Moves(p) /\ task'[p].at \in {"insert", "reactivate", "idle"}
             /\ task'[p].at = "reactivate" => repo.row # "absent"
  <2>1. task[p].team \in Teams
    BY <1>1, <1>2 DEF Lookup, Legal
  <2>2. PICK at \in {"insert", "reactivate", "end"} :
          Goto(p, at) /\ (at = "reactivate" => repo.row = "inactive")
    BY <1>1, <1>2 DEF Lookup
  <2>3. QED  BY <2>1, <2>2, GotoFacts DEF Free
<1>3. ASSUME Insert(p)
      PROVE  /\ Moves(p) /\ task'[p].at \in {"link", "idle"}
             /\ \/ repo.row = "absent" /\ task'[p].at = "link"
                      /\ repo' = [row |-> "active", named |-> FALSE, fork |-> "none"]
                \/ repo.row # "absent" /\ task'[p].at = "idle" /\ repo' = repo
  <2>1. task[p].team \in Teams
    BY <1>1, <1>3 DEF Insert, Legal
  <2>2. QED  BY <1>3, <2>1, GotoFacts DEF Insert, Free
<1>4. ASSUME Link(p)
      PROVE  Moves(p) /\ task'[p].at \in {"forking", "idle"}
  BY <1>4, GotoFacts, SetUpFacts DEF Link, Free
<1>5. ASSUME Reactivate(p)
      PROVE  Moves(p) /\ task'[p].at = "forking"
  BY <1>5, SetUpFacts DEF Reactivate
<1>6. QED  BY <1>2, <1>3, <1>4, <1>5

LEMMA ForkStepsLead ==
    ASSUME Typed, NEW p \in Tasks
    PROVE  /\ MarkForking(p) => Moves(p) /\ task'[p].at = "fork"
           /\ ForkRepo(p) => Moves(p) /\ task'[p].at = "ready"
           /\ MarkReady(p) => Moves(p) /\ task'[p].at = "status"
           /\ MarkFailed(p) => Moves(p) /\ task'[p].at = "idle"
  BY GotoFacts DEF Free, MarkForking, ForkRepo, MarkReady, MarkFailed

LEMMA RefreshStepsLead ==
    ASSUME Typed, NEW p \in Tasks
    PROVE  /\ ReadStatus(p) =>
                /\ Moves(p)
                /\ IF repo.fork = "ready" /\ repo.named
                   THEN task'[p].at = "suites"
                   ELSE task'[p].at \in {"idle", "invalidate"}
           /\ ReadSuites(p) => Moves(p) /\ task'[p].at = "upstream" /\ task'[p].files = suites
           /\ ReadUpstream(p) => Moves(p) /\ task'[p].at = "push" /\ task'[p].files = task[p].files
           /\ Push(p) => Moves(p) /\ task'[p].at \in {"idle", "invalidate"}
<1>1. task[p] \in Doing /\ Legal(task[p])
  BY DEF Typed
<1>2. ASSUME ReadStatus(p)
      PROVE  /\ Moves(p)
             /\ IF repo.fork = "ready" /\ repo.named
                THEN task'[p].at = "suites"
                ELSE task'[p].at \in {"idle", "invalidate"}
  BY <1>2, GotoFacts, AfterFacts DEF ReadStatus, Free
<1>3. ASSUME ReadSuites(p)
      PROVE  Moves(p) /\ task'[p].at = "upstream" /\ task'[p].files = suites
  <2>1. PICK r : r = [task[p] EXCEPT !.files = suites, !.at = "upstream"]
    OBVIOUS
  <2>2. task' = [task EXCEPT ![p] = r]
    BY <1>3, <2>1 DEF ReadSuites, Typed
  <2>3. Legal(r) /\ r.at = "upstream" /\ r.files = suites
    BY <1>1, <2>1 DEF Legal, Doing, Labels, Typed, ForkTypeOK
  <2>4. QED  BY <2>2, <2>3, OneTask
<1>4. ASSUME ReadUpstream(p)
      PROVE  Moves(p) /\ task'[p].at = "push" /\ task'[p].files = task[p].files
  <2>1. PICK r : r = [task[p] EXCEPT !.base = upstream, !.at = "push"]
    OBVIOUS
  <2>2. task' = [task EXCEPT ![p] = r]
    BY <1>4, <2>1 DEF ReadUpstream, Typed
  <2>3. Legal(r) /\ r.at = "push" /\ r.files = task[p].files
    BY <1>1, <2>1 DEF Legal, Doing, Labels, Typed, ForkTypeOK
  <2>4. QED  BY <2>2, <2>3, OneTask
<1>5. ASSUME Push(p)
      PROVE  Moves(p) /\ task'[p].at \in {"idle", "invalidate"}
  BY <1>5, AfterFacts DEF Push
<1>6. QED  BY <1>2, <1>3, <1>4, <1>5

LEMMA CacheStepsLead ==
    ASSUME Typed, NEW p \in Tasks
    PROVE  /\ Invalidate(p) => Moves(p) /\ task'[p].at = "cached"
           /\ LookInCache(p) => Moves(p) /\ task'[p].at \in {"list", "idle"}
           /\ ListRemote(p) => Moves(p) /\ task'[p].at = "store" /\ task'[p].base = upstream
           /\ StoreInCache(p) => Moves(p) /\ task'[p].at = "idle"
<1>1. task[p] \in Doing /\ Legal(task[p])
  BY DEF Typed
<1>2. ASSUME ListRemote(p)
      PROVE  Moves(p) /\ task'[p].at = "store" /\ task'[p].base = upstream
  <2>1. PICK r : r = [task[p] EXCEPT !.base = upstream, !.at = "store"]
    OBVIOUS
  <2>2. task' = [task EXCEPT ![p] = r]
    BY <1>2, <2>1 DEF ListRemote, Typed
  <2>3. Legal(r) /\ r.at = "store" /\ r.base = upstream
    BY <1>1, <2>1 DEF Legal, Doing, Labels, Typed, ForkTypeOK
  <2>4. QED  BY <2>2, <2>3, OneTask
<1>3. QED  BY <1>2, GotoFacts DEF Free, Invalidate, LookInCache, StoreInCache

LEMMA StepMoves ==
    ASSUME Typed, NEW p \in Tasks, Step(p)
    PROVE  Moves(p)
  BY RowStepsLead, ForkStepsLead, RefreshStepsLead, CacheStepsLead DEF Step

LEMMA FailMoves ==
    ASSUME Typed, NEW p \in Tasks, Fail(p)
    PROVE  /\ Moves(p)
           /\ task'[p].at \in {"idle", "invalidate", "insert", "markFailed", "cached", "list"}
<1>1. CASE task[p].at \in Refreshing
  BY <1>1, AfterFacts DEF Fail
<1>2. CASE task[p].at \notin Refreshing
  <2>1. task[p].at = "lookup" => task[p].team \in Teams
    BY DEF Typed, Legal
  <2>2. PICK at \in {"insert", "markFailed", "cached", "list", "end"} :
          Goto(p, at) /\ (at = "insert" => task[p].at = "lookup")
    BY <1>2 DEF Fail
  <2>3. QED  BY <2>1, <2>2, GotoFacts DEF Free
<1>3. QED  BY <1>1, <1>2

LEMMA RecoverMoves ==
    ASSUME Typed, NEW p \in Tasks, Recover(p)
    PROVE  /\ Moves(p) /\ task[p] = Idle
           /\ task' = task \/ (task'[p].at = "forking" /\ repo.row # "absent")
           /\ UNCHANGED <<repo, linked, suites, github, cache, history, bounds>>
<1>1. CASE UNCHANGED task
  BY <1>1 DEF Typed, Moves, Recover
<1>2. CASE SetUp(p) /\ repo.row = "active"
  BY <1>2, SetUpFacts DEF Recover
<1>3. QED  BY <1>1, <1>2 DEF Recover

-----------------------------------------------------------------------------
(* The types.                                                              *)
Repo == [row : {"absent", "active", "inactive"}, named : BOOLEAN,
         fork : {"none", "forking", "ready", "failed"}]

LEMMA RepoRows ==
    ASSUME NEW row \in {"absent", "active", "inactive"}, NEW named \in BOOLEAN,
           NEW fork \in {"none", "forking", "ready", "failed"}
    PROVE  [row |-> row, named |-> named, fork |-> fork] \in Repo
  BY DEF Repo

LEMMA TypedInit == ForkInit => Typed
<1> SUFFICES ASSUME ForkInit PROVE Typed  OBVIOUS
<1>1. task = [p \in Tasks |-> Idle]
  BY DEF ForkInit
<1>2. task \in [Tasks -> Doing] /\ \A p \in Tasks : Legal(task[p])
  BY <1>1, IdleIsLegal DEF Legal
<1>3. \A p \in Tasks : task[p].files \subseteq Suite /\ task[p].base \in Head \cup {0}
  BY <1>2 DEF Doing
<1>4. repo \in Repo /\ linked \subseteq Teams /\ forked \in {"no", "accepted", "yes"}
  BY RepoRows DEF ForkInit
<1>5. 1 \in Head /\ tip \in Commit
  BY ForkAssumption DEF ForkInit, Head, Commit
<1>6. /\ suites \subseteq Suite /\ upstream \in Head /\ suites \subseteq 1..started
      /\ cache \in Head \cup {0} /\ resynced \in Head \cup {0}
      /\ overtaken \in BOOLEAN /\ missed \in BOOLEAN /\ stuck \in BOOLEAN /\ ingested \subseteq Suite
  BY <1>5 DEF ForkInit
<1>7. started \in 0..MaxStarts /\ crashes \in 0..MaxCrashes /\ faults \in 0..MaxFaults
  BY ForkAssumption DEF ForkInit
<1>8. ForkTypeOK
  BY <1>3, <1>4, <1>5, <1>6, <1>7 DEF ForkTypeOK, Repo
<1>9. QED  BY <1>2, <1>6, <1>8 DEF Typed

(* What the tasks hold is legal; the rest is kept in its domain.           *)
TasksAreLegal ==
    /\ task \in [Tasks -> Doing]
    /\ \A p \in Tasks : Legal(task[p])
    /\ \A p \in Tasks : task[p].files \subseteq Suite /\ task[p].base \in Head \cup {0}

LEMMA MovesLegally ==
    ASSUME Typed, NEW p \in Tasks, Moves(p)
    PROVE  TasksAreLegal'
  BY MovesFacts DEF TasksAreLegal

LEMMA Assemble ==
    ASSUME Typed, TasksAreLegal',
           repo' \in Repo,
           linked' \subseteq Teams, suites' \subseteq Suite, suites' \subseteq 1..started',
           forked' \in {"no", "accepted", "yes"}, tip' \in Commit, upstream' \in Head,
           cache' \in Head \cup {0}, resynced' \in Head \cup {0},
           overtaken' \in BOOLEAN, missed' \in BOOLEAN, stuck' \in BOOLEAN,
           ingested' \subseteq Suite,
           started' \in 0..MaxStarts, faults' \in 0..MaxFaults, crashes' \in 0..MaxCrashes
    PROVE  Typed'
<1>1. ForkTypeOK'
  BY DEF ForkTypeOK, Repo, TasksAreLegal
<1>2. QED  BY <1>1 DEF Typed, TasksAreLegal

(* The suite a request makes is a new one.                                 *)
LEMMA NextSuite ==
    ASSUME Typed, started < MaxStarts, started' = started + 1
    PROVE  /\ started' \in 0..MaxStarts /\ started + 1 \in Suite
           /\ started + 1 \notin suites
           /\ \A S : S \subseteq suites \cup {started + 1} =>
                        S \subseteq Suite /\ S \subseteq 1..started'
<1>1. started \in Nat /\ started' \in 0..MaxStarts /\ started + 1 \in Suite
  BY ForkAssumption DEF Typed, ForkTypeOK, Suite
<1>2. \A s \in 1..started : s \in 1..started' /\ s # started + 1
  BY <1>1
<1>3. started + 1 \in 1..started'
  BY <1>1
<1>4. QED  BY <1>1, <1>2, <1>3 DEF Typed, ForkTypeOK

LEMMA TypedMoves ==
    ASSUME Typed, NEW p \in Tasks, Start(p) \/ Step(p) \/ Fail(p) \/ Recover(p)
    PROVE  Typed'
<1>1. TasksAreLegal'
  BY StartMoves, StepMoves, FailMoves, RecoverMoves, MovesLegally
<1>2. task[p] \in Doing /\ Legal(task[p])
  BY DEF Typed
<1>3. task[p].base \in Head \cup {0} /\ task[p].files \subseteq Suite
  BY <1>2 DEF Doing
<1>4. ForkTypeOK /\ suites \subseteq 1..started
  BY DEF Typed
<1> USE <1>1, <1>4
<1>5. CASE Start(p)
  <2>1. /\ started < MaxStarts /\ started' = started + 1
        /\ suites' \subseteq suites \cup {started + 1}
        /\ UNCHANGED <<repo, linked, github, cache, booting, history, crashes, faults>>
    BY <1>5, StartMoves
  <2>2. started' \in 0..MaxStarts /\ suites' \subseteq Suite /\ suites' \subseteq 1..started'
    BY <2>1, NextSuite
  <2>3. QED  BY <2>1, <2>2, Assemble DEF ForkTypeOK, Repo, github, history, pushes
<1>6. CASE Lookup(p) \/ ReadStatus(p) \/ ReadSuites(p) \/ ReadUpstream(p) \/ LookInCache(p)
           \/ ListRemote(p) \/ Recover(p)
  <2>1. UNCHANGED <<repo, linked, suites, github, cache, history, bounds>>
    BY <1>6
    DEF Lookup, ReadStatus, ReadSuites, ReadUpstream, LookInCache, ListRemote, Recover
  <2>2. QED  BY <2>1, Assemble DEF ForkTypeOK, Repo, github, history, pushes, bounds
<1>7. CASE Insert(p) \/ Reactivate(p) \/ MarkForking(p) \/ MarkReady(p) \/ MarkFailed(p)
  <2>1. repo' \in Repo
    <3>1. CASE Insert(p)
      <4>1. repo \in Repo
        BY DEF ForkTypeOK, Repo
      <4>2. QED  BY <3>1, <4>1, RepoRows DEF Insert
    <3>2. CASE Reactivate(p)
      BY <3>2 DEF ForkTypeOK, Reactivate, Repo
    <3>3. CASE MarkForking(p) \/ MarkReady(p) \/ MarkFailed(p)
      BY <3>3 DEF ForkTypeOK, MarkForking, MarkReady, MarkFailed, Repo
    <3>4. QED  BY <1>7, <3>1, <3>2, <3>3
  <2>2. UNCHANGED <<linked, suites, github, cache, history, bounds>>
    BY <1>7 DEF Insert, Reactivate, MarkForking, MarkReady, MarkFailed
  <2>3. QED
    BY <2>1, <2>2, Assemble DEF ForkTypeOK, github, history, pushes, bounds
<1>8. CASE Link(p)
  <2>1. task[p].team \in Teams
    BY <1>2, <1>8 DEF Link, Legal
  <2>2. linked' \subseteq Teams /\ UNCHANGED <<repo, suites, github, cache, history, bounds>>
    BY <1>8, <2>1 DEF Link, ForkTypeOK
  <2>3. QED  BY <2>2, Assemble DEF ForkTypeOK, Repo, github, history, pushes, bounds
<1>9. CASE ForkRepo(p)
  <2>1. /\ forked' \in {"no", "accepted", "yes"}
        /\ UNCHANGED <<repo, linked, suites, upstream, tip, cache, history, bounds>>
    BY <1>9 DEF ForkRepo, ForkTypeOK
  <2>2. QED  BY <2>1, Assemble DEF ForkTypeOK, Repo, history, pushes, bounds
<1>10. CASE Push(p)
  <2>1. task[p].base \in Head
    BY <1>2, <1>10 DEF Push, Legal
  <2>2. tip' \in Commit
    BY <1>3, <1>10, <2>1 DEF Push, UpdateRef, Commit, ForkTypeOK
  <2>3. /\ missed' \in BOOLEAN /\ ingested' \subseteq Suite
        /\ UNCHANGED <<repo, linked, suites, upstream, forked, cache, stuck, resynced, bounds>>
    BY <1>10 DEF Push, ForkTypeOK
  <2>4. overtaken' \in BOOLEAN
    BY <1>10, Zenon DEF Push
  <2>5. QED  BY <2>2, <2>3, <2>4, Assemble DEF ForkTypeOK, Repo, bounds
<1>11. CASE Invalidate(p)
  BY <1>11, Assemble DEF ForkTypeOK, Repo, Invalidate, github, pushes, bounds
<1>12. CASE StoreInCache(p)
  BY <1>3, <1>12, Assemble DEF ForkTypeOK, Repo, StoreInCache, github, history, pushes, bounds
<1>13. CASE Fail(p)
  <2>1. faults' \in 0..MaxFaults
    BY <1>13, ForkAssumption DEF Fail, ForkTypeOK
  <2>2. missed' \in BOOLEAN /\ overtaken' \in BOOLEAN /\ stuck' \in BOOLEAN
    BY <1>13, Zenon DEF Fail
  <2>3. UNCHANGED <<repo, linked, suites, github, cache, ingested, resynced, started, crashes>>
    BY <1>13 DEF Fail
  <2>4. QED  BY <2>1, <2>2, <2>3, Assemble DEF ForkTypeOK, Repo, github
<1>14. QED
  BY <1>5, <1>6, <1>7, <1>8, <1>9, <1>10, <1>11, <1>12, <1>13 DEF Step

(* A restart leaves nothing in progress.                                   *)
LEMMA CrashIdles ==
    ASSUME Crash
    PROVE  TasksAreLegal' /\ \A p \in Tasks : task'[p] = Idle /\ task'[p].at = "idle"
<1>1. task' \in [Tasks -> Doing] /\ \A p \in Tasks : task'[p] = Idle
  BY IdleIsLegal DEF Crash, Legal
<1>2. \A p \in Tasks : Legal(task'[p])
  BY <1>1, IdleIsLegal, Zenon
<1>3. QED  BY <1>1, <1>2, IdleFacts DEF Doing, TasksAreLegal

LEMMA TypedStep ==
    ASSUME Typed, [ForkNext]_vars
    PROVE  Typed'
<1>1. CASE \E p \in Tasks : Start(p) \/ Step(p) \/ Fail(p) \/ Recover(p)
  BY <1>1, TypedMoves
<1>2. task' = task => TasksAreLegal'
  BY DEF Typed, ForkTypeOK, TasksAreLegal
<1>3. ForkTypeOK /\ suites \subseteq 1..started
  BY DEF Typed
<1>4. CASE (\E t \in Teams : Assign(t)) \/ SoftDelete
  <2>1. /\ started < MaxStarts /\ started' = started + 1 /\ suites' = suites
        /\ UNCHANGED <<task, github, cache, pushes, stuck, resynced, crashes, faults>>
    BY <1>4 DEF Assign, SoftDelete, history
  <2>2. started' \in 0..MaxStarts /\ suites' \subseteq Suite /\ suites' \subseteq 1..started'
    BY <2>1, NextSuite
  <2>3. repo' \in Repo /\ linked' \subseteq Teams
    BY <1>3, <1>4 DEF Assign, SoftDelete, ForkTypeOK, Repo
  <2>4. QED  BY <1>2, <1>3, <2>1, <2>2, <2>3, Assemble DEF ForkTypeOK, github, pushes
<1>5. CASE IngestSuite
  <2>1. /\ started < MaxStarts /\ started' = started + 1
        /\ suites' \subseteq suites \cup {started + 1} /\ ingested' = ingested \cup {started + 1}
        /\ UNCHANGED <<repo, linked, github, cache, task, overtaken, missed, stuck, resynced,
                       crashes, faults>>
    BY <1>5 DEF IngestSuite
  <2>2. /\ started' \in 0..MaxStarts /\ suites' \subseteq Suite /\ suites' \subseteq 1..started'
        /\ started + 1 \in Suite
    BY <2>1, NextSuite
  <2>3. QED  BY <1>2, <1>3, <2>1, <2>2, Assemble DEF ForkTypeOK, Repo, github
<1>6. CASE UpstreamMoves
  <2>1. upstream' \in Head
    BY <1>6, ForkAssumption DEF UpstreamMoves, Head
  <2>2. QED
    BY <1>2, <1>3, <1>6, <2>1, Assemble DEF UpstreamMoves, ForkTypeOK, Repo, history, pushes, bounds
<1>7. CASE ForkAppears
  <2>1. tip' \in Commit
    BY <1>3, <1>7 DEF ForkAppears, ForkTypeOK, Commit
  <2>2. QED
    BY <1>2, <1>3, <1>7, <2>1, Assemble DEF ForkAppears, ForkTypeOK, Repo, history, pushes, bounds
<1>8. CASE Expire \/ UNCHANGED vars
  <2>1. /\ cache' \in Head \cup {0}
        /\ UNCHANGED <<repo, linked, suites, github, task, history, bounds>>
    BY <1>3, <1>8 DEF Expire, vars, ForkTypeOK
  <2>2. QED  BY <1>2, <1>3, <2>1, Assemble DEF ForkTypeOK, Repo, github, history, pushes, bounds
<1>9. CASE Crash
  <2>1. crashes' \in 0..MaxCrashes
    BY <1>3, <1>9, ForkAssumption DEF Crash, ForkTypeOK
  <2>2. missed' \in BOOLEAN /\ stuck' \in BOOLEAN
    BY <1>9, Zenon DEF Crash
  <2>3. UNCHANGED <<repo, linked, suites, github, cache, overtaken, ingested, resynced, started, faults>>
    BY <1>9 DEF Crash
  <2>4. QED  BY <1>3, <1>9, CrashIdles, <2>1, <2>2, <2>3, Assemble DEF ForkTypeOK, Repo, github
<1>10. CASE RecoverFails
  <2>1. faults' \in 0..MaxFaults
    BY <1>3, <1>10, ForkAssumption DEF RecoverFails, ForkTypeOK
  <2>2. stuck' \in BOOLEAN
    BY <1>10, Zenon DEF RecoverFails
  <2>3. UNCHANGED <<repo, linked, suites, github, cache, task, pushes, resynced, started, crashes>>
    BY <1>10 DEF RecoverFails
  <2>4. QED  BY <1>2, <1>3, <2>1, <2>2, <2>3, Assemble DEF ForkTypeOK, Repo, github, pushes
<1>11. QED
  BY <1>1, <1>4, <1>5, <1>6, <1>7, <1>8, <1>9, <1>10 DEF ForkNext

LEMMA TypedAlways == ForkSpec => []Typed
  BY TypedInit, TypedStep, PTL DEF ForkSpec

(* Whatever the tasks interleave, every row, head and commit stays in its  *)
(* domain: no commit is pushed on a head nobody read, and no task goes on  *)
(* without the team or the head its statement needs.                       *)
THEOREM ForkTypes == ForkSpec => []ForkTypeOK
<1>1. Typed => ForkTypeOK
  BY DEF Typed
<1>2. QED  BY <1>1, TypedAlways, PTL

-----------------------------------------------------------------------------
(* The fork of a ready repository.                                         *)

(* A row, its name and what GitHub has accepted stay.                      *)
Stays ==
    /\ repo.row # "absent" => repo'.row # "absent"
    /\ repo.named => repo'.named
    /\ forked # "no" => forked' # "no"

LEMMA StandingStays ==
    ASSUME Stays, NEW p \in Tasks, Standing(task[p]), task'[p] = task[p]
    PROVE  Standing(task[p])'
  BY DEF Stays, Standing

(* Steps of a task that neither mark the repository ready nor make a fork. *)
LEMMA ForkedKeeps ==
    ASSUME Forked, NEW p \in Tasks, Moves(p), Stays, Standing(task[p])',
           repo'.named => repo'.row # "absent",
           repo'.fork = "ready" => (repo.fork = "ready" \/ (repo'.named /\ forked' # "no")),
           forked' # "yes" => forked # "yes" /\ tip'.files = tip.files
    PROVE  Forked'
<1>1. \A q \in Tasks : Standing(task[q])'
  <2>1. ASSUME NEW q \in Tasks, q # p
        PROVE  Standing(task[q])'
    BY <2>1, StandingStays DEF Moves, Forked
  <2>2. QED  BY <2>1
<1>2. repo'.fork = "ready" => repo'.named /\ forked' # "no"
  BY DEF Forked, Stays
<1>3. forked' # "yes" => tip'.files = {}
  BY DEF Forked
<1>4. QED  BY <1>1, <1>2, <1>3 DEF Forked

LEMMA ForkedStep1 ==
    ASSUME Typed, Forked, NEW p \in Tasks, Step(p)
    PROVE  Forked'
<1>1. repo \in Repo /\ Standing(task[p])
  BY DEF Typed, ForkTypeOK, Repo, Forked
<1>2. CASE Lookup(p) \/ Link(p)
  <2>1. /\ Moves(p) /\ task'[p].at \in {"insert", "reactivate", "forking", "idle"}
        /\ UNCHANGED <<repo, github>>
        /\ task'[p].at \in {"reactivate", "forking"} => repo.row # "absent"
    BY <1>1, <1>2, RowStepsLead DEF Lookup, Link, Standing
  <2>2. QED  BY <2>1, ForkedKeeps DEF Standing, Stays, Forked, github
<1>3. CASE Insert(p)
  <2>1. /\ Moves(p) /\ UNCHANGED github
        /\ \/ repo.row = "absent" /\ task'[p].at = "link"
                /\ repo' = [row |-> "active", named |-> FALSE, fork |-> "none"]
           \/ repo.row # "absent" /\ task'[p].at = "idle" /\ repo' = repo
    BY <1>3, RowStepsLead DEF Insert
  <2>2. QED  BY <2>1, ForkedKeeps DEF Standing, Stays, Forked, github
<1>4. CASE Reactivate(p) \/ MarkForking(p) \/ MarkFailed(p)
  <2>1. /\ Moves(p) /\ UNCHANGED github
        /\ task'[p].at \in {"forking", "fork", "idle"}
        /\ task'[p].at # "idle" => repo.row # "absent"
    BY <1>1, <1>4, RowStepsLead, ForkStepsLead DEF Reactivate, MarkForking, MarkFailed, Standing
  <2>2. /\ repo'.named = repo.named /\ repo'.fork # "ready"
        /\ repo.row # "absent" => repo'.row # "absent"
        /\ repo'.row = repo.row \/ repo'.row = "active"
    BY <1>1, <1>4 DEF Reactivate, MarkForking, MarkFailed, Repo
  <2>3. QED  BY <2>1, <2>2, ForkedKeeps DEF Standing, Stays, Forked, github
<1>5. CASE ForkRepo(p)
  <2>1. /\ Moves(p) /\ task'[p].at = "ready" /\ task[p].at = "fork"
        /\ UNCHANGED <<repo, tip>> /\ forked' # "no"
        /\ forked' # "yes" => forked # "yes"
    BY <1>5, ForkStepsLead DEF ForkRepo
  <2>2. QED  BY <1>1, <2>1, ForkedKeeps DEF Standing, Stays, Forked
<1>6. CASE MarkReady(p)
  <2>1. /\ Moves(p) /\ task'[p].at = "status" /\ task[p].at = "ready" /\ UNCHANGED github
    BY <1>6, ForkStepsLead DEF MarkReady
  <2>2. repo'.named /\ repo'.row = repo.row
    BY <1>1, <1>6 DEF MarkReady, Repo
  <2>3. QED  BY <1>1, <2>1, <2>2, ForkedKeeps DEF Standing, Stays, Forked, github
<1>7. CASE ReadStatus(p) \/ ReadSuites(p) \/ ReadUpstream(p)
  <2>1. /\ Moves(p) /\ task'[p].at \in {"suites", "upstream", "push", "idle", "invalidate"}
        /\ UNCHANGED <<repo, github>>
        /\ task'[p].at \in {"suites", "upstream", "push"} => repo.named /\ forked # "no"
    BY <1>1, <1>7, RefreshStepsLead DEF ReadStatus, ReadSuites, ReadUpstream, Standing, Forked
  <2>2. QED  BY <2>1, ForkedKeeps DEF Standing, Stays, Forked, github
<1>8. CASE Push(p)
  <2>1. /\ Moves(p) /\ task'[p].at \in {"idle", "invalidate"} /\ UNCHANGED <<repo, forked>>
        /\ forked # "yes" => tip' = tip
    BY <1>8, RefreshStepsLead DEF Push
  <2>2. QED  BY <2>1, ForkedKeeps DEF Standing, Stays, Forked
<1>9. CASE Invalidate(p) \/ LookInCache(p) \/ ListRemote(p) \/ StoreInCache(p)
  <2>1. /\ Moves(p) /\ task'[p].at \in {"cached", "list", "store", "idle"}
        /\ UNCHANGED <<repo, github>>
    BY <1>9, CacheStepsLead DEF Invalidate, LookInCache, ListRemote, StoreInCache
  <2>2. QED  BY <2>1, ForkedKeeps DEF Standing, Stays, Forked, github
<1>10. QED  BY <1>2, <1>3, <1>4, <1>5, <1>6, <1>7, <1>8, <1>9 DEF Step

LEMMA ForkedStep ==
    ASSUME Typed, Forked, [ForkNext]_vars
    PROVE  Forked'
<1>1. repo \in Repo
  BY DEF Typed, ForkTypeOK, Repo
<1>2. ASSUME NEW p \in Tasks, Start(p) \/ Fail(p) \/ Recover(p)
      PROVE  Forked'
  <2>1. /\ Moves(p) /\ UNCHANGED <<repo, github>>
        /\ task'[p] = task[p]
           \/ task'[p].at \in {"lookup", "forking", "status", "insert", "markFailed", "idle",
                               "invalidate", "cached", "list"}
        /\ task'[p] # task[p] /\ task'[p].at = "forking" => repo.row # "absent"
    BY <1>2, StartMoves, FailMoves, RecoverMoves DEF Fail, Recover
  <2>2. Standing(task[p])
    BY DEF Forked
  <2>3. QED  BY <2>1, <2>2, ForkedKeeps DEF Standing, Stays, Forked, github
<1>3. ASSUME NEW p \in Tasks, Step(p)
      PROVE  Forked'
  BY <1>3, ForkedStep1
<1>4. CASE Crash
  <2>1. UNCHANGED <<repo, forked, tip>>
    BY <1>4 DEF Crash, github
  <2>2. QED  BY <1>4, <2>1, CrashIdles DEF Forked, Standing
<1>5. CASE \/ \E t \in Teams : Assign(t)
           \/ IngestSuite \/ SoftDelete \/ UpstreamMoves \/ ForkAppears \/ Expire \/ RecoverFails
           \/ UNCHANGED vars
  <2>1. /\ task' = task
        /\ repo'.named = repo.named /\ repo'.fork = repo.fork
        /\ repo.row # "absent" => repo'.row # "absent"
    BY <1>1, <1>5
    DEF Assign, IngestSuite, SoftDelete, UpstreamMoves, ForkAppears, Expire, RecoverFails, vars,
        Repo
  <2>2. (forked' = forked /\ tip' = tip) \/ (forked = "accepted" /\ forked' = "yes")
    BY <1>5
    DEF Assign, IngestSuite, SoftDelete, UpstreamMoves, ForkAppears, Expire, RecoverFails, vars,
        github
  <2>3. \A p \in Tasks : Standing(task[p])'
    BY <2>1, <2>2, StandingStays DEF Stays, Forked
  <2>4. QED  BY <2>1, <2>2, <2>3 DEF Forked
<1>6. QED  BY <1>2, <1>3, <1>4, <1>5 DEF ForkNext

LEMMA ForkedInit == ForkInit => Forked
<1> SUFFICES ASSUME ForkInit PROVE Forked  OBVIOUS
<1>1. \A p \in Tasks : task[p].at = "idle"
  BY IdleFacts DEF ForkInit
<1>2. tip.files = {}
  BY DEF ForkInit
<1>3. QED  BY <1>1, <1>2 DEF ForkInit, Forked, Standing

LEMMA ForkedAlways == ForkSpec => []Forked
  BY TypedAlways, ForkedInit, ForkedStep, PTL DEF ForkSpec

(* Nobody finds a repository ready, or pushes to its fork, before GitHub   *)
(* has accepted to make it and its name is stored: whatever set-ups run    *)
(* side by side, fail at any call, are repeated after a reactivation or    *)
(* recovered after a restart, and however long GitHub takes.               *)
THEOREM ReadyHasFork == ForkSpec => []ReadyIsForked
<1>1. Forked => ReadyIsForked
  BY DEF Forked, Standing, ReadyIsForked
<1>2. QED  BY <1>1, ForkedAlways, PTL

-----------------------------------------------------------------------------
(* The cache of the branches.                                              *)
LEMMA CachedInit == ForkInit => Cached
  BY IdleFacts DEF ForkInit, Cached, CacheSeesResync

(* Most steps touch neither the cache nor what a reader is about to store. *)
LEMMA CachedKeeps ==
    ASSUME Cached, resynced \in Nat, upstream \in Nat,
           UNCHANGED <<cache, resynced, racing>>, upstream' \in {upstream, upstream + 1},
           \A p \in Tasks : task'[p].at = "store" => task'[p] = task[p]
    PROVE  Cached'
  BY DEF Cached, CacheSeesResync

LEMMA CachedStep ==
    ASSUME Typed, Cached, [ForkNext]_vars
    PROVE  Cached'
<1>1. /\ resynced \in Nat /\ upstream \in Nat /\ cache \in Nat
      /\ \A p \in Tasks : task[p] \in Doing /\ task[p].base \in Nat
  BY ForkAssumption DEF Typed, ForkTypeOK, Head, Doing
<1>2. ASSUME NEW p \in Tasks, Start(p) \/ Fail(p) \/ Recover(p)
      PROVE  Cached'
  <2>1. /\ Moves(p) /\ UNCHANGED <<cache, resynced, racing, upstream>>
        /\ task'[p] = task[p] \/ task'[p].at # "store"
    BY <1>2, StartMoves, FailMoves, RecoverMoves DEF Fail, Recover, history, github
  <2>2. QED  BY <1>1, <2>1, CachedKeeps DEF Moves
<1>3. ASSUME NEW p \in Tasks, Step(p)
      PROVE  Cached'
  <2>1. CASE ListRemote(p)
    <3>1. /\ task'[p].base = upstream
          /\ \A q \in Tasks : q # p => task'[q] = task[q]
          /\ UNCHANGED <<cache, resynced, racing, upstream>>
      BY <2>1, CacheStepsLead DEF ListRemote, Moves, history, github
    <3>2. QED  BY <1>1, <3>1 DEF Cached, CacheSeesResync
  <2>2. CASE Invalidate(p)
    <3>1. /\ cache' = 0 /\ resynced' = upstream /\ upstream' = upstream
          /\ racing' = \E q \in Tasks : task[q].at = "store"
          /\ \A q \in Tasks : task'[q].at = "store" => task[q].at = "store"
      BY <2>2, CacheStepsLead DEF Invalidate, Moves, github
    <3>2. QED  BY <1>1, <3>1 DEF Cached, CacheSeesResync
  <2>3. CASE StoreInCache(p)
    <3>1. /\ cache' = task[p].base /\ task[p].at = "store"
          /\ \A q \in Tasks : task'[q].at = "store" => task'[q] = task[q]
          /\ UNCHANGED <<upstream, resynced, racing>>
      BY <2>3, CacheStepsLead DEF StoreInCache, Moves, history, github
    <3>2. QED  BY <1>1, <3>1 DEF Cached, CacheSeesResync
  <2>4. CASE ~ListRemote(p) /\ ~Invalidate(p) /\ ~StoreInCache(p)
    <3>1. Moves(p) /\ task'[p].at # "store"
      BY <1>3, <2>4, RowStepsLead, ForkStepsLead, RefreshStepsLead, CacheStepsLead DEF Step
    <3>2. UNCHANGED <<cache, resynced, racing, upstream>>
      BY <1>3, <2>4
      DEF Step, Lookup, Insert, Link, Reactivate, MarkForking, ForkRepo, MarkReady, MarkFailed,
          ReadStatus, ReadSuites, ReadUpstream, Push, LookInCache, history, github
    <3>3. QED  BY <1>1, <3>1, <3>2, CachedKeeps DEF Moves
  <2>5. QED  BY <2>1, <2>2, <2>3, <2>4
<1>4. CASE Crash
  <2>1. UNCHANGED <<cache, resynced, racing, upstream>>
    BY <1>4 DEF Crash, github
  <2>2. QED  BY <1>1, <1>4, <2>1, CrashIdles, CachedKeeps
<1>5. CASE \/ (\E t \in Teams : Assign(t)) \/ IngestSuite \/ SoftDelete \/ UpstreamMoves
           \/ ForkAppears \/ RecoverFails \/ UNCHANGED vars
  <2>1. UNCHANGED <<task, cache, resynced, racing>> /\ upstream' \in {upstream, upstream + 1}
    BY <1>5
    DEF Assign, IngestSuite, SoftDelete, UpstreamMoves, ForkAppears, RecoverFails, vars, history,
        github
  <2>2. QED  BY <1>1, <2>1, CachedKeeps
<1>6. CASE Expire
  BY <1>6 DEF Expire, Cached, CacheSeesResync, history, github
<1>7. QED  BY <1>2, <1>3, <1>4, <1>5, <1>6 DEF ForkNext

LEMMA CachedAlways == ForkSpec => []Cached
  BY TypedAlways, CachedInit, CachedStep, PTL DEF ForkSpec

(* The branches shown are not older than when the cache was last           *)
(* invalidated, in every interleaving of readers, resyncs, failing calls   *)
(* and pushes upstream but one: a reader that had listed them before the   *)
(* resync dropped the cache.                                               *)
THEOREM CacheIsFresh == ForkSpec => []CacheSeesResync
<1>1. Cached => CacheSeesResync
  BY DEF Cached
<1>2. QED  BY <1>1, CachedAlways, PTL

-----------------------------------------------------------------------------
(* The team of a repository.                                               *)

(* Most steps leave the row, its teams and the tasks at their INSERT alone. *)
LEMMA OwnedKeeps ==
    ASSUME AddedHasTeam,
           repo'.row # "absent" => repo.row # "absent",
           linked # {} => linked' # {}, abandoned => abandoned',
           \A p \in Tasks : task[p].at = "link" =>
               task'[p].at = "link" \/ linked' # {} \/ abandoned'
    PROVE  AddedHasTeam'
  BY DEF AddedHasTeam

LEMMA OwnedMoves ==
    ASSUME Typed, Forked, AddedHasTeam, NEW p \in Tasks, Step(p)
    PROVE  AddedHasTeam'
<1>1. repo \in Repo /\ Standing(task[p])
  BY DEF Typed, ForkTypeOK, Repo, Forked
<1>2. abandoned' = abandoned
  BY DEF Step, Lookup, Insert, Link, Reactivate, MarkForking, ForkRepo, MarkReady, MarkFailed,
         ReadStatus, ReadSuites, ReadUpstream, Push, Invalidate, LookInCache, ListRemote,
         StoreInCache, history
<1>3. \A q \in Tasks : q # p => task'[q] = task[q]
  BY StepMoves DEF Moves
<1>4. CASE Insert(p)
  <2>1. /\ task[p].at = "insert" /\ linked' = linked
        /\ \/ task'[p].at = "link"
           \/ repo' = repo
    BY <1>4, RowStepsLead DEF Insert
  <2>2. CASE task'[p].at = "link"
    BY <2>2 DEF AddedHasTeam
  <2>3. CASE repo' = repo
    BY <1>2, <1>3, <2>1, <2>3, OwnedKeeps
  <2>4. QED  BY <2>1, <2>2, <2>3
<1>5. CASE Link(p)
  <2>1. linked' # {} /\ repo' = repo
    BY <1>5 DEF Link
  <2>2. QED  BY <2>1 DEF AddedHasTeam
<1>6. CASE Reactivate(p)
  <2>1. task[p].at = "reactivate" /\ linked' = linked /\ repo.row # "absent"
    BY <1>1, <1>6 DEF Reactivate, Standing
  <2>2. QED  BY <1>2, <1>3, <2>1, OwnedKeeps
<1>7. CASE ~Insert(p) /\ ~Link(p) /\ ~Reactivate(p)
  <2>1. task[p].at # "link" /\ linked' = linked /\ repo'.row = repo.row
    BY <1>1, <1>7
    DEF Step, Lookup, MarkForking, ForkRepo, MarkReady, MarkFailed, ReadStatus, ReadSuites,
        ReadUpstream, Push, Invalidate, LookInCache, ListRemote, StoreInCache, Repo
  <2>2. QED  BY <1>2, <1>3, <2>1, OwnedKeeps
<1>8. QED  BY <1>4, <1>5, <1>6, <1>7

LEMMA OwnedStep ==
    ASSUME Typed, Forked, AddedHasTeam, [ForkNext]_vars
    PROVE  AddedHasTeam'
<1>1. repo \in Repo
  BY DEF Typed, ForkTypeOK, Repo
<1>2. ASSUME NEW p \in Tasks, Start(p) \/ Recover(p)
      PROVE  AddedHasTeam'
  <2>1. /\ UNCHANGED <<repo, linked, abandoned>> /\ task[p].at = "idle"
        /\ \A q \in Tasks : q # p => task'[q] = task[q]
    BY <1>2, StartMoves, RecoverMoves, IdleFacts DEF Moves, history
  <2>2. QED  BY <2>1, OwnedKeeps
<1>3. ASSUME NEW p \in Tasks, Fail(p)
      PROVE  AddedHasTeam'
  <2>1. /\ UNCHANGED <<repo, linked>> /\ abandoned' = (abandoned \/ task[p].at = "link")
        /\ \A q \in Tasks : q # p => task'[q] = task[q]
    BY <1>3, FailMoves DEF Fail, Moves
  <2>2. QED  BY <2>1, OwnedKeeps
<1>4. CASE Crash
  <2>1. /\ UNCHANGED <<repo, linked>>
        /\ abandoned' = (abandoned \/ \E p \in Tasks : task[p].at = "link")
    BY <1>4 DEF Crash
  <2>2. QED  BY <2>1, OwnedKeeps
<1>5. ASSUME NEW t \in Teams, Assign(t)
      PROVE  AddedHasTeam'
  <2>1. UNCHANGED <<repo, task>> /\ (linked' # {} \/ abandoned')
    BY <1>5 DEF Assign
  <2>2. QED  BY <2>1 DEF AddedHasTeam
<1>6. CASE IngestSuite \/ SoftDelete \/ UpstreamMoves \/ ForkAppears \/ Expire \/ RecoverFails
           \/ UNCHANGED vars
  <2>1. repo'.row # "absent" => repo.row # "absent"
    BY <1>1, <1>6
    DEF Repo, IngestSuite, SoftDelete, UpstreamMoves, ForkAppears, Expire, RecoverFails, vars
  <2>2. UNCHANGED <<linked, abandoned, task>>
    BY <1>6
    DEF IngestSuite, SoftDelete, UpstreamMoves, ForkAppears, Expire, RecoverFails, vars, history
  <2>3. QED  BY <2>1, <2>2, OwnedKeeps
<1>7. QED  BY <1>2, <1>3, <1>4, <1>5, <1>6, OwnedMoves DEF ForkNext

LEMMA OwnedInit == ForkInit => AddedHasTeam
<1> SUFFICES ASSUME ForkInit PROVE AddedHasTeam  OBVIOUS
<1>1. CASE repo.row = "absent"
  BY <1>1 DEF AddedHasTeam
<1>2. CASE linked # {}
  BY <1>2 DEF AddedHasTeam
<1>3. repo.row = "absent" \/ linked \in (SUBSET Teams) \ {{}}
  BY DEF ForkInit
<1>4. QED  BY <1>1, <1>2, <1>3

(* Every repository somebody added has a team that can reach it, whatever  *)
(* else fails, is cut off or runs beside it, unless the second of the two  *)
(* INSERTs was lost or a team gave it up.                                  *)
THEOREM AddedIsOwned == ForkSpec => []AddedHasTeam
  BY TypedAlways, ForkedAlways, OwnedInit, OwnedStep, PTL DEF ForkSpec

-----------------------------------------------------------------------------
(* The workflow files on the branch.                                       *)

(* A step that neither moves the branch nor edits the suites, of a task    *)
(* that is not refreshing them.                                            *)
LEMMA PushingKeeps ==
    ASSUME Pushing, NEW p \in Tasks, Moves(p),
           UNCHANGED <<suites, pushes>>, tip'.files = tip.files,
           repo'.fork = "ready" => repo.fork = "ready",
           task[p].at \notin Refreshing, task'[p].at \notin {"upstream", "push"}
    PROVE  Pushing'
<1>1. \A q \in Tasks : WillPush(q) => WillPush(q)'
  BY DEF WillPush, Current, Refreshing, Moves, pushes
<1>2. \A q \in Tasks : task'[q].at \in {"upstream", "push"} => task[q].at \in {"upstream", "push"}
  BY DEF Moves
<1>3. QED  BY <1>1, <1>2 DEF Pushing, pushes

(* A step after which somebody is going to push.                           *)
LEMMA PushingAhead ==
    ASSUME NEW p \in Tasks, WillPush(p)'
    PROVE  Pushing'
  BY DEF Pushing

(* A refresh that ends without a push leaves nobody behind with others, or *)
(* somebody was overtaken.                                                 *)
LEMMA PushingMissed ==
    ASSUME NEW p \in Tasks, Moves(p), task'[p].at \notin {"upstream", "push"},
           overtaken' = (overtaken \/ Overtakes(p)), missed'
    PROVE  Pushing'
<1>1. SUFFICES ASSUME ~Overtakes(p)
               PROVE  \A q \in Tasks : task'[q].at \notin {"upstream", "push"}
  BY DEF Pushing
<1>2. QED  BY <1>1 DEF Overtakes, Moves

LEMMA PushingStart ==
    ASSUME Typed, Pushing, NEW p \in Tasks, Start(p)
    PROVE  Pushing'
<1>1. /\ Moves(p) /\ task[p].at = "idle"
      /\ task'[p].at \notin {"upstream", "push"}
      /\ suites' # suites => task'[p].at = "status"
      /\ UNCHANGED <<repo, tip, pushes>>
  BY StartMoves, IdleFacts DEF github, history
<1>2. CASE task'[p].at = "status"
  BY <1>2, PushingAhead DEF WillPush
<1>3. CASE task'[p].at # "status"
  BY <1>1, <1>3, PushingKeeps DEF Refreshing
<1>4. QED  BY <1>2, <1>3

(* The last push leaves what it read; when it read the suites there are,   *)
(* nobody else has a commit in hand, or somebody was overtaken.            *)
LEMMA PushingPush ==
    ASSUME Typed, Pushing, NEW p \in Tasks, Push(p)
    PROVE  Pushing'
<1>1. /\ Moves(p) /\ task'[p].at \notin {"upstream", "push"}
      /\ task[p].at = "push" /\ overtaken' = (overtaken \/ Overtakes(p))
      /\ UNCHANGED <<repo, suites>>
  BY RefreshStepsLead DEF Push
<1>2. CASE forked # "yes"
  BY <1>1, <1>2, PushingMissed DEF Push
<1>3. CASE forked = "yes"
  <2>1. tip'.files = task[p].files /\ ingested' = ingested \ task[p].files
    BY <1>3 DEF Push, UpdateRef
  <2>2. SUFFICES ASSUME repo.fork = "ready", ~overtaken, ~Overtakes(p)
                 PROVE  \/ \E q \in Tasks : WillPush(q)'
                        \/ /\ tip'.files = suites' \ ingested'
                           /\ \A q \in Tasks : task'[q].at \notin {"upstream", "push"}
    BY <1>1 DEF Pushing
  <2>3. \A q \in Tasks : q # p => task[q].at \notin {"upstream", "push"}
    BY <2>2 DEF Overtakes
  <2>4. PICK q \in Tasks : WillPush(q)
    BY <1>1, <2>2 DEF Pushing
  <2>5. CASE q = p
    <3>1. Current(task[p].files)
      BY <1>1, <2>4, <2>5 DEF WillPush
    <3>2. tip'.files = suites' \ ingested'
      BY <1>1, <2>1, <3>1 DEF Current
    <3>3. QED  BY <1>1, <2>3, <3>2 DEF Moves
  <2>6. CASE q # p
    <3>1. WillPush(q)'
      BY <1>1, <2>3, <2>4, <2>6 DEF WillPush, Moves
    <3>2. QED  BY <3>1
  <2>7. QED  BY <2>5, <2>6
<1>4. QED  BY <1>2, <1>3

LEMMA PushingStep ==
    ASSUME Typed, Forked, Pushing, NEW p \in Tasks, Step(p)
    PROVE  Pushing'
<1>1. repo \in Repo /\ task[p] \in Doing
  BY DEF Typed, ForkTypeOK, Repo
<1>2. CASE Lookup(p) \/ Insert(p) \/ Link(p) \/ Reactivate(p) \/ MarkForking(p) \/ ForkRepo(p)
           \/ MarkFailed(p)
  <2>1. Moves(p) /\ task'[p].at \notin {"upstream", "push"}
    BY <1>2, RowStepsLead, ForkStepsLead
  <2>2. repo'.fork = "ready" => repo.fork = "ready"
    <3>1. CASE Insert(p)
      BY <3>1 DEF Insert
    <3>2. CASE Lookup(p) \/ Link(p) \/ Reactivate(p) \/ MarkForking(p) \/ ForkRepo(p)
               \/ MarkFailed(p)
      BY <1>1, <3>2 DEF Repo, Lookup, Link, Reactivate, MarkForking, ForkRepo, MarkFailed
    <3>3. QED  BY <1>2, <3>1, <3>2
  <2>3. UNCHANGED <<suites, pushes, tip>> /\ task[p].at \notin Refreshing
    BY <1>2
    DEF Lookup, Insert, Link, Reactivate, MarkForking, ForkRepo, MarkFailed, Refreshing, github,
        history
  <2>4. QED  BY <2>1, <2>2, <2>3, PushingKeeps
<1>3. CASE MarkReady(p)
  <2>1. task'[p].at = "status"
    BY <1>3, ForkStepsLead
  <2>2. QED  BY <2>1, PushingAhead DEF WillPush
<1>4. CASE ReadStatus(p)
  <2>1. CASE repo.fork = "ready"
    <3>1. task'[p].at = "suites"
      BY <1>4, <2>1, RefreshStepsLead DEF Forked
    <3>2. QED  BY <3>1, PushingAhead DEF WillPush
  <2>2. CASE repo.fork # "ready"
    BY <1>4, <2>2 DEF ReadStatus, Pushing
  <2>3. QED  BY <2>1, <2>2
<1>5. CASE ReadSuites(p)
  <2>1. task'[p].at = "upstream" /\ task'[p].files = suites'
    BY <1>5, RefreshStepsLead DEF ReadSuites
  <2>2. QED  BY <2>1, PushingAhead DEF WillPush, Current
<1>6. CASE ReadUpstream(p)
  <2>1. /\ task[p].at = "upstream" /\ task'[p].at = "push" /\ task'[p].files = task[p].files
        /\ \A q \in Tasks : q # p => task'[q] = task[q]
        /\ UNCHANGED <<repo, tip, suites, pushes>>
    BY <1>6, RefreshStepsLead DEF ReadUpstream, Moves, github, history
  <2>2. \A q \in Tasks : WillPush(q) => WillPush(q)'
    BY <2>1 DEF WillPush, Current, pushes
  <2>3. QED  BY <2>1, <2>2 DEF Pushing, pushes
<1>7. CASE Invalidate(p) \/ LookInCache(p) \/ ListRemote(p) \/ StoreInCache(p)
  <2>1. Moves(p) /\ task'[p].at \notin {"upstream", "push"}
    BY <1>7, CacheStepsLead
  <2>2. UNCHANGED <<repo, suites, pushes, tip>> /\ task[p].at \notin Refreshing
    BY <1>7 DEF Invalidate, LookInCache, ListRemote, StoreInCache, Refreshing, github, history
  <2>3. QED  BY <2>1, <2>2, PushingKeeps
<1>8. CASE Push(p)
  BY <1>8, PushingPush
<1>9. QED  BY <1>2, <1>3, <1>4, <1>5, <1>6, <1>7, <1>8 DEF Step

(* A report makes a suite; who has read the others still has those.        *)
LEMMA PushingIngest ==
    ASSUME Typed, Pushing, IngestSuite
    PROVE  Pushing'
<1>1. PICK s : /\ s \notin suites
               /\ suites' = suites \cup {s} /\ ingested' = ingested \cup {s}
  BY NextSuite DEF IngestSuite
<1>2. UNCHANGED <<repo, tip, task, overtaken, missed>>
  BY DEF IngestSuite, github
<1>3. suites' \ ingested' = suites \ ingested
  BY <1>1
<1>4. \A files : Current(files) => Current(files)'
  BY <1>1, <1>3 DEF Current
<1>5. \A q \in Tasks : WillPush(q) => WillPush(q)'
  BY <1>2, <1>4 DEF WillPush
<1>6. QED  BY <1>2, <1>3, <1>5 DEF Pushing

LEMMA PushingNext ==
    ASSUME Typed, Forked, Pushing, [ForkNext]_vars
    PROVE  Pushing'
<1>1. repo \in Repo
  BY DEF Typed, ForkTypeOK, Repo
<1>2. ASSUME NEW p \in Tasks, Start(p) \/ Step(p)
      PROVE  Pushing'
  BY <1>2, PushingStart, PushingStep
<1>3. ASSUME NEW p \in Tasks, Fail(p)
      PROVE  Pushing'
  <2>1. Moves(p) /\ task'[p].at \notin {"upstream", "push"}
    BY <1>3, FailMoves
  <2>2. CASE task[p].at \in Refreshing
    <3>1. overtaken' = (overtaken \/ Overtakes(p)) /\ missed'
      BY <1>3, <2>2 DEF Fail
    <3>2. QED  BY <2>1, <3>1, PushingMissed
  <2>3. CASE task[p].at \notin Refreshing
    <3>1. UNCHANGED <<repo, suites, tip, ingested>>
      BY <1>3 DEF Fail, github
    <3>2. task' = task \/ task'[p].at \notin {"upstream", "push"}
      BY <2>1
    <3>3. (missed' <=> missed) /\ (overtaken' <=> overtaken)
      BY <1>3, <2>3 DEF Fail
    <3>4. missed \in BOOLEAN /\ overtaken \in BOOLEAN /\ missed' \in BOOLEAN /\ overtaken' \in BOOLEAN
      BY <1>3, TypedMoves DEF Typed, ForkTypeOK
    <3>5. UNCHANGED pushes
      BY <3>1, <3>3, <3>4, Zenon DEF pushes
    <3>6. QED  BY <2>1, <2>3, <3>1, <3>5, PushingKeeps
  <2>4. QED  BY <2>2, <2>3
<1>4. ASSUME NEW p \in Tasks, Recover(p)
      PROVE  Pushing'
  <2>1. /\ Moves(p) /\ task[p].at = "idle" /\ task'[p].at \in {"idle", "forking"}
        /\ UNCHANGED <<repo, suites, tip, pushes>>
    BY <1>4, RecoverMoves, IdleFacts DEF github, history
  <2>2. QED  BY <2>1, PushingKeeps DEF Refreshing
<1>5. CASE Crash
  <2>1. /\ UNCHANGED <<repo, suites, tip, overtaken, ingested>>
        /\ missed' = (missed \/ \E p \in Tasks : task[p].at \in Refreshing)
        /\ \A p \in Tasks : task'[p].at = "idle"
    BY <1>5, CrashIdles DEF Crash, github
  <2>2. \A p \in Tasks : WillPush(p) => task[p].at \in Refreshing
    BY DEF WillPush, Refreshing
  <2>3. QED  BY <2>1, <2>2 DEF Pushing
<1>6. CASE IngestSuite
  BY <1>6, PushingIngest
<1>7. CASE \/ (\E t \in Teams : Assign(t)) \/ SoftDelete \/ UpstreamMoves \/ Expire
           \/ ForkAppears \/ RecoverFails \/ UNCHANGED vars
  <2>1. repo'.fork = repo.fork /\ UNCHANGED <<suites, pushes, task>>
    BY <1>1, <1>7
    DEF Repo, Assign, SoftDelete, UpstreamMoves, Expire, ForkAppears, RecoverFails, vars, history
  <2>2. tip'.files = tip.files
    <3>1. CASE ForkAppears
      BY <3>1 DEF ForkAppears, Forked
    <3>2. CASE ~ForkAppears
      BY <1>7, <3>2
      DEF Assign, SoftDelete, UpstreamMoves, Expire, RecoverFails, vars, github
    <3>3. QED  BY <3>1, <3>2
  <2>3. QED  BY <2>1, <2>2 DEF Pushing, WillPush, Current, pushes
<1>8. QED  BY <1>2, <1>3, <1>4, <1>5, <1>6, <1>7 DEF ForkNext

LEMMA PushingInit == ForkInit => Pushing
<1> SUFFICES ASSUME ForkInit PROVE Pushing  OBVIOUS
<1>1. \A p \in Tasks : task[p].at = "idle"
  BY IdleFacts DEF ForkInit
<1>2. tip.files = suites \ ingested
  BY DEF ForkInit
<1>3. QED  BY <1>1, <1>2 DEF Pushing

(* Edits made while a fork is being set up, a refresh that another edit    *)
(* follows, a sync and a resync side by side, restarts, calls that fail: a *)
(* ready fork at rest carries exactly the suites there are, without those  *)
(* that came with a report and nobody has pushed, if no refresh overtook   *)
(* another and the last one was not missed.                                *)
THEOREM BranchCatchesUp == ForkSpec => []BranchHasSuites
<1>1. Pushing => BranchHasSuites
  <2> SUFFICES ASSUME Pushing, \A p \in Tasks : task[p] = Idle, repo.fork = "ready",
                      ~missed, ~overtaken
               PROVE  tip.files = suites \ ingested
    BY DEF BranchHasSuites
  <2>1. \A p \in Tasks : ~WillPush(p)
    BY IdleFacts DEF WillPush
  <2>2. QED  BY <2>1 DEF Pushing
<1>2. QED  BY <1>1, TypedAlways, ForkedAlways, PushingInit, PushingNext, PTL DEF ForkSpec
=============================================================================
