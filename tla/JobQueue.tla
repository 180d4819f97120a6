------------------------------ MODULE JobQueue ------------------------------
(***************************************************************************)
(* The per-repository job queue in Redis (internal/queue/queue.go) and the *)
(* worker loop that drains it (internal/runner/runner.go).                 *)
(*                                                                         *)
(* Every Redis command is one atomic step.  Between two commands of one    *)
(* worker any other worker, the API, a key expiry or a crash may act: Pop  *)
(* is EXISTS, RPOP, SET and LPUSH, and nothing makes them one transaction. *)
(*                                                                         *)
(* A Redis list is a sequence whose head is the element RPOP takes next:   *)
(* LPUSH appends, RPUSH prepends, LREM removes the one matching element.   *)
(***************************************************************************)
EXTENDS Naturals, FiniteSets, SequencesExt

CONSTANTS
    Runs,           \* test runs; the job of a run is identified with the run
    Repos,          \* repositories: one list and one lock key for each
    Workers,        \* goroutines of the pool (RUNNER_MAX_CONCURRENT)
    RepoOf,         \* JobPayload.RepoID
    WithEnv,        \* runs whose payload carries a non-nil EnvVars map
    None,           \* no run, no repository
    FaultKinds,     \* the commands that may fail although the pool is up
    MaxFaults,      \* bound: failures of FaultKinds in a behaviour
    MaxCrashes,     \* bound: abrupt ends of the process
    MaxShutdowns    \* bound: graceful ends of the process

ASSUME RunsAssumption == IsFiniteSet(Runs)
ASSUME RepoOfAssumption == RepoOf \in [Runs -> Repos]
ASSUME WithEnvAssumption == WithEnv \subseteq Runs
ASSUME NoneAssumption == None \notin Runs \cup Repos
ASSUME FaultKindsAssumption ==
    FaultKinds \subseteq {"exists", "rpop", "set", "rpush", "lpush", "del",
                          "lrem", "evict"}
ASSUME BoundsAssumption ==
    MaxFaults \in Nat /\ MaxCrashes \in Nat /\ MaxShutdowns \in Nat

VARIABLES
    queue,          \* verdox:jobs:repo:{repo}
    active,         \* verdox:jobs:active:{repo}: the run that holds the lock
    processing,     \* verdox:jobs:processing:{worker}
    pc,             \* where each worker is in runWorker / Pop / Ack
    visit,          \* the repositories the scan in Pop has yet to look at
    at,             \* the repository whose key the worker is working on
    job,            \* the payload in the worker's hand
    altered,        \* that payload no longer marshals to what was popped
    mode,           \* the process: "running", "stopping" or "down"
    ticket,         \* audit: the position of a run in the order of Push
    delivered,      \* audit: the runs whose job Pop has returned
    faults, crashes, shutdowns

redisVars  == <<queue, active, processing>>
workerVars == <<pc, visit, at, job, altered>>
auditVars  == <<ticket, delivered>>
boundVars  == <<faults, crashes, shutdowns>>
vars == <<redisVars, workerVars, mode, auditVars, boundVars>>

-----------------------------------------------------------------------------
(* Where a worker can be.  "popped" to "locked" is inside Pop with a job   *)
(* that is in no list; "working" is executeJob; "acking" and "clearing"    *)
(* are the two commands of Ack.                                            *)
InPop   == {"popped", "requeue", "locked"}
InWork  == {"working", "acking", "clearing"}
Holding == InPop \cup InWork
Idle    == {"idle", "scanning", "checked", "stopped"}

Pushed        == {j \in Runs : ticket[j] # 0}
Queued(r)     == ToSet(queue[r])
NonEmpty      == {r \in Repos : queue[r] # << >>}
Held          == {job[w] : w \in {v \in Workers : pc[v] \in Holding}}
InPlace(j)    == j \in Held \/ j \in Queued(RepoOf[j])
IsOrphan(r)   == active[r] # None /\ \A w \in Workers : job[w] # active[r]

(* A command of the pool goes through while its context lives; once        *)
(* Shutdown has cancelled the context every later command returns an error *)
(* without reaching Redis.  Otherwise an error costs one of MaxFaults.     *)
Works        == mode = "running"
Fails(kind)  == \/ /\ mode = "stopping"
                   /\ faults' = faults
                \/ /\ mode = "running"
                   /\ kind \in FaultKinds
                   /\ faults < MaxFaults
                   /\ faults' = faults + 1

Goto(w, label) == pc' = [pc EXCEPT ![w] = label]
NextKey(w, left) == Goto(w, IF left = {} THEN "idle" ELSE "scanning")
LetGo(w) == at' = [at EXCEPT ![w] = None] /\ job' = [job EXCEPT ![w] = None]
-----------------------------------------------------------------------------
Init ==
    /\ queue = [r \in Repos |-> << >>]
    /\ active = [r \in Repos |-> None]
    /\ processing = [w \in Workers |-> {}]
    /\ pc = [w \in Workers |-> "idle"]
    /\ visit = [w \in Workers |-> {}]
    /\ at = [w \in Workers |-> None]
    /\ job = [w \in Workers |-> None]
    /\ altered = [w \in Workers |-> FALSE]
    /\ mode = "running"
    /\ ticket = [j \in Runs |-> 0]
    /\ delivered = {}
    /\ faults = 0 /\ crashes = 0 /\ shutdowns = 0

(* Push: LPUSH of the marshalled payload, once for each run.  HTTP is      *)
(* served until the pool has stopped.                                      *)
Push(j) ==
    /\ mode # "down"
    /\ ticket[j] = 0
    /\ ticket' = [ticket EXCEPT ![j] = 1 + Cardinality(Pushed)]
    /\ queue' = [queue EXCEPT ![RepoOf[j]] = Append(@, j)]
    /\ UNCHANGED <<active, processing, workerVars, mode, delivered, boundVars>>

(* RemoveByRunID: LRANGE, then LREM of the element found.  Both commands   *)
(* look only at this list and the second does nothing when the element has *)
(* gone, so the pair has the effect of one step.                           *)
RemoveByRunID(j) ==
    LET r == RepoOf[j] IN
    /\ mode # "down"
    /\ \E i \in 1..Len(queue[r]) :
         /\ queue[r][i] = j
         /\ queue' = [queue EXCEPT ![r] = RemoveAt(@, i)]
    /\ UNCHANGED <<active, processing, workerVars, mode, auditVars, boundVars>>

-----------------------------------------------------------------------------
(* Mistakes: what an action would be with a plausible bug.  No behaviour   *)
(* of Spec uses them; each makes a property below fail in place of its     *)
(* action.                                                                 *)

(* RPop that reads the element (LINDEX) and leaves it in the list.         *)
RPopPeeks(w) ==
    LET r == at[w] IN
    /\ pc[w] = "checked" /\ Works
    /\ IF queue[r] = << >>
       THEN NextKey(w, visit[w]) /\ LetGo(w)
       ELSE /\ Goto(w, "popped")
            /\ job' = [job EXCEPT ![w] = Head(queue[r])]
            /\ UNCHANGED at
    /\ UNCHANGED <<redisVars, visit, altered, mode, auditVars, boundVars>>

(* A lock that could not be set makes Pop go on without putting back.      *)
SetLockDrops(w) ==
    /\ pc[w] = "popped"
    /\ \/ /\ Works
          /\ active' = [active EXCEPT ![at[w]] = job[w]]
          /\ Goto(w, "locked")
          /\ UNCHANGED <<at, job, faults>>
       \/ /\ Fails("set")
          /\ NextKey(w, visit[w]) /\ LetGo(w)
          /\ UNCHANGED active
    /\ UNCHANGED <<queue, processing, visit, altered, mode, auditVars, crashes, shutdowns>>

(* The continue after RPUSH is missing: the job is put back and returned.  *)
RequeueReturns(w) ==
    /\ pc[w] = "requeue" /\ Works
    /\ queue' = [queue EXCEPT ![at[w]] = <<job[w]>> \o @]
    /\ Goto(w, "locked")
    /\ UNCHANGED <<active, processing, visit, at, job, altered, mode, auditVars, boundVars>>

(* LPUSH in place of RPUSH; and a hand emptied before it is put back.      *)
PutBack(w, list) ==
    /\ pc[w] = "requeue" /\ Works
    /\ queue' = [queue EXCEPT ![at[w]] = list]
    /\ NextKey(w, visit[w]) /\ LetGo(w)
    /\ UNCHANGED <<active, processing, visit, altered, mode, auditVars, boundVars>>
RequeueLast(w)  == PutBack(w, Append(queue[at[w]], job[w]))
RequeueEmpty(w) == PutBack(w, <<None>> \o queue[at[w]])

(* Ack without its DEL, and without its LREM.                              *)
AckKeepsLock(w) ==
    /\ pc[w] = "acking"
    /\ Goto(w, "clearing")
    /\ UNCHANGED <<redisVars, visit, at, job, altered, mode, auditVars, boundVars>>
AckKeepsEntry(w) ==
    /\ pc[w] = "clearing"
    /\ Goto(w, "idle")
    /\ LetGo(w)
    /\ altered' = [altered EXCEPT ![w] = FALSE]
    /\ UNCHANGED <<redisVars, visit, mode, auditVars, boundVars>>

(* SET without a TTL, and with one shorter than the job takes.             *)
LockStays(r) == FALSE /\ r \in Repos /\ UNCHANGED vars
LockLapses(r) ==
    /\ active[r] # None
    /\ active' = [active EXCEPT ![r] = None]
    /\ UNCHANGED <<queue, processing, workerVars, mode, auditVars, boundVars>>

(* runWorker without its look at ctx.Done().                               *)
StopNever(w) == FALSE /\ w \in Workers /\ UNCHANGED vars
-----------------------------------------------------------------------------
(* runWorker and Pop.                                                      *)

(* ctx.Done() is looked at between jobs only.                              *)
Stop(w) ==
    /\ pc[w] = "idle" /\ mode = "stopping"
    /\ Goto(w, "stopped")
    /\ UNCHANGED <<redisVars, visit, at, job, altered, mode, auditVars, boundVars>>

(* SCAN: the keys of the non-empty lists, in one page.  With no key, an    *)
(* error, or no job in any of them, the worker sleeps and scans again.     *)
Scan(w) ==
    /\ pc[w] = "idle" /\ Works
    /\ visit' = [visit EXCEPT ![w] = NonEmpty]
    /\ Goto(w, IF NonEmpty = {} THEN "idle" ELSE "scanning")
    /\ UNCHANGED <<redisVars, at, job, altered, mode, auditVars, boundVars>>

(* EXISTS on the lock key: a locked repository, or an error, is skipped.   *)
Exists(w, r) ==
    /\ pc[w] = "scanning" /\ r \in visit[w]
    /\ visit' = [visit EXCEPT ![w] = @ \ {r}]
    /\ \/ /\ Works
          /\ IF active[r] = None
             THEN /\ Goto(w, "checked")
                  /\ at' = [at EXCEPT ![w] = r]
             ELSE NextKey(w, visit[w] \ {r}) /\ UNCHANGED at
          /\ UNCHANGED faults
       \/ Fails("exists") /\ NextKey(w, visit[w] \ {r}) /\ UNCHANGED at
    /\ UNCHANGED <<redisVars, job, altered, mode, auditVars, crashes, shutdowns>>

(* RPOP.  An empty list and an error both continue the scan; an error of a *)
(* command that did reach Redis has taken the element.                     *)
RPop(w) ==
    LET r == at[w] IN
    /\ pc[w] = "checked"
    /\ \/ /\ Works /\ queue[r] # << >>
          /\ Goto(w, "popped")
          /\ job' = [job EXCEPT ![w] = Head(queue[r])]
          /\ queue' = [queue EXCEPT ![r] = Tail(@)]
          /\ UNCHANGED <<at, faults>>
       \/ /\ Works /\ queue[r] = << >>
          /\ NextKey(w, visit[w])
          /\ at' = [at EXCEPT ![w] = None]
          /\ UNCHANGED <<queue, job, faults>>
       \/ /\ Fails("rpop")
          /\ NextKey(w, visit[w])
          /\ at' = [at EXCEPT ![w] = None]
          /\ \/ UNCHANGED queue
             \/ /\ Works /\ queue[r] # << >>
                /\ queue' = [queue EXCEPT ![r] = Tail(@)]
          /\ UNCHANGED job
    /\ UNCHANGED <<active, processing, visit, altered, mode, auditVars, crashes, shutdowns>>

(* SET of the lock with a TTL, whether or not another worker has set it    *)
(* since EXISTS.  It may be reported as failed although it was applied.    *)
SetLock(w) ==
    LET locked == [active EXCEPT ![at[w]] = job[w]] IN
    /\ pc[w] = "popped"
    /\ \/ /\ Works
          /\ active' = locked
          /\ Goto(w, "locked")
          /\ UNCHANGED faults
       \/ /\ Fails("set")
          /\ \/ UNCHANGED active
             \/ Works /\ active' = locked
          /\ Goto(w, "requeue")
    /\ UNCHANGED <<queue, processing, visit, at, job, altered, mode, auditVars, crashes, shutdowns>>

(* RPUSH puts the job back where RPOP takes it next.  Its error is ignored *)
(* and the job is then nowhere.                                            *)
Requeue(w) ==
    /\ pc[w] = "requeue"
    /\ \/ /\ Works
          /\ queue' = [queue EXCEPT ![at[w]] = <<job[w]>> \o @]
          /\ UNCHANGED faults
       \/ Fails("rpush") /\ UNCHANGED queue
    /\ NextKey(w, visit[w]) /\ LetGo(w)
    /\ UNCHANGED <<active, processing, visit, altered, mode, auditVars, crashes, shutdowns>>

(* LPUSH on the processing list, its error ignored; Pop returns the job.   *)
Track(w) ==
    /\ pc[w] = "locked"
    /\ \/ /\ Works
          /\ processing' = [processing EXCEPT ![w] = @ \cup {job[w]}]
          /\ UNCHANGED faults
       \/ Fails("lpush") /\ UNCHANGED processing
    /\ Goto(w, "working")
    /\ visit' = [visit EXCEPT ![w] = {}]
    /\ delivered' = delivered \cup {job[w]}
    /\ UNCHANGED <<queue, active, at, job, altered, mode, ticket, crashes, shutdowns>>

(* executeJob runs to its call of Ack.  Past the look-up of the fork it    *)
(* writes the fork's name into execJob.EnvVars, which is the map of the    *)
(* payload unless that one is nil.                                         *)
Work(w, forkFound) ==
    /\ pc[w] = "working"
    /\ forkFound => Works
    /\ Goto(w, "acking")
    /\ altered' = [altered EXCEPT ![w] = forkFound /\ job[w] \in WithEnv]
    /\ UNCHANGED <<redisVars, visit, at, job, mode, auditVars, boundVars>>

(* Ack, first command: DEL of the lock, whoever holds it.                  *)
AckDel(w) ==
    /\ pc[w] = "acking"
    /\ \/ /\ Works
          /\ active' = [active EXCEPT ![at[w]] = None]
          /\ UNCHANGED faults
       \/ Fails("del") /\ UNCHANGED active
    /\ Goto(w, "clearing")
    /\ UNCHANGED <<queue, processing, visit, at, job, altered, mode, auditVars, crashes, shutdowns>>

(* Ack, second command: LREM of the payload marshalled again, which finds  *)
(* nothing when the payload was altered.  The worker loops.                *)
AckRem(w) ==
    /\ pc[w] = "clearing"
    /\ \/ /\ Works
          /\ processing' = IF altered[w] THEN processing
                           ELSE [processing EXCEPT ![w] = @ \ {job[w]}]
          /\ UNCHANGED faults
       \/ Fails("lrem") /\ UNCHANGED processing
    /\ Goto(w, "idle")
    /\ LetGo(w)
    /\ altered' = [altered EXCEPT ![w] = FALSE]
    /\ UNCHANGED <<queue, active, visit, mode, auditVars, crashes, shutdowns>>

-----------------------------------------------------------------------------
(* Redis and the process.                                                  *)

(* The TTL, twice the runner timeout, outlasts any live executeJob; it     *)
(* ends the locks whose holder is gone.                                    *)
LockExpire(r) ==
    /\ IsOrphan(r)
    /\ active' = [active EXCEPT ![r] = None]
    /\ UNCHANGED <<queue, processing, workerVars, mode, auditVars, boundVars>>

(* maxmemory-policy allkeys-lru lets Redis drop a lock or a whole list.    *)
Evict(r) ==
    /\ "evict" \in FaultKinds /\ faults < MaxFaults
    /\ faults' = faults + 1
    /\ \/ active' = [active EXCEPT ![r] = None] /\ UNCHANGED queue
       \/ queue' = [queue EXCEPT ![r] = << >>] /\ UNCHANGED active
    /\ UNCHANGED <<processing, workerVars, mode, auditVars, crashes, shutdowns>>

(* The memory of the process: what a crash or an exit takes with it.       *)
ForgetWorkers ==
    /\ pc' = [w \in Workers |-> "idle"]
    /\ visit' = [w \in Workers |-> {}]
    /\ at' = [w \in Workers |-> None]
    /\ job' = [w \in Workers |-> None]
    /\ altered' = [w \in Workers |-> FALSE]

Crash ==
    /\ mode # "down" /\ crashes < MaxCrashes
    /\ crashes' = crashes + 1
    /\ mode' = "down"
    /\ ForgetWorkers
    /\ UNCHANGED <<redisVars, auditVars, faults, shutdowns>>

(* Shutdown cancels the pool's context and waits for the workers, for 60   *)
(* seconds: an exit with a worker still at work is a Crash.                *)
Shutdown ==
    /\ mode = "running" /\ shutdowns < MaxShutdowns
    /\ shutdowns' = shutdowns + 1
    /\ mode' = "stopping"
    /\ UNCHANGED <<redisVars, workerVars, auditVars, faults, crashes>>

Exit ==
    /\ mode = "stopping" /\ \A w \in Workers : pc[w] = "stopped"
    /\ mode' = "down"
    /\ ForgetWorkers
    /\ UNCHANGED <<redisVars, auditVars, boundVars>>

(* The pool starts again; Start reads nothing back from Redis.             *)
Restart ==
    /\ mode = "down"
    /\ mode' = "running"
    /\ UNCHANGED <<redisVars, workerVars, auditVars, boundVars>>
-----------------------------------------------------------------------------
Pop(w) ==
    \/ Scan(w) \/ (\E r \in Repos : Exists(w, r))
    \/ RPop(w) \/ SetLock(w) \/ Requeue(w) \/ Track(w)
Ack(w) == AckDel(w) \/ AckRem(w)

RunWorker(w) ==
    Stop(w) \/ Pop(w) \/ (\E f \in BOOLEAN : Work(w, f)) \/ Ack(w)

Environment ==
    \/ \E j \in Runs : Push(j) \/ RemoveByRunID(j)
    \/ \E r \in Repos : LockExpire(r) \/ Evict(r)
    \/ Crash \/ Shutdown \/ Exit \/ Restart

Next == Environment \/ \E w \in Workers : RunWorker(w)

Spec == Init /\ [][Next]_vars

(* Goroutines are scheduled, keys expire, the process is restarted.  No    *)
(* caller has to push, to cancel, or to stop the process.                  *)
Fairness ==
    /\ \A w \in Workers : WF_vars(RunWorker(w))
    /\ \A r \in Repos : WF_vars(LockExpire(r))
    /\ WF_vars(Exit) /\ WF_vars(Restart)

FairSpec == Spec /\ Fairness
-----------------------------------------------------------------------------
Undisturbed == faults = 0 /\ crashes = 0 /\ shutdowns = 0

TypeOK ==
    /\ queue \in [Repos -> Seq(Runs)]
    /\ active \in [Repos -> Runs \cup {None}]
    /\ processing \in [Workers -> SUBSET Runs]
    /\ pc \in [Workers -> Idle \cup Holding]
    /\ visit \in [Workers -> SUBSET Repos]
    /\ at \in [Workers -> Repos \cup {None}]
    /\ job \in [Workers -> Runs \cup {None}]
    /\ altered \in [Workers -> BOOLEAN]
    /\ mode \in {"running", "stopping", "down"}
    /\ ticket \in [Runs -> Nat]
    /\ delivered \subseteq Runs
    /\ faults \in Nat /\ crashes \in Nat /\ shutdowns \in Nat

(* A job is in one place at most: one slot of the list of its repository   *)
(* or the hand of one worker, whatever fails and wherever the process      *)
(* dies.  Pop takes with RPOP before it looks, and puts back at most once. *)
SinglePlace ==
    /\ \A r \in Repos : \A i, k \in 1..Len(queue[r]) :
         queue[r][i] = queue[r][k] => i = k
    /\ \A w \in Workers : job[w] # None =>
         /\ \A v \in Workers \ {w} : job[v] # job[w]
         /\ \A r \in Repos : \A i \in 1..Len(queue[r]) : queue[r][i] # job[w]

(* Pop never returns a job twice, to the same worker or to another, before *)
(* or after a restart: a run is dispatched at most once.                   *)
DeliveredOnce ==
    [][\A w \in Workers : pc[w] = "locked" /\ pc'[w] = "working"
         => job[w] \notin delivered]_vars

(* docs/BUILD-PLAN.md, graceful shutdown: the pool mislays no job.  A job  *)
(* leaves its place only for its executor or because its run is cancelled. *)
LosesNothing ==
    [][\A j \in Runs : InPlace(j) /\ ~InPlace(j)'
         => j \in delivered \/ RemoveByRunID(j)]_vars

(* What is true of every mode: a job is lost only with the process, by an  *)
(* eviction, or when RPOP or the RPUSH that puts it back fails (as it does *)
(* in a shutdown); an error of EXISTS, SET, LPUSH, DEL or LREM costs none. *)
Mislays ==
    \/ Crash
    \/ \E r \in Repos : Evict(r)
    \/ \E w \in Workers : RPop(w) /\ Fails("rpop")
    \/ \E w \in Workers : Requeue(w) /\ Fails("rpush")
LosesOnlyByFault ==
    [][\A j \in Runs : InPlace(j) /\ ~InPlace(j)'
         => j \in delivered \/ RemoveByRunID(j) \/ Mislays]_vars

(* With one worker the jobs of a repository reach the executor in the      *)
(* order of Push, also when a job is put back for want of its lock.        *)
FifoPerRepo ==
    \A r \in Repos :
      /\ \A i, k \in 1..Len(queue[r]) :
           i < k => ticket[queue[r][i]] < ticket[queue[r][k]]
      /\ \A j \in delivered \cup Held : RepoOf[j] = r =>
           \A i \in 1..Len(queue[r]) : ticket[j] < ticket[queue[r][i]]

(* A lock always has a holder, so no repository is blocked by a run that   *)
(* is over: as long as nothing failed or died, Ack leaves no lock behind,  *)
(* though two workers may overwrite and delete each other's.               *)
LockHasHolder ==
    Undisturbed => \A r \in Repos : active[r] # None =>
      \E w \in Workers : job[w] = active[r]
                        /\ pc[w] \in {"locked", "working", "acking"}

(* With one worker a job in execution holds the lock of its repository,    *)
(* under an error of any command and after a restart that found an older   *)
(* lock still there.                                                       *)
WorkIsLocked ==
    \A w \in Workers : pc[w] \in {"locked", "working", "acking"} =>
      active[RepoOf[job[w]]] = job[w]

(* The documented rule (docs/LLD/TEST-RUNNER.md, Concurrency): one active  *)
(* run for each repository.                                                *)
OneActivePerRepo ==
    \A v, w \in Workers : v # w /\ {pc[v], pc[w]} \subseteq InWork
      => RepoOf[job[v]] # RepoOf[job[w]]

(* Ack removes the job from the processing list: as long as nothing failed *)
(* or died, all that stays behind when a worker is between two jobs are    *)
(* payloads whose map of variables executeJob may have altered.            *)
AckClearsProcessing ==
    Undisturbed => \A w \in Workers : pc[w] = "idle" => processing[w] \subseteq WithEnv

(* No job waits for ever: crashes leave locks behind and errors put jobs   *)
(* back, but the TTL and the scan get to every one of them.                *)
QueuedIsTaken ==
    \A j \in Runs : j \in Queued(RepoOf[j]) ~> j \notin Queued(RepoOf[j])

(* A graceful shutdown ends: no worker is kept by a command that fails, by *)
(* a scan or by a job it can not put back.                                 *)
ShutdownEnds == mode = "stopping" ~> mode # "stopping"

(* The queue implements JobDelivery: where a job is decides its state.     *)
Place(j) ==
    IF ticket[j] = 0 THEN "new"
    ELSE IF j \in delivered THEN "delivered"
    ELSE IF j \in Queued(RepoOf[j]) THEN "waiting"
    ELSE IF j \in Held THEN "taken" ELSE "gone"

Delivery == INSTANCE JobDelivery WITH Jobs <- Runs, state <- [j \in Runs |-> Place(j)]

(* Every step of the queue, its faults, crashes and restarts included, is  *)
(* a step of at-most-once delivery or leaves every job where it was.       *)
ImplementsDelivery == Delivery!Spec
=============================================================================
