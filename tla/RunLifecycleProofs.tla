------------------------- MODULE RunLifecycleProofs -------------------------
(***************************************************************************)
(* Proofs about RunLifecycle, for any number of runs, repositories and     *)
(* workers and any bounds, unless a theorem says otherwise.                *)
(***************************************************************************)
EXTENDS RunLifecycle, JobOrderProofs, WellFoundedInduction

-----------------------------------------------------------------------------
(* Among numbered things with a bound on the numbers one has the greatest. *)
LEMMA GreatestExists ==
    ASSUME NEW S, NEW f, NEW b \in Nat, S # {}, \A x \in S : f[x] \in 0..b
    PROVE  \E g \in S : \A h \in S : f[h] <= f[g]
<1> DEFINE T == {b - f[x] : x \in S}
           R == OpToRel(<, Nat)
<1>1. T \subseteq Nat /\ T # {}
  OBVIOUS
<1>2. PICK m \in T : \A n \in T : ~(<<n, m>> \in R)
  <2> HIDE DEF T, R
  <2>1. IsWellFoundedOn(R, Nat)
    BY NatLessThanWellFounded DEF R
  <2>2. QED  BY <1>1, <2>1, WFMin
<1>3. \A n \in T : ~(n < m)
  BY <1>1, <1>2 DEF OpToRel
<1>4. PICK g \in S : m = b - f[g]
  OBVIOUS
<1>5. ASSUME NEW h \in S PROVE f[h] <= f[g]
  <2>1. ~(b - f[h] < m)
    BY <1>3
  <2>2. QED  BY <1>4, <2>1
<1>6. QED  BY <1>5

-----------------------------------------------------------------------------
(* The composition is a queue.                                             *)

LEMMA LifeQueueStep == [LifeNext]_allVars => [Next]_vars
<1> SUFFICES ASSUME [LifeNext]_allVars PROVE [Next]_vars
  OBVIOUS
<1>1. ASSUME NEW j \in Runs,
             CreateRun(j) \/ CancelRead(j) \/ HookRead(j) \/ PushRun(j) \/ CancelRemove(j)
             \/ CancelFinish(j) \/ HookStore(j) \/ HookFinish(j) \/ WorkflowEnds(j)
      PROVE  vars' = vars \/ Push(j) \/ RemoveByRunID(j)
  BY <1>1 DEF CreateRun, CancelRead, HookRead, PushRun, CancelRemove, CancelFinish, HookStore,
              HookFinish, WorkflowEnds
<1>2. ASSUME NEW w \in Workers, Worker(w)
      PROVE  vars' = vars \/ RunWorker(w)
  <2>1. CASE QueueWorker(w)
    BY <2>1 DEF QueueWorker, RunWorker
  <2>2. CASE LookUpFork(w) \/ MarkStarted(w) \/ Ensure(w) \/ Dispatch(w)
    BY <2>2 DEF LookUpFork, MarkStarted, Ensure, Dispatch
  <2>3. CASE Register(w) \/ MarkFailed(w)
    <3>1. \E f \in BOOLEAN : Work(w, f)
      BY <2>3 DEF Register, MarkFailed, Works
    <3>2. QED  BY <3>1 DEF RunWorker
  <2>4. QED  BY <1>2, <2>1, <2>2, <2>3 DEF Worker, ExecuteJob
<1>3. ASSUME Poller PROVE vars' = vars
  BY <1>3 DEF Poller, Tick, TickDone, PollRead, PollFind, PollStore, PollReport, PollFinish
<1>4. ASSUME NEW r \in Repos, Expire(r) \/ Refresh(r)
      PROVE  vars' = vars \/ LockExpire(r)
  BY <1>4 DEF Expire, Refresh
<1>5. LifeCrash \/ LifeExit \/ LifeRestart => Crash \/ Exit \/ Restart
  BY DEF LifeCrash, LifeExit, LifeRestart
<1>6. allVars' = allVars => vars' = vars
  BY DEF allVars
<1>7. QED
  BY <1>1, <1>2, <1>3, <1>4, <1>5, <1>6 DEF LifeNext, Request, Callback, Next, Environment

(* A run's life goes through the very queue of JobQueue: what is proved of *)
(* the queue by itself holds of it inside the backend.                     *)
THEOREM LifeRunsTheQueue == LifeSpec => Spec
<1>1. LifeInit => Init
  BY DEF LifeInit
<1>2. QED  BY <1>1, LifeQueueStep, PTL DEF LifeSpec, Spec

LEMMA LifeSettled == LifeSpec => []Settled
  BY LifeRunsTheQueue, SettledAlways, PTL

LEMMA DeliveredGrows ==
    ASSUME [LifeNext]_allVars
    PROVE  delivered \subseteq delivered'
<1>1. [Next]_vars
  BY LifeQueueStep
<1>2. QED
  BY <1>1
  DEF Next, Environment, RunWorker, Pop, Ack, Push, RemoveByRunID, LockExpire, Evict, Crash,
      Shutdown, Exit, Restart, Stop, Scan, Exists, RPop, SetLock, Requeue, Track, Work, AckDel,
      AckRem, vars, auditVars

-----------------------------------------------------------------------------
(* What changes what.                                                      *)

(* GitHub got the call: it starts the workflow of the run.                 *)
Sends(w) == Dispatch(w) /\ StartWorkflow(job[w])

LEMMA WorkflowFrame ==
    ASSUME [LifeNext]_allVars
    PROVE  \/ \E w \in Workers : Sends(w)
           \/ \E j \in Runs : WorkflowEnds(j)
           \/ UNCHANGED <<head, dispatched, workflow, outcome>>
<1> DEFINE Same == UNCHANGED <<head, dispatched, workflow, outcome>>
<1>1. ASSUME NEW j \in Runs,
             CreateRun(j) \/ CancelRead(j) \/ HookRead(j) \/ PushRun(j) \/ CancelRemove(j)
             \/ CancelFinish(j) \/ HookStore(j) \/ HookFinish(j)
      PROVE  Same
  BY <1>1 DEF CreateRun, CancelRead, HookRead, PushRun, CancelRemove, CancelFinish, HookStore,
              HookFinish, githubVars
<1>2. ASSUME NEW w \in Workers, Worker(w)
      PROVE  Sends(w) \/ Same
  <2>1. CASE QueueWorker(w)
    BY <2>1 DEF QueueWorker, lifeVars, githubVars
  <2>2. CASE LookUpFork(w) \/ MarkStarted(w) \/ Ensure(w) \/ Register(w) \/ MarkFailed(w)
    BY <2>2 DEF LookUpFork, MarkStarted, Ensure, Register, MarkFailed, githubVars
  <2>3. CASE Dispatch(w)
    BY <2>3 DEF Dispatch, DispatchWorkflow, Sends
  <2>4. QED  BY <1>2, <2>1, <2>2, <2>3 DEF Worker, ExecuteJob
<1>3. ASSUME Poller PROVE Same
  BY <1>3 DEF Poller, Tick, TickDone, PollRead, PollFind, PollStore, PollReport, PollFinish,
              githubVars
<1>4. ASSUME NEW r \in Repos, Expire(r) \/ Refresh(r) PROVE Same
  BY <1>4 DEF Expire, Refresh, lifeVars, githubVars
<1>5. LifeCrash \/ LifeExit \/ LifeRestart \/ (Shutdown /\ UNCHANGED lifeVars)
      \/ UNCHANGED allVars => Same
  BY DEF LifeCrash, LifeExit, LifeRestart, lifeVars, githubVars, allVars
<1> HIDE DEF Same
<1>6. (\E w \in Workers : Sends(w)) \/ (\E j \in Runs : WorkflowEnds(j)) \/ Same
  BY <1>1, <1>2, <1>3, <1>4, <1>5 DEF LifeNext, Request, Callback
<1>7. QED  BY <1>6 DEF Same

LEMMA ExecFrame ==
    ASSUME [LifeNext]_allVars
    PROVE  \/ \E w \in Workers : ExecuteJob(w)
           \/ \E w \in Workers : QueueWorker(w)
           \/ LifeCrash \/ LifeExit
           \/ pc' = pc /\ job' = job /\ exec' = exec /\ sha' = sha
<1> DEFINE Same == pc' = pc /\ job' = job /\ exec' = exec /\ sha' = sha
<1>1. ASSUME NEW j \in Runs,
             CreateRun(j) \/ CancelRead(j) \/ HookRead(j) \/ PushRun(j) \/ CancelRemove(j)
             \/ CancelFinish(j) \/ HookStore(j) \/ HookFinish(j) \/ WorkflowEnds(j)
      PROVE  Same
  BY <1>1 DEF CreateRun, CancelRead, HookRead, PushRun, CancelRemove, CancelFinish, HookStore,
              HookFinish, WorkflowEnds, Push, RemoveByRunID, vars, workerVars, memoryVars
<1>2. ASSUME Poller PROVE Same
  BY <1>2 DEF Poller, Tick, TickDone, PollRead, PollFind, PollStore, PollReport, PollFinish,
              vars, workerVars
<1>3. ASSUME NEW r \in Repos, Expire(r) \/ Refresh(r) PROVE Same
  BY <1>3 DEF Expire, Refresh, LockExpire, lifeVars, memoryVars, vars, workerVars
<1>4. LifeRestart \/ (Shutdown /\ UNCHANGED lifeVars) \/ UNCHANGED allVars => Same
  BY DEF LifeRestart, Restart, Shutdown, lifeVars, memoryVars, allVars, vars, workerVars
<1> HIDE DEF Same
<1>5. (\E w \in Workers : ExecuteJob(w)) \/ (\E w \in Workers : QueueWorker(w))
      \/ LifeCrash \/ LifeExit \/ Same
  BY <1>1, <1>2, <1>3, <1>4 DEF LifeNext, Request, Callback, Worker
<1>6. QED  BY <1>5 DEF Same

LEMMA PollFrame ==
    ASSUME [LifeNext]_allVars
    PROVE  Poller \/ LifeCrash \/ LifeExit \/ poll' = poll
<1>1. ASSUME NEW j \in Runs,
             CreateRun(j) \/ CancelRead(j) \/ HookRead(j) \/ PushRun(j) \/ CancelRemove(j)
             \/ CancelFinish(j) \/ HookStore(j) \/ HookFinish(j) \/ WorkflowEnds(j)
      PROVE  poll' = poll
  BY <1>1 DEF CreateRun, CancelRead, HookRead, PushRun, CancelRemove, CancelFinish, HookStore,
              HookFinish, WorkflowEnds, memoryVars
<1>2. ASSUME NEW w \in Workers, Worker(w)
      PROVE  poll' = poll
  BY <1>2 DEF Worker, ExecuteJob, QueueWorker, LookUpFork, MarkStarted, Ensure, Dispatch, Register,
              MarkFailed, lifeVars, memoryVars
<1>3. ASSUME NEW r \in Repos, Expire(r) \/ Refresh(r) PROVE poll' = poll
  BY <1>3 DEF Expire, Refresh, lifeVars, memoryVars
<1>4. LifeRestart \/ (Shutdown /\ UNCHANGED lifeVars) \/ UNCHANGED allVars => poll' = poll
  BY DEF LifeRestart, lifeVars, memoryVars, allVars
<1>5. QED  BY <1>1, <1>2, <1>3, <1>4 DEF LifeNext, Request, Callback

-----------------------------------------------------------------------------
(* What the types rest on.                                                 *)

(* A worker that is not at "working" is before the next job; one that has  *)
(* yet to dispatch its job has not: a run is dispatched at most once.      *)
BeforeDispatch == {"lookup", "start", "ensure", "dispatch"}
Stages ==
    \A w \in Workers :
      /\ pc[w] # "working" => exec[w] = "lookup"
      /\ pc[w] = "working" /\ exec[w] \in BeforeDispatch => dispatched[job[w]] = 0

Started == {i \in Runs : dispatched[i] # 0}
Numbering == \A j \in Runs : dispatched[j] \in 0..Cardinality(Started)

(* GitHub runs the workflow of a run only once the run's job was delivered.*)
Started1(j) == j \in delivered /\ outcome[j] \in Outcomes /\ workflow[j] # "none"
Sent ==
    \A j \in Runs : IF dispatched[j] # 0 THEN Started1(j) ELSE workflow[j] = "none" /\ head[j] = 0

(* What the poller has in hand.                                            *)
Found    == {"completing", "reporting", "finishing"}
Decided  == {"reporting", "finishing"}
Verdicts == {"passed", "failed"}
Polling ==
    /\ poll.at \in Found \cup {"looking"} => poll.run \in Runs
    /\ poll.at \in Found => poll.found \in Runs /\ workflow[poll.found] = "completed"
    /\ poll.at \in Decided => poll.verdict \in Verdicts

LifeTyped == Settled /\ LifeTypeOK /\ Stages /\ Numbering /\ Sent /\ Polling

LEMMA LifeTypedInit == LifeInit => LifeTyped
<1> SUFFICES ASSUME LifeInit PROVE LifeTyped
  OBVIOUS
<1>1. Settled
  BY SettledInit DEF LifeInit
<1>2. LifeTypeOK
  <2>1. TypeOK
    BY <1>1 DEF Settled, Unique, Typed
  <2>2. QED
    BY <2>1, LifeBoundsAssumption DEF LifeInit, LifeTypeOK, Upstream, NoPoll, Terminal
<1>3. Stages
  BY DEF LifeInit, Init, Stages
<1>4. Numbering
  <2>1. Started = {}
    BY DEF LifeInit, Started
  <2>2. QED  BY <2>1, FS_EmptySet DEF LifeInit, Numbering
<1>5. Sent
  BY DEF LifeInit, Sent
<1>6. Polling
  BY DEF LifeInit, NoPoll, Polling, Found, Decided
<1>7. QED  BY <1>1, <1>2, <1>3, <1>4, <1>5, <1>6 DEF LifeTyped

LEMMA StartedIsFinite == IsFiniteSet(Started) /\ Cardinality(Started) \in Nat
<1>1. Started \subseteq Runs
  BY DEF Started
<1>2. IsFiniteSet(Started)
  BY <1>1, RunsAssumption, FS_Subset
<1>3. QED  BY <1>2, FS_CardinalityType

(* findWorkflowRun has a latest one to choose.                             *)
LEMMA LatestFacts ==
    ASSUME LifeTyped, NEW S \in SUBSET Runs, S # {}
    PROVE  Latest(S) \in S
<1>1. \A g \in S : dispatched[g] \in 0..Cardinality(Started)
  BY DEF LifeTyped, Numbering
<1>2. \E g \in S : \A h \in S : dispatched[h] <= dispatched[g]
  BY <1>1, StartedIsFinite, GreatestExists
<1>3. QED  BY <1>2 DEF Latest

(* A call that reached GitHub started the workflow of that run only.       *)
LEMMA SendsFacts ==
    ASSUME LifeTyped, NEW w \in Workers, Sends(w)
    PROVE  /\ job[w] \in Runs /\ job[w] \in delivered /\ dispatched[job[w]] = 0
           /\ pc[w] = "working" /\ exec[w] = "dispatch" /\ at[w] = RepoOf[job[w]]
           /\ head'[job[w]] = tip[RepoOf[job[w]]]
           /\ dispatched'[job[w]] = 1 + Cardinality(Started)
           /\ workflow'[job[w]] = "in_progress" /\ outcome'[job[w]] \in Outcomes
           /\ \A j \in Runs : j # job[w] =>
                /\ head'[j] = head[j] /\ dispatched'[j] = dispatched[j]
                /\ workflow'[j] = workflow[j] /\ outcome'[j] = outcome[j]
<1>1. pc[w] = "working" /\ exec[w] = "dispatch"
  BY DEF Sends, Dispatch, At
<1>2. job[w] \in Runs /\ job[w] \in delivered /\ at[w] = RepoOf[job[w]]
  BY <1>1, HandOf DEF LifeTyped, Settled, Worked, Holding, InWork
<1>3. dispatched[job[w]] = 0
  BY <1>1 DEF LifeTyped, Stages, BeforeDispatch
<1>4. PICK o \in Outcomes : outcome' = [outcome EXCEPT ![job[w]] = o]
  BY DEF Sends, StartWorkflow
<1>5. /\ head' = [head EXCEPT ![job[w]] = tip[RepoOf[job[w]]]]
      /\ dispatched' = [dispatched EXCEPT ![job[w]] = 1 + Cardinality(Started)]
      /\ workflow' = [workflow EXCEPT ![job[w]] = "in_progress"]
  BY DEF Sends, StartWorkflow, Started
<1>6. /\ head \in [Runs -> Nat] /\ dispatched \in [Runs -> Nat]
      /\ workflow \in [Runs -> {"none", "in_progress", "completed"}]
      /\ outcome \in [Runs -> Outcomes \cup {None}]
  BY DEF LifeTyped, LifeTypeOK
<1>7. QED  BY <1>1, <1>2, <1>3, <1>4, <1>5, <1>6

LEMMA NumberingStep ==
    ASSUME LifeTyped, [LifeNext]_allVars
    PROVE  Numbering'
<1>1. CASE dispatched' = dispatched
  BY <1>1 DEF LifeTyped, Numbering, Started
<1>2. ASSUME NEW w \in Workers, Sends(w)
      PROVE  Numbering'
  <2> DEFINE j == job[w]
             n == Cardinality(Started)
  <2>1. /\ j \in Runs /\ dispatched[j] = 0 /\ dispatched'[j] = 1 + n
        /\ \A i \in Runs : i # j => dispatched'[i] = dispatched[i]
    BY <1>2, SendsFacts
  <2>2. n \in Nat /\ IsFiniteSet(Started)
    BY StartedIsFinite
  <2>3. Started' = Started \cup {j} /\ j \notin Started
    <3> HIDE DEF j, n
    <3>1. dispatched'[j] # 0
      BY <2>1, <2>2
    <3>2. QED  BY <2>1, <3>1 DEF Started
  <2>4. Cardinality(Started') = n + 1
    <3>1. Cardinality(Started \cup {j}) = Cardinality(Started) + 1
      BY <2>2, <2>3, FS_AddElement
    <3>2. QED  BY <2>3, <3>1
  <2>5. \A i \in Runs : dispatched[i] \in 0..n
    BY DEF LifeTyped, Numbering
  <2> HIDE DEF j, n
  <2>6. QED  BY <2>1, <2>2, <2>4, <2>5 DEF Numbering
<1>3. CASE \E j \in Runs : WorkflowEnds(j)
  BY <1>1, <1>3 DEF WorkflowEnds
<1>4. QED  BY <1>1, <1>2, <1>3, WorkflowFrame

LEMMA SentStep ==
    ASSUME LifeTyped, [LifeNext]_allVars
    PROVE  Sent'
<1>1. delivered \subseteq delivered'
  BY DeliveredGrows
<1>2. Sent
  BY DEF LifeTyped
<1>3. CASE UNCHANGED <<head, dispatched, workflow, outcome>>
  BY <1>1, <1>2, <1>3 DEF Sent, Started1
<1>4. ASSUME NEW w \in Workers, Sends(w)
      PROVE  Sent'
  <2>1. dispatched'[job[w]] # 0
    BY <1>4, SendsFacts, StartedIsFinite
  <2>2. Started1(job[w])'
    <3>1. job[w] \in delivered /\ workflow'[job[w]] = "in_progress" /\ outcome'[job[w]] \in Outcomes
      BY <1>4, SendsFacts
    <3>2. job' = job
      BY <1>4 DEF Sends, Dispatch, vars, workerVars
    <3>3. QED  BY <1>1, <3>1, <3>2 DEF Started1
  <2>3. job' = job
    BY <1>4 DEF Sends, Dispatch, vars, workerVars
  <2>4. \A j \in Runs : j # job[w] =>
          /\ head'[j] = head[j] /\ dispatched'[j] = dispatched[j]
          /\ workflow'[j] = workflow[j] /\ outcome'[j] = outcome[j]
    BY <1>4, SendsFacts
  <2>5. QED  BY <1>1, <1>2, <2>1, <2>2, <2>3, <2>4 DEF Sent, Started1
<1>5. ASSUME NEW k \in Runs, WorkflowEnds(k)
      PROVE  Sent'
  <2>1. /\ head' = head /\ dispatched' = dispatched /\ outcome' = outcome
        /\ workflow[k] = "in_progress" /\ workflow' = [workflow EXCEPT ![k] = "completed"]
    BY <1>5 DEF WorkflowEnds
  <2>2. workflow \in [Runs -> {"none", "in_progress", "completed"}]
    BY DEF LifeTyped, LifeTypeOK
  <2>3. QED  BY <1>1, <1>2, <2>1, <2>2 DEF Sent, Started1
<1>6. QED  BY <1>3, <1>4, <1>5, WorkflowFrame

LEMMA StagesStep ==
    ASSUME LifeTyped, [LifeNext]_allVars
    PROVE  Stages'
<1> SUFFICES ASSUME NEW v \in Workers
             PROVE  /\ pc'[v] # "working" => exec'[v] = "lookup"
                    /\ pc'[v] = "working" /\ exec'[v] \in BeforeDispatch => dispatched'[job'[v]] = 0
  BY DEF Stages
<1>1. /\ pc[v] # "working" => exec[v] = "lookup"
      /\ pc[v] = "working" /\ exec[v] \in BeforeDispatch => dispatched[job[v]] = 0
  BY DEF LifeTyped, Stages
<1>2. TypeOK /\ exec \in [Workers -> {"lookup", "start", "ensure", "dispatch", "register",
                                      "refuse", "fail"}]
  BY DEF LifeTyped, LifeTypeOK
<1>3. ASSUME NEW w \in Workers, ExecuteJob(w)
      PROVE  /\ pc'[v] # "working" => exec'[v] = "lookup"
             /\ pc'[v] = "working" /\ exec'[v] \in BeforeDispatch => dispatched'[job'[v]] = 0
  <2>1. CASE LookUpFork(w) \/ MarkStarted(w) \/ Ensure(w)
    <3>1. pc' = pc /\ job' = job /\ dispatched' = dispatched /\ pc[w] = "working"
          /\ exec[w] \in BeforeDispatch /\ \A u \in Workers : u # w => exec'[u] = exec[u]
      BY <1>2, <2>1 DEF LookUpFork, MarkStarted, Ensure, At, Then, vars, workerVars, githubVars,
                        BeforeDispatch
    <3>2. QED  BY <1>1, <3>1
  <2>2. CASE Dispatch(w)
    <3>1. pc' = pc /\ job' = job /\ pc[w] = "working" /\ exec'[w] \in {"register", "fail"}
          /\ \A u \in Workers : u # w => exec'[u] = exec[u]
      BY <1>2, <2>2 DEF Dispatch, At, Then, vars, workerVars
    <3>2. v # w /\ pc[v] = "working" => job[v] # job[w] /\ job[v] \in Runs
      BY <3>1, NoneAssumption
      DEF LifeTyped, Settled, Unique, SinglePlace, Typed, Hands, Holding, InWork
    <3>3. Sends(w) \/ dispatched' = dispatched
      BY <2>2 DEF Dispatch, DispatchWorkflow, Sends
    <3>4. v # w /\ pc[v] = "working" => dispatched'[job[v]] = dispatched[job[v]]
      BY <3>2, <3>3, SendsFacts
    <3>5. QED  BY <1>1, <3>1, <3>4 DEF BeforeDispatch
  <2>3. CASE Register(w) \/ MarkFailed(w)
    <3>1. exec' = [exec EXCEPT ![w] = "lookup"] /\ dispatched' = dispatched
      BY <2>3 DEF Register, MarkFailed, Then, githubVars
    <3>2. pc' = [pc EXCEPT ![w] = "acking"] /\ job' = job
      BY <2>3 DEF Register, MarkFailed, Work, Goto
    <3>3. QED  BY <1>1, <1>2, <3>1, <3>2 DEF TypeOK
  <2>4. QED  BY <1>3, <2>1, <2>2, <2>3 DEF ExecuteJob
<1>4. ASSUME NEW w \in Workers, QueueWorker(w)
      PROVE  /\ pc'[v] # "working" => exec'[v] = "lookup"
             /\ pc'[v] = "working" /\ exec'[v] \in BeforeDispatch => dispatched'[job'[v]] = 0
  <2>1. exec' = exec /\ dispatched' = dispatched
    BY <1>4 DEF QueueWorker, lifeVars, memoryVars, githubVars
  <2>2. CASE v # w
    <3>1. pc'[v] = pc[v] /\ job'[v] = job[v]
      BY <1>2, <1>4, <2>2
      DEF QueueWorker, Pop, Ack, TypeOK, Stop, Scan, Exists, RPop, SetLock, Requeue, Track, AckDel,
          AckRem, NextKey, Goto, LetGo
    <3>2. QED  BY <1>1, <2>1, <3>1
  <2>3. CASE v = w
    <3>1. pc[w] # "working"
      BY <1>4 DEF QueueWorker, Pop, Ack, Stop, Scan, Exists, RPop, SetLock, Requeue, Track, AckDel,
                  AckRem
    <3>2. CASE Track(w)
      <4>1. job' = job /\ pc[w] = "locked" /\ job[w] \in Runs
        BY <3>2 DEF Track, LifeTyped, Settled, Unique, Typed, Hands, Holding, InPop
      <4>2. job[w] \notin delivered
        BY <4>1 DEF LifeTyped, Settled, Unique, Fresh, InPop
      <4>3. dispatched[job[w]] = 0
        BY <4>1, <4>2 DEF LifeTyped, Sent, Started1
      <4>4. QED  BY <1>1, <2>1, <2>3, <3>1, <4>1, <4>3
    <3>3. CASE ~Track(w)
      <4>1. pc'[w] # "working"
        BY <1>2, <1>4, <3>3
        DEF QueueWorker, Pop, Ack, TypeOK, Stop, Scan, Exists, RPop, SetLock, Requeue, AckDel,
            AckRem, NextKey, Goto
      <4>2. QED  BY <1>1, <2>1, <2>3, <3>1, <4>1
    <3>4. QED  BY <3>2, <3>3
  <2>4. QED  BY <2>2, <2>3
<1>5. CASE LifeCrash \/ LifeExit
  <2>1. pc'[v] = "idle" /\ exec'[v] = "lookup"
    BY <1>5 DEF LifeCrash, LifeExit, Crash, Exit, ForgetWorkers, Forget
  <2>2. QED  BY <2>1
<1>6. CASE pc' = pc /\ job' = job /\ exec' = exec /\ sha' = sha /\ ~(\E w \in Workers : Sends(w))
  <2>1. dispatched' = dispatched
    BY <1>6, WorkflowFrame DEF WorkflowEnds
  <2>2. QED  BY <1>1, <1>6, <2>1
<1>7. QED  BY <1>3, <1>4, <1>5, <1>6, ExecFrame DEF Sends, ExecuteJob

(* Each step of the poller, by the fields of poll.                         *)
LEMMA PollFields ==
    ASSUME LifeTypeOK
    PROVE  /\ poll = [at |-> poll.at, todo |-> poll.todo, run |-> poll.run, found |-> poll.found,
                      verdict |-> poll.verdict]
           /\ poll.at \in Found \cup {"idle", "reading", "looking"}
           /\ poll.todo \in SUBSET Runs /\ poll.run \in Runs \cup {None}
           /\ poll.found \in Runs \cup {None} /\ poll.verdict \in {"none", "passed", "failed"}
  BY DEF LifeTypeOK, Found

(* A poll in progress, put together from its fields.                       *)
PollOf(a, todo, run, found, verdict) ==
    [at |-> a, todo |-> todo, run |-> run, found |-> found, verdict |-> verdict]

Scans(todo) ==
    /\ todo \subseteq poll.todo \cup {j \in Runs : tracked[j] # 0}
    /\ \E a \in {"idle", "reading"} : poll' = PollOf(a, todo, None, None, "none")
Reads(j) ==
    /\ j \in poll.todo
    /\ \/ poll' = PollOf("reading", poll.todo \ {j}, poll.run, poll.found, poll.verdict)
       \/ /\ status[j] \notin Terminal
          /\ poll' = PollOf("looking", poll.todo \ {j}, j, poll.found, poll.verdict)
Finds ==
    /\ poll.at = "looking"
    /\ \/ poll' = PollOf("reading", poll.todo, poll.run, poll.found, poll.verdict)
       \/ /\ Candidates(poll.run) # {} /\ Completed(Latest(Candidates(poll.run)))
          /\ poll' = PollOf("completing", poll.todo, poll.run, Latest(Candidates(poll.run)),
                            poll.verdict)
Stores ==
    /\ poll.at \in {"completing", "reporting"}
    /\ \/ /\ poll.at = "completing" /\ outcome[poll.found].report = "tree"
          /\ poll' = PollOf("reporting", poll.todo, poll.run, poll.found,
                            ByReport(outcome[poll.found]))
       \/ \E v \in {"failed", ByConclusion(outcome[poll.found])} :
            poll' = PollOf("finishing", poll.todo, poll.run, poll.found, v)

LEMMA PollKinds ==
    ASSUME LifeTypeOK, Poller
    PROVE  (\E todo \in SUBSET Runs : Scans(todo)) \/ (\E j \in Runs : Reads(j)) \/ Finds \/ Stores
<1> USE PollFields DEF PollOf
<1>1. CASE Tick \/ TickDone
  <2>1. CASE Tick
    <3> DEFINE todo == {j \in Runs : tracked[j] # 0}
    <3>1. poll' = [NoPoll EXCEPT !.at = "reading", !.todo = todo]
      BY <2>1 DEF Tick
    <3> HIDE DEF todo
    <3>2. poll' = PollOf("reading", todo, None, None, "none")
      BY <3>1 DEF NoPoll
    <3>3. todo \in SUBSET Runs /\ todo \subseteq {j \in Runs : tracked[j] # 0}
      BY DEF todo
    <3>4. Scans(todo)
      BY <3>2, <3>3 DEF Scans
    <3>5. QED  BY <3>3, <3>4
  <2>2. CASE TickDone
    <3>1. poll' = PollOf("idle", {}, None, None, "none")
      BY <2>2 DEF TickDone, NoPoll
    <3>2. Scans({})
      BY <3>1 DEF Scans
    <3>3. QED  BY <3>2
  <2>3. QED  BY <1>1, <2>1, <2>2
<1>2. ASSUME NEW j \in Runs, PollRead(j) PROVE Reads(j)
  <2>1. j \in poll.todo
    BY <1>2 DEF PollRead
  <2>2. CASE status[j] \in Terminal
    <3>1. poll' = [poll EXCEPT !.todo = poll.todo \ {j}]
      BY <1>2, <2>2 DEF PollRead
    <3>2. poll' = PollOf("reading", poll.todo \ {j}, poll.run, poll.found, poll.verdict)
      BY <1>2, <3>1 DEF PollRead
    <3>3. QED  BY <2>1, <3>2 DEF Reads
  <2>3. CASE status[j] \notin Terminal
    <3>1. poll' = [poll EXCEPT !.todo = poll.todo \ {j}, !.at = "looking", !.run = j]
      BY <1>2, <2>3 DEF PollRead
    <3>2. poll' = PollOf("looking", poll.todo \ {j}, j, poll.found, poll.verdict)
      BY <3>1
    <3>3. QED  BY <2>1, <2>3, <3>2 DEF Reads
  <2>4. QED  BY <2>2, <2>3
<1>3. CASE PollFind
  <2> DEFINE g == Latest(Candidates(poll.run))
  <2>1. poll.at = "looking"
    BY <1>3 DEF PollFind
  <2>2. \/ poll' = [poll EXCEPT !.at = "reading"]
        \/ /\ Candidates(poll.run) # {} /\ Completed(g)
           /\ poll' = [poll EXCEPT !.at = "completing", !.found = g]
    BY <1>3 DEF PollFind
  <2> HIDE DEF g
  <2>3. \/ poll' = PollOf("reading", poll.todo, poll.run, poll.found, poll.verdict)
        \/ /\ Candidates(poll.run) # {} /\ Completed(g)
           /\ poll' = PollOf("completing", poll.todo, poll.run, g, poll.verdict)
    BY <2>2
  <2>4. QED  BY <2>1, <2>3 DEF Finds, g
<1>4. CASE PollStore
  <2> DEFINE o == outcome[poll.found]
  <2>1. poll.at = "completing"
    BY <1>4 DEF PollStore
  <2>2. \/ Decide("finishing", "failed") \/ Decide("finishing", ByConclusion(o))
        \/ o.report = "tree" /\ Decide("reporting", ByReport(o))
    BY <1>4 DEF PollStore, Artifact
  <2> HIDE DEF o
  <2>3. \/ poll' = PollOf("finishing", poll.todo, poll.run, poll.found, "failed")
        \/ poll' = PollOf("finishing", poll.todo, poll.run, poll.found, ByConclusion(o))
        \/ /\ o.report = "tree"
           /\ poll' = PollOf("reporting", poll.todo, poll.run, poll.found, ByReport(o))
    BY <2>2 DEF Decide
  <2>4. QED  BY <2>1, <2>3 DEF Stores, o
<1>5. CASE PollReport \/ PollFinish
  <2>1. CASE poll' = [NoPoll EXCEPT !.at = "reading", !.todo = poll.todo]
    <3>1. poll' = PollOf("reading", poll.todo, None, None, "none")
      BY <2>1 DEF NoPoll
    <3>2. QED  BY <3>1 DEF Scans
  <2>2. CASE poll.at = "reporting" /\ Decide("finishing", ByConclusion(outcome[poll.found]))
    <3>1. poll' = PollOf("finishing", poll.todo, poll.run, poll.found,
                         ByConclusion(outcome[poll.found]))
      BY <2>2 DEF Decide
    <3>2. QED  BY <2>2, <3>1 DEF Stores
  <2>3. QED  BY <1>5, <2>1, <2>2 DEF PollReport, PollFinish
<1>6. QED  BY <1>1, <1>2, <1>3, <1>4, <1>5 DEF Poller

LEMMA PollerKeeps ==
    ASSUME Poller
    PROVE  UNCHANGED <<vars, githubVars, exec, sha, hook, trigger, cancel, called, refreshes>>
  BY DEF Poller, Tick, TickDone, PollRead, PollFind, PollStore, PollReport, PollFinish, countVars

(* A workflow run that has ended stays as it is.                           *)
LEMMA CompletedStays ==
    ASSUME LifeTyped, [LifeNext]_allVars, NEW g \in Runs
    PROVE  /\ workflow[g] = "completed" => workflow'[g] = "completed"
           /\ dispatched[g] # 0 => /\ dispatched'[g] = dispatched[g] /\ head'[g] = head[g]
                                   /\ outcome'[g] = outcome[g] /\ workflow'[g] # "none"
<1>1. dispatched[g] # 0 => workflow[g] # "none"
  BY DEF LifeTyped, Sent, Started1
<1>2. workflow[g] = "completed" => dispatched[g] # 0
  BY DEF LifeTyped, Sent
<1>3. CASE UNCHANGED <<head, dispatched, workflow, outcome>>
  BY <1>1, <1>3
<1>4. ASSUME NEW w \in Workers, Sends(w), dispatched[g] # 0
      PROVE  /\ workflow'[g] = workflow[g] /\ dispatched'[g] = dispatched[g]
             /\ head'[g] = head[g] /\ outcome'[g] = outcome[g]
  <2>1. g # job[w]
    BY <1>4, SendsFacts
  <2>2. QED  BY <1>4, <2>1, SendsFacts
<1>5. ASSUME NEW k \in Runs, WorkflowEnds(k)
      PROVE  /\ head' = head /\ dispatched' = dispatched /\ outcome' = outcome
             /\ workflow'[g] = workflow[g] \/ workflow'[g] = "completed"
  <2>1. workflow \in [Runs -> {"none", "in_progress", "completed"}]
    BY DEF LifeTyped, LifeTypeOK
  <2>2. QED  BY <1>5, <2>1 DEF WorkflowEnds
<1>6. QED  BY <1>1, <1>2, <1>3, <1>4, <1>5, WorkflowFrame

LEMMA CandidatesFacts ==
    ASSUME LifeTyped, NEW j, Candidates(j) # {}
    PROVE  LET g == Latest(Candidates(j)) IN
           /\ g \in Runs /\ RepoOf[g] = RepoOf[j] /\ dispatched[g] # 0 /\ head[g] = tracked[j]
<1>1. Candidates(j) \in SUBSET Runs
  BY DEF Candidates
<1>2. Latest(Candidates(j)) \in Candidates(j)
  BY <1>1, LatestFacts
<1>3. QED  BY <1>2 DEF Candidates

LEMMA PollingStep ==
    ASSUME LifeTyped, [LifeNext]_allVars
    PROVE  Polling'
<1> USE DEF Found, Decided
<1>1. Polling /\ LifeTypeOK
  BY DEF LifeTyped
<1>2. CASE Poller
  <2>1. workflow' = workflow
    BY <1>2, PollerKeeps DEF githubVars
  <2>2. ASSUME NEW todo \in SUBSET Runs, Scans(todo) PROVE Polling'
    BY <2>2 DEF Scans, PollOf, Polling
  <2>3. ASSUME NEW j \in Runs, Reads(j) PROVE Polling'
    BY <2>3 DEF Reads, PollOf, Polling
  <2>4. CASE Finds
    <3> DEFINE g == Latest(Candidates(poll.run))
    <3>1. Candidates(poll.run) # {} => g \in Runs
      BY <1>1, CandidatesFacts DEF LifeTyped
    <3>2. \/ poll' = PollOf("reading", poll.todo, poll.run, poll.found, poll.verdict)
          \/ /\ Candidates(poll.run) # {} /\ workflow[g] = "completed"
             /\ poll' = PollOf("completing", poll.todo, poll.run, g, poll.verdict)
      BY <2>4 DEF Finds, Completed
    <3>3. poll.run \in Runs
      BY <1>1, <2>4 DEF Finds, Polling
    <3> HIDE DEF g
    <3>4. QED  BY <2>1, <3>1, <3>2, <3>3 DEF PollOf, Polling
  <2>5. CASE Stores
    <3>1. poll.run \in Runs /\ poll.found \in Runs /\ workflow[poll.found] = "completed"
      BY <1>1, <2>5 DEF Stores, Polling
    <3>2. ByReport(outcome[poll.found]) \in Verdicts /\ ByConclusion(outcome[poll.found]) \in Verdicts
      BY DEF ByReport, ByConclusion, Verdicts
    <3>3. \E a \in Decided, v \in Verdicts : poll' = PollOf(a, poll.todo, poll.run, poll.found, v)
      BY <2>5, <3>2 DEF Stores, Verdicts
    <3>4. QED  BY <2>1, <3>1, <3>3 DEF PollOf, Polling, Verdicts
  <2>6. QED  BY <1>1, <1>2, <2>2, <2>3, <2>4, <2>5, PollKinds
<1>3. CASE LifeCrash \/ LifeExit
  <2>1. poll'.at = "idle"
    BY <1>3 DEF LifeCrash, LifeExit, Forget, NoPoll
  <2>2. QED  BY <2>1 DEF Polling
<1>4. CASE poll' = poll
  BY <1>1, <1>4, CompletedStays DEF Polling
<1>5. QED  BY <1>2, <1>3, <1>4, PollFrame

(* The types, by the part of the backend that acts.                        *)
Rows == /\ status \in [Runs -> {"absent", "queued", "running"} \cup Terminal]
        /\ ghaRunID \in [Runs -> Runs \cup {None}]
        /\ ingested \subseteq Runs
GitHub == /\ tip \in [Repos -> Nat \ {0}]
          /\ head \in [Runs -> Nat] /\ dispatched \in [Runs -> Nat]
          /\ workflow \in [Runs -> {"none", "in_progress", "completed"}]
          /\ outcome \in [Runs -> Outcomes \cup {None}]
Labels == {"lookup", "start", "ensure", "dispatch", "register", "refuse", "fail"}
Memory == /\ exec \in [Workers -> Labels]
          /\ sha \in [Workers -> Nat]
          /\ tracked \in [Runs -> Nat]
          /\ hook \in [Runs -> {"none", "accepted", "stored"}]
          /\ trigger \subseteq Runs
          /\ cancel \in [Runs -> {"none", "seen", "removed", "replied"}]
PollRecord == [at : {"idle", "reading", "looking", "completing", "reporting", "finishing"},
               todo : SUBSET Runs, run : Runs \cup {None},
               found : Runs \cup {None}, verdict : {"none", "passed", "failed"}]
Counts == errors \in Nat /\ called \in Nat /\ refreshes \in Nat
Typed1 == Rows /\ GitHub /\ Memory /\ Counts

LEMMA LifeTypeParts == LifeTypeOK <=> TypeOK /\ Typed1 /\ poll \in PollRecord
  BY DEF LifeTypeOK, Typed1, Rows, GitHub, Labels, Memory, PollRecord, Counts

LEMMA PollTypeStep ==
    ASSUME LifeTyped, [LifeNext]_allVars
    PROVE  poll' \in PollRecord
<1>1. LifeTypeOK
  BY DEF LifeTyped
<1>2. CASE Poller
  <2> USE PollFields DEF Found
  <2>1. ASSUME NEW todo \in SUBSET Runs, Scans(todo) PROVE poll' \in PollRecord
    BY <2>1 DEF Scans, PollOf, PollRecord
  <2>2. ASSUME NEW j \in Runs, Reads(j) PROVE poll' \in PollRecord
    BY <1>1, <2>2 DEF Reads, PollOf, PollRecord
  <2>3. CASE Finds
    <3> DEFINE g == Latest(Candidates(poll.run))
    <3>1. Candidates(poll.run) # {} => g \in Runs
      BY CandidatesFacts DEF LifeTyped
    <3>2. \/ poll' = PollOf("reading", poll.todo, poll.run, poll.found, poll.verdict)
          \/ /\ Candidates(poll.run) # {}
             /\ poll' = PollOf("completing", poll.todo, poll.run, g, poll.verdict)
      BY <2>3 DEF Finds
    <3> HIDE DEF g
    <3>3. QED  BY <1>1, <3>1, <3>2 DEF PollOf, PollRecord
  <2>4. CASE Stores
    <3>1. ByReport(outcome[poll.found]) \in Verdicts /\ ByConclusion(outcome[poll.found]) \in Verdicts
      BY DEF ByReport, ByConclusion, Verdicts
    <3>2. \E a \in Decided, v \in Verdicts : poll' = PollOf(a, poll.todo, poll.run, poll.found, v)
      BY <2>4, <3>1 DEF Stores, Verdicts, Decided
    <3>3. QED  BY <1>1, <3>2 DEF PollOf, PollRecord, Verdicts, Decided
  <2>5. QED  BY <1>1, <1>2, <2>1, <2>2, <2>3, <2>4, PollKinds
<1>3. CASE LifeCrash \/ LifeExit
  BY <1>3 DEF LifeCrash, LifeExit, Forget, NoPoll, PollRecord
<1>4. CASE poll' = poll
  BY <1>1, <1>4, LifeTypeParts
<1>5. QED  BY <1>2, <1>3, <1>4, PollFrame

(* A worker at "working" has a job of the repository it looks at in hand,  *)
(* which was delivered.                                                    *)
LEMMA WorkFacts ==
    ASSUME LifeTyped, NEW w \in Workers, pc[w] = "working"
    PROVE  job[w] \in Runs /\ job[w] \in delivered /\ at[w] = RepoOf[job[w]]
  BY HandOf DEF LifeTyped, Settled, Worked, Holding, InWork

(* Who writes what to the row of a run.                                    *)
Statuses == {"absent", "queued", "running"} \cup Terminal
Writer(j, s) ==
    \/ CreateRun(j) /\ s = "queued"
    \/ CancelFinish(j) /\ s = "cancelled"
    \/ HookFinish(j) /\ s = ByReport(outcome[j])
    \/ (PollReport \/ PollFinish) /\ j = poll.run /\ s = poll.verdict
    \/ \E w \in Workers : /\ j = job[w]
                          /\ \/ MarkStarted(w) /\ s = "running"
                             \/ MarkFailed(w) /\ s = "failed"
Writes(j, s) == status' = [status EXCEPT ![j] = s] /\ Writer(j, s)

LEMMA StatusFrame ==
    ASSUME LifeTyped, [LifeNext]_allVars
    PROVE  status' = status \/ \E j \in Runs, s \in Statuses : Writes(j, s)
<1> DEFINE Written == \E j \in Runs, s \in Statuses : Writes(j, s)
<1>1. ASSUME NEW j \in Runs,
             CancelRead(j) \/ HookRead(j) \/ PushRun(j) \/ CancelRemove(j) \/ HookStore(j)
             \/ WorkflowEnds(j)
      PROVE  status' = status
  BY <1>1 DEF CancelRead, HookRead, PushRun, CancelRemove, HookStore, WorkflowEnds, dbVars
<1>2. ASSUME NEW j \in Runs, CreateRun(j) \/ CancelFinish(j) \/ HookFinish(j)
      PROVE  status' = status \/ Written
  <2>1. ByReport(outcome[j]) \in Statuses
    BY DEF ByReport, Statuses, Terminal
  <2>2. CASE CreateRun(j)
    <3>1. Writes(j, "queued")
      BY <2>2 DEF CreateRun, Writes, Writer
    <3>2. QED  BY <3>1 DEF Statuses
  <2>3. CASE CancelFinish(j)
    <3>1. status' = status \/ Writes(j, "cancelled")
      BY <2>3 DEF CancelFinish, Writes, Writer
    <3>2. QED  BY <3>1 DEF Statuses, Terminal
  <2>4. CASE HookFinish(j)
    <3>1. status' = status \/ Writes(j, ByReport(outcome[j]))
      BY <2>4 DEF HookFinish, Writes, Writer
    <3>2. QED  BY <2>1, <3>1
  <2>5. QED  BY <1>2, <2>2, <2>3, <2>4
<1>3. ASSUME NEW w \in Workers, Worker(w)
      PROVE  status' = status \/ Written
  <2>1. CASE QueueWorker(w) \/ LookUpFork(w) \/ Ensure(w) \/ Dispatch(w) \/ Register(w)
    BY <2>1 DEF QueueWorker, LookUpFork, Ensure, Dispatch, Register, lifeVars, dbVars
  <2>2. CASE MarkStarted(w)
    <3>1. job[w] \in Runs
      BY <2>2, WorkFacts DEF MarkStarted, At
    <3>2. status' = status \/ status' = [status EXCEPT ![job[w]] = "running"]
      BY <2>2 DEF MarkStarted, Update
    <3>3. Writer(job[w], "running")
      BY <2>2 DEF Writer
    <3>4. status' = status \/ Writes(job[w], "running")
      BY <3>2, <3>3 DEF Writes
    <3>5. QED  BY <3>1, <3>4 DEF Statuses
  <2>3. CASE MarkFailed(w)
    <3>1. job[w] \in Runs
      BY <2>3, WorkFacts DEF MarkFailed, At
    <3>2. status' = status \/ Writes(job[w], "failed")
      BY <2>3 DEF MarkFailed, Update, Writes, Writer
    <3>3. QED  BY <3>1, <3>2 DEF Statuses, Terminal
  <2>4. QED  BY <1>3, <2>1, <2>2, <2>3 DEF Worker, ExecuteJob
<1>4. ASSUME Poller
      PROVE  status' = status \/ Written
  <2>1. CASE Tick \/ TickDone \/ (\E j \in Runs : PollRead(j)) \/ PollFind \/ PollStore
    BY <2>1 DEF Tick, TickDone, PollRead, PollFind, PollStore, dbVars
  <2>2. CASE PollReport \/ PollFinish
    <3>1. poll.at \in Decided
      BY <2>2 DEF PollReport, PollFinish, Decided
    <3>2. poll.run \in Runs /\ poll.verdict \in Statuses
      BY <3>1 DEF LifeTyped, Polling, Found, Decided, Verdicts, Statuses, Terminal
    <3>3. status' = status \/ Writes(poll.run, poll.verdict)
      BY <2>2 DEF PollReport, PollFinish, Update, Writes, Writer
    <3>4. QED  BY <3>2, <3>3
  <2>3. QED  BY <1>4, <2>1, <2>2 DEF Poller
<1>5. ASSUME NEW r \in Repos, Expire(r) \/ Refresh(r) PROVE status' = status
  BY <1>5 DEF Expire, Refresh, lifeVars, dbVars
<1>6. LifeCrash \/ LifeExit \/ LifeRestart \/ (Shutdown /\ UNCHANGED lifeVars)
      \/ UNCHANGED allVars => status' = status
  BY DEF LifeCrash, LifeExit, LifeRestart, lifeVars, dbVars, allVars
<1> HIDE DEF Written
<1>7. status' = status \/ Written
  BY <1>1, <1>2, <1>3, <1>4, <1>5, <1>6 DEF LifeNext, Request, Callback
<1>8. QED  BY <1>7 DEF Written

LEMMA RowsStep ==
    ASSUME LifeTyped, [LifeNext]_allVars
    PROVE  Rows'
<1>1. Rows
  BY LifeTypeParts DEF LifeTyped, Typed1
<1>2. status' \in [Runs -> Statuses]
  <2>1. status \in [Runs -> Statuses]
    BY <1>1 DEF Rows, Statuses
  <2>2. ASSUME NEW j \in Runs, NEW s \in Statuses, Writes(j, s) PROVE status' \in [Runs -> Statuses]
    BY <2>1, <2>2 DEF Writes
  <2>3. QED  BY <2>1, <2>2, StatusFrame
<1>3. ghaRunID' \in [Runs -> Runs \cup {None}] /\ ingested' \subseteq Runs
  <2> DEFINE Same == ghaRunID' = ghaRunID /\ ingested' = ingested
             Goal == ghaRunID' \in [Runs -> Runs \cup {None}] /\ ingested' \subseteq Runs
  <2>1. ASSUME NEW j \in Runs,
               CreateRun(j) \/ CancelRead(j) \/ HookRead(j) \/ PushRun(j) \/ CancelRemove(j)
               \/ CancelFinish(j) \/ HookFinish(j) \/ WorkflowEnds(j)
        PROVE  Same
    BY <2>1 DEF CreateRun, CancelRead, HookRead, PushRun, CancelRemove, CancelFinish, HookFinish,
                WorkflowEnds, dbVars
  <2>2. ASSUME NEW j \in Runs, HookStore(j)
        PROVE  ghaRunID' = ghaRunID /\ ingested' \subseteq ingested \cup {j}
    <3>1. ghaRunID' = ghaRunID
      BY <2>2 DEF HookStore
    <3>2. ingested' = ingested \/ ingested' = ingested \cup {j}
      BY <2>2 DEF HookStore
    <3>3. QED  BY <3>1, <3>2
  <2>3. ASSUME NEW w \in Workers, Worker(w)
        PROVE  Same
    BY <2>3 DEF Worker, ExecuteJob, QueueWorker, LookUpFork, MarkStarted, Ensure, Dispatch, Register,
                MarkFailed, lifeVars, dbVars
  <2>4. ASSUME Tick \/ TickDone \/ (\E j \in Runs : PollRead(j)) \/ PollReport \/ PollFinish
        PROVE  Same
    <3>1. ASSUME NEW j \in Runs, PollRead(j) PROVE Same
      BY <3>1 DEF PollRead, dbVars
    <3>2. Tick \/ TickDone \/ PollReport \/ PollFinish => Same
      BY DEF Tick, TickDone, PollReport, PollFinish, dbVars
    <3> HIDE DEF Same
    <3>3. QED  BY <2>4, <3>1, <3>2
  <2>5. CASE PollFind
    <3> DEFINE j == poll.run
               g == Latest(Candidates(j))
    <3>1. ingested' = ingested
      BY <2>5 DEF PollFind
    <3>2. \/ ghaRunID' = ghaRunID
          \/ /\ Candidates(j) # {}
             /\ ghaRunID' = [ghaRunID EXCEPT ![j] = IF @ = None THEN g ELSE @]
      BY <2>5 DEF PollFind
    <3>3. Candidates(j) # {} => g \in Runs
      BY CandidatesFacts
    <3> HIDE DEF j, g
    <3>4. QED  BY <1>1, <3>1, <3>2, <3>3 DEF Rows
  <2>6. CASE PollStore
    <3>1. poll.run \in Runs
      BY <2>6 DEF PollStore, LifeTyped, Polling, Found
    <3>2. ghaRunID' = ghaRunID
      BY <2>6 DEF PollStore
    <3>3. ingested' = ingested \/ ingested' = ingested \cup {poll.run}
      BY <2>6 DEF PollStore
    <3>4. QED  BY <1>1, <3>1, <3>2, <3>3 DEF Rows
  <2>7. ASSUME NEW r \in Repos, Expire(r) \/ Refresh(r) PROVE Same
    BY <2>7 DEF Expire, Refresh, lifeVars, dbVars
  <2>8. LifeCrash \/ LifeExit \/ LifeRestart \/ (Shutdown /\ UNCHANGED lifeVars)
        \/ UNCHANGED allVars => Same
    BY DEF LifeCrash, LifeExit, LifeRestart, lifeVars, dbVars, allVars
  <2>9. Same => Goal
    BY <1>1 DEF Rows
  <2>10. \A j \in Runs : HookStore(j) => Goal
    BY <1>1, <2>2 DEF Rows
  <2>11. CASE PollFind \/ PollStore
    BY <2>5, <2>6, <2>11
  <2> HIDE DEF Same, Goal
  <2>12. Poller => Same \/ PollFind \/ PollStore
    BY <2>4 DEF Poller
  <2>13. Goal
    <3>1. PollFind \/ PollStore => Goal
      BY <2>11 DEF Goal
    <3>2. QED
      BY <2>1, <2>10, <2>3, <2>7, <2>8, <2>9, <2>12, <3>1 DEF LifeNext, Request, Callback
  <2>14. QED  BY <2>13 DEF Goal
<1>4. QED  BY <1>2, <1>3 DEF Rows, Statuses

(* The branch of a fork only ever moves to a new commit.                   *)
LEMMA TipFrame ==
    ASSUME LifeTyped, [LifeNext]_allVars
    PROVE  \/ tip' = tip
           \/ \E r \in Repos : /\ tip' = [tip EXCEPT ![r] = @ + 1]
                               /\ Refresh(r) \/ \E w \in Workers : Ensure(w) /\ at[w] = r
<1> DEFINE Moved == \E r \in Repos : /\ tip' = [tip EXCEPT ![r] = @ + 1]
                                     /\ Refresh(r) \/ \E w \in Workers : Ensure(w) /\ at[w] = r
<1>1. ASSUME NEW j \in Runs,
             CreateRun(j) \/ CancelRead(j) \/ HookRead(j) \/ PushRun(j) \/ CancelRemove(j)
             \/ CancelFinish(j) \/ HookStore(j) \/ HookFinish(j) \/ WorkflowEnds(j)
      PROVE  tip' = tip
  BY <1>1 DEF CreateRun, CancelRead, HookRead, PushRun, CancelRemove, CancelFinish, HookStore,
              HookFinish, WorkflowEnds, githubVars
<1>2. ASSUME NEW w \in Workers, Worker(w)
      PROVE  tip' = tip \/ Moved
  <2>1. CASE Ensure(w)
    <3>1. at[w] \in Repos
      BY <2>1, WorkFacts, RepoOfAssumption DEF Ensure, At
    <3>2. tip' = tip \/ tip' = [tip EXCEPT ![at[w]] = @ + 1]
      BY <2>1 DEF Ensure
    <3>3. QED  BY <2>1, <3>1, <3>2
  <2>2. CASE ~Ensure(w)
    BY <1>2, <2>2 DEF Worker, ExecuteJob, QueueWorker, LookUpFork, MarkStarted, Dispatch, Register,
                      MarkFailed, lifeVars, githubVars
  <2>3. QED  BY <2>1, <2>2
<1>3. ASSUME Poller PROVE tip' = tip
  BY <1>3, PollerKeeps DEF githubVars
<1>4. ASSUME NEW r \in Repos, Expire(r) \/ Refresh(r) PROVE tip' = tip \/ Moved
  <2>1. CASE Refresh(r)
    BY <2>1 DEF Refresh
  <2>2. CASE Expire(r)
    BY <2>2 DEF Expire, lifeVars, githubVars
  <2>3. QED  BY <1>4, <2>1, <2>2
<1>5. LifeCrash \/ LifeExit \/ LifeRestart \/ (Shutdown /\ UNCHANGED lifeVars)
      \/ UNCHANGED allVars => tip' = tip
  BY DEF LifeCrash, LifeExit, LifeRestart, lifeVars, githubVars, allVars
<1> HIDE DEF Moved
<1>6. tip' = tip \/ Moved
  BY <1>1, <1>2, <1>3, <1>4, <1>5 DEF LifeNext, Request, Callback
<1>7. QED  BY <1>6 DEF Moved

LEMMA TrackedFrame ==
    ASSUME LifeTyped, [LifeNext]_allVars
    PROVE  \/ tracked' = tracked
           \/ \E w \in Workers : Register(w)
           \/ \E j \in Runs : Poller /\ tracked' = [tracked EXCEPT ![j] = 0]
           \/ LifeCrash \/ LifeExit \/ LifeRestart
<1> DEFINE Dropped == \E j \in Runs : Poller /\ tracked' = [tracked EXCEPT ![j] = 0]
<1>1. ASSUME NEW j \in Runs,
             CreateRun(j) \/ CancelRead(j) \/ HookRead(j) \/ PushRun(j) \/ CancelRemove(j)
             \/ CancelFinish(j) \/ HookStore(j) \/ HookFinish(j) \/ WorkflowEnds(j)
      PROVE  tracked' = tracked
  BY <1>1 DEF CreateRun, CancelRead, HookRead, PushRun, CancelRemove, CancelFinish, HookStore,
              HookFinish, WorkflowEnds, memoryVars
<1>2. ASSUME NEW w \in Workers, Worker(w)
      PROVE  tracked' = tracked \/ Register(w)
  BY <1>2 DEF Worker, ExecuteJob, QueueWorker, LookUpFork, MarkStarted, Ensure, Dispatch, MarkFailed,
              lifeVars, memoryVars
<1>3. ASSUME Poller PROVE tracked' = tracked \/ Dropped
  <2>1. ASSUME NEW j \in Runs, PollRead(j)
        PROVE  tracked' = tracked \/ tracked' = [tracked EXCEPT ![j] = 0]
    BY <2>1 DEF PollRead
  <2>2. ASSUME PollReport \/ PollFinish
        PROVE  poll.run \in Runs
               /\ (tracked' = tracked \/ tracked' = [tracked EXCEPT ![poll.run] = 0])
    <3>1. poll.run \in Runs
      BY <2>2 DEF PollReport, PollFinish, LifeTyped, Polling, Found
    <3>2. QED  BY <2>2, <3>1 DEF PollReport, PollFinish
  <2>3. Tick \/ TickDone \/ PollFind \/ PollStore => tracked' = tracked
    BY DEF Tick, TickDone, PollFind, PollStore
  <2>4. (\E j \in Runs : PollRead(j)) => tracked' = tracked \/ Dropped
    BY <1>3, <2>1
  <2>5. PollReport \/ PollFinish => tracked' = tracked \/ Dropped
    BY <1>3, <2>2
  <2> HIDE DEF Dropped
  <2>6. QED  BY <1>3, <2>3, <2>4, <2>5 DEF Poller
<1>4. ASSUME NEW r \in Repos, Expire(r) \/ Refresh(r) PROVE tracked' = tracked
  BY <1>4 DEF Expire, Refresh, lifeVars, memoryVars
<1>5. (Shutdown /\ UNCHANGED lifeVars) \/ UNCHANGED allVars => tracked' = tracked
  BY DEF lifeVars, memoryVars, allVars
<1> HIDE DEF Dropped
<1>6. \/ tracked' = tracked \/ Dropped
      \/ \E w \in Workers : Register(w)
      \/ LifeCrash \/ LifeExit \/ LifeRestart
  BY <1>1, <1>2, <1>3, <1>4, <1>5 DEF LifeNext, Request, Callback
<1>7. QED  BY <1>6 DEF Dropped

(* The requests and callbacks in progress.                                 *)
Requests(j) ==
    CreateRun(j) \/ PushRun(j) \/ CancelRead(j) \/ CancelRemove(j) \/ CancelFinish(j)
    \/ HookRead(j) \/ HookStore(j) \/ HookFinish(j)

LEMMA RequestFrame ==
    ASSUME [LifeNext]_allVars
    PROVE  \/ \E j \in Runs : Requests(j)
           \/ LifeCrash \/ LifeExit
           \/ hook' = hook /\ trigger' = trigger /\ cancel' = cancel
<1> DEFINE Same == hook' = hook /\ trigger' = trigger /\ cancel' = cancel
<1>1. ASSUME NEW j \in Runs, WorkflowEnds(j) PROVE Same
  BY <1>1 DEF WorkflowEnds, memoryVars
<1>2. ASSUME NEW w \in Workers, Worker(w) PROVE Same
  BY <1>2 DEF Worker, ExecuteJob, QueueWorker, LookUpFork, MarkStarted, Ensure, Dispatch, Register,
              MarkFailed, lifeVars, memoryVars
<1>3. ASSUME Poller PROVE Same
  BY <1>3, PollerKeeps
<1>4. ASSUME NEW r \in Repos, Expire(r) \/ Refresh(r) PROVE Same
  BY <1>4 DEF Expire, Refresh, lifeVars, memoryVars
<1>5. LifeRestart \/ (Shutdown /\ UNCHANGED lifeVars) \/ UNCHANGED allVars => Same
  BY DEF LifeRestart, lifeVars, memoryVars, allVars
<1> HIDE DEF Same
<1>6. (\E j \in Runs : Requests(j)) \/ LifeCrash \/ LifeExit \/ Same
  BY <1>1, <1>2, <1>3, <1>4, <1>5 DEF LifeNext, Request, Callback, Requests
<1>7. QED  BY <1>6 DEF Same

LEMMA GitHubStep ==
    ASSUME LifeTyped, [LifeNext]_allVars
    PROVE  GitHub'
<1>1. GitHub
  BY LifeTypeParts DEF LifeTyped, Typed1
<1>2. tip' \in [Repos -> Nat \ {0}]
  <2>1. ASSUME NEW r \in Repos, tip' = [tip EXCEPT ![r] = @ + 1] PROVE tip' \in [Repos -> Nat \ {0}]
    BY <1>1, <2>1 DEF GitHub
  <2>2. tip' = tip => tip' \in [Repos -> Nat \ {0}]
    BY <1>1 DEF GitHub
  <2>3. QED  BY <2>1, <2>2, TipFrame
<1>3. /\ head' \in [Runs -> Nat] /\ dispatched' \in [Runs -> Nat]
      /\ workflow' \in [Runs -> {"none", "in_progress", "completed"}]
      /\ outcome' \in [Runs -> Outcomes \cup {None}]
  <2>1. CASE UNCHANGED <<head, dispatched, workflow, outcome>>
    BY <1>1, <2>1 DEF GitHub
  <2>2. ASSUME NEW j \in Runs, WorkflowEnds(j)
        PROVE  /\ head' = head /\ dispatched' = dispatched /\ outcome' = outcome
               /\ workflow' = [workflow EXCEPT ![j] = "completed"]
    BY <2>2 DEF WorkflowEnds
  <2>3. CASE \E j \in Runs : WorkflowEnds(j)
    BY <1>1, <2>2, <2>3 DEF GitHub
  <2>4. ASSUME NEW w \in Workers, Sends(w)
        PROVE  /\ head' \in [Runs -> Nat] /\ dispatched' \in [Runs -> Nat]
               /\ workflow' \in [Runs -> {"none", "in_progress", "completed"}]
               /\ outcome' \in [Runs -> Outcomes \cup {None}]
    <3> DEFINE j == job[w]
    <3>1. j \in Runs /\ tip[RepoOf[j]] \in Nat
      BY <1>1, <2>4, SendsFacts, RepoOfAssumption DEF GitHub
    <3>2. PICK o \in Outcomes : outcome' = [outcome EXCEPT ![j] = o]
      BY <2>4 DEF Sends, StartWorkflow
    <3>3. /\ head' = [head EXCEPT ![j] = tip[RepoOf[j]]]
          /\ dispatched' = [dispatched EXCEPT ![j] = 1 + Cardinality(Started)]
          /\ workflow' = [workflow EXCEPT ![j] = "in_progress"]
      BY <2>4 DEF Sends, StartWorkflow, Started
    <3>4. 1 + Cardinality(Started) \in Nat
      BY StartedIsFinite
    <3> HIDE DEF j
    <3>5. QED  BY <1>1, <3>1, <3>2, <3>3, <3>4 DEF GitHub
  <2>5. QED  BY <2>1, <2>3, <2>4, WorkflowFrame
<1>4. QED  BY <1>2, <1>3 DEF GitHub

LEMMA RequestsTyped ==
    ASSUME LifeTyped, [LifeNext]_allVars
    PROVE  /\ hook' \in [Runs -> {"none", "accepted", "stored"}]
           /\ trigger' \subseteq Runs
           /\ cancel' \in [Runs -> {"none", "seen", "removed", "replied"}]
<1>1. /\ hook \in [Runs -> {"none", "accepted", "stored"}]
      /\ trigger \subseteq Runs
      /\ cancel \in [Runs -> {"none", "seen", "removed", "replied"}]
  BY LifeTypeParts DEF LifeTyped, Typed1, Memory
<1>2. ASSUME NEW j \in Runs, Requests(j)
      PROVE  /\ hook' \in [Runs -> {"none", "accepted", "stored"}]
             /\ trigger' \subseteq Runs
             /\ cancel' \in [Runs -> {"none", "seen", "removed", "replied"}]
  <2>1. CASE CreateRun(j) \/ PushRun(j)
    BY <1>1, <2>1 DEF CreateRun, PushRun
  <2>2. CASE CancelRead(j) \/ CancelRemove(j) \/ CancelFinish(j)
    BY <1>1, <2>2 DEF CancelRead, CancelRemove, CancelFinish
  <2>3. CASE HookRead(j) \/ HookStore(j) \/ HookFinish(j)
    BY <1>1, <2>3 DEF HookRead, HookStore, HookFinish
  <2>4. QED  BY <1>2, <2>1, <2>2, <2>3 DEF Requests
<1>3. LifeCrash \/ LifeExit =>
        /\ hook' \in [Runs -> {"none", "accepted", "stored"}]
        /\ trigger' \subseteq Runs
        /\ cancel' \in [Runs -> {"none", "seen", "removed", "replied"}]
  BY DEF LifeCrash, LifeExit, Forget
<1>4. QED  BY <1>1, <1>2, <1>3, RequestFrame

LEMMA MemoryStep ==
    ASSUME LifeTyped, [LifeNext]_allVars
    PROVE  Memory'
<1>1. exec \in [Workers -> Labels] /\ sha \in [Workers -> Nat] /\ tracked \in [Runs -> Nat]
  BY LifeTypeParts DEF LifeTyped, Typed1, Memory
<1>2. exec' \in [Workers -> Labels]
  <2>1. ASSUME NEW w \in Workers, ExecuteJob(w) PROVE exec' \in [Workers -> Labels]
    BY <1>1, <2>1 DEF ExecuteJob, LookUpFork, MarkStarted, Ensure, Dispatch, Register, MarkFailed, Then,
                      Labels
  <2>2. ASSUME NEW w \in Workers, QueueWorker(w) PROVE exec' = exec
    BY <2>2 DEF QueueWorker, lifeVars, memoryVars
  <2>3. LifeCrash \/ LifeExit => exec' \in [Workers -> Labels]
    BY DEF LifeCrash, LifeExit, Forget, Labels
  <2>4. QED  BY <1>1, <2>1, <2>2, <2>3, ExecFrame
<1>3. sha' \in [Workers -> Nat]
  <2>1. ASSUME NEW w \in Workers, ExecuteJob(w) PROVE sha' \in [Workers -> Nat]
    <3>1. CASE Ensure(w)
      <4>1. tip[at[w]] + 1 \in Nat
        BY <3>1, WorkFacts, RepoOfAssumption, LifeTypeParts
        DEF Ensure, At, LifeTyped, Typed1, GitHub
      <4>2. sha' = sha \/ sha' = [sha EXCEPT ![w] = tip[at[w]] + 1]
        BY <3>1 DEF Ensure
      <4>3. QED  BY <1>1, <4>1, <4>2
    <3>2. CASE ~Ensure(w)
      <4>1. sha' = sha \/ sha' = [sha EXCEPT ![w] = 0]
        BY <2>1, <3>2 DEF ExecuteJob, LookUpFork, MarkStarted, Dispatch, Register, MarkFailed
      <4>2. QED  BY <1>1, <4>1
    <3>3. QED  BY <3>1, <3>2
  <2>2. ASSUME NEW w \in Workers, QueueWorker(w) PROVE sha' = sha
    BY <2>2 DEF QueueWorker, lifeVars, memoryVars
  <2>3. LifeCrash \/ LifeExit => sha' \in [Workers -> Nat]
    BY DEF LifeCrash, LifeExit, Forget
  <2>4. QED  BY <1>1, <2>1, <2>2, <2>3, ExecFrame
<1>4. tracked' \in [Runs -> Nat]
  <2>1. ASSUME NEW w \in Workers, Register(w) PROVE tracked' \in [Runs -> Nat]
    BY <1>1, <2>1 DEF Register
  <2>2. ASSUME NEW j \in Runs, tracked' = [tracked EXCEPT ![j] = 0] PROVE tracked' \in [Runs -> Nat]
    BY <1>1, <2>2
  <2>3. LifeCrash \/ LifeExit \/ LifeRestart => tracked' \in [Runs -> Nat]
    BY DEF LifeCrash, LifeExit, LifeRestart, Forget, Upstream
  <2>4. QED  BY <1>1, <2>1, <2>2, <2>3, TrackedFrame
<1>5. QED  BY <1>2, <1>3, <1>4, RequestsTyped DEF Memory

(* A call that failed is counted.                                          *)
LEMMA ErrorsFrame ==
    ASSUME [LifeNext]_allVars
    PROVE  errors' = errors \/ \E kind : Error(kind)
<1>1. ASSUME NEW j \in Runs,
             CreateRun(j) \/ CancelRead(j) \/ HookRead(j) \/ PushRun(j) \/ CancelRemove(j)
             \/ CancelFinish(j) \/ HookStore(j) \/ HookFinish(j) \/ WorkflowEnds(j)
      PROVE  errors' = errors \/ \E kind : Error(kind)
  BY <1>1 DEF CreateRun, CancelRead, HookRead, PushRun, CancelRemove, CancelFinish, HookStore,
              HookFinish, WorkflowEnds, countVars
<1>2. ASSUME NEW w \in Workers, Worker(w)
      PROVE  errors' = errors \/ \E kind : Error(kind)
  <2>1. CASE MarkStarted(w) \/ MarkFailed(w)
    BY <2>1 DEF MarkStarted, MarkFailed, Update
  <2>2. CASE LookUpFork(w) \/ Ensure(w) \/ Register(w) \/ QueueWorker(w)
    BY <2>2 DEF LookUpFork, Ensure, Register, QueueWorker, lifeVars, countVars
  <2>3. CASE Dispatch(w)
    BY <2>3 DEF Dispatch, DispatchWorkflow
  <2>4. QED  BY <1>2, <2>1, <2>2, <2>3 DEF Worker, ExecuteJob
<1>3. ASSUME Poller
      PROVE  errors' = errors \/ \E kind : Error(kind)
  <2>1. CASE PollStore
    BY <2>1 DEF PollStore, Artifact
  <2>2. CASE PollFinish \/ PollReport \/ PollFind
    BY <2>2 DEF PollFinish, PollReport, PollFind, Update
  <2>3. ASSUME NEW j \in Runs, PollRead(j) PROVE errors' = errors
    BY <2>3 DEF PollRead, countVars
  <2>4. Tick \/ TickDone => errors' = errors
    BY DEF Tick, TickDone, countVars
  <2>5. QED  BY <1>3, <2>1, <2>2, <2>3, <2>4 DEF Poller
<1>4. ASSUME NEW r \in Repos, Expire(r) \/ Refresh(r) PROVE errors' = errors
  BY <1>4 DEF Expire, Refresh, lifeVars, countVars
<1>5. LifeCrash \/ LifeExit \/ LifeRestart \/ (Shutdown /\ UNCHANGED lifeVars)
      \/ UNCHANGED allVars => errors' = errors
  BY DEF LifeCrash, LifeExit, LifeRestart, lifeVars, countVars, allVars
<1>6. QED
  BY <1>1, <1>2, <1>3, <1>4, <1>5 DEF LifeNext, Request, Callback

LEMMA CountsStep ==
    ASSUME LifeTyped, [LifeNext]_allVars
    PROVE  Counts'
<1>1. Counts
  BY LifeTypeParts DEF LifeTyped, Typed1
<1>2. \A kind : Error(kind) => errors' \in Nat
  BY <1>1 DEF Error, Counts
<1>3. errors' \in Nat
  BY <1>1, <1>2, ErrorsFrame DEF Counts
<1>4. called' \in Nat /\ refreshes' \in Nat
  <2> DEFINE Same == called' = called /\ refreshes' = refreshes
  <2>1. ASSUME NEW j \in Runs,
               CreateRun(j) \/ CancelRead(j) \/ PushRun(j) \/ CancelRemove(j)
               \/ CancelFinish(j) \/ HookStore(j) \/ HookFinish(j) \/ WorkflowEnds(j)
        PROVE  Same
    BY <2>1 DEF CreateRun, CancelRead, PushRun, CancelRemove, CancelFinish, HookStore,
                HookFinish, WorkflowEnds, countVars
  <2>2. ASSUME NEW j \in Runs, HookRead(j)
        PROVE  called' = called + 1 /\ refreshes' = refreshes
    BY <2>2 DEF HookRead
  <2>3. ASSUME NEW w \in Workers, Worker(w)
        PROVE  Same
    BY <2>3 DEF Worker, ExecuteJob, QueueWorker, LookUpFork, MarkStarted, Ensure, Dispatch, Register,
                MarkFailed, lifeVars, countVars
  <2>4. ASSUME Poller PROVE Same
    BY <2>4, PollerKeeps
  <2>5. ASSUME NEW r \in Repos, Refresh(r)
        PROVE  called' = called /\ refreshes' = refreshes + 1
    BY <2>5 DEF Refresh
  <2>6. ASSUME NEW r \in Repos, Expire(r) PROVE Same
    BY <2>6 DEF Expire, lifeVars, countVars
  <2>7. LifeCrash \/ LifeExit \/ LifeRestart \/ (Shutdown /\ UNCHANGED lifeVars)
        \/ UNCHANGED allVars => Same
    BY DEF LifeCrash, LifeExit, LifeRestart, lifeVars, countVars, allVars
  <2> HIDE DEF Same
  <2>8. \/ Same
        \/ called' = called + 1 /\ refreshes' = refreshes
        \/ called' = called /\ refreshes' = refreshes + 1
    BY <2>1, <2>2, <2>3, <2>4, <2>5, <2>6, <2>7 DEF LifeNext, Request, Callback
  <2>9. QED  BY <1>1, <2>8 DEF Counts, Same
<1>5. QED  BY <1>3, <1>4 DEF Counts

LEMMA LifeTypedStep == LifeTyped /\ [LifeNext]_allVars => LifeTyped'
<1> SUFFICES ASSUME LifeTyped, [LifeNext]_allVars PROVE LifeTyped'
  OBVIOUS
<1>1. Settled'
  BY LifeQueueStep, SettledStep DEF LifeTyped
<1>2. Typed1'
  BY RowsStep, GitHubStep, MemoryStep, CountsStep DEF Typed1
<1>3. TypeOK'
  BY <1>1 DEF Settled, Unique, Typed
<1>4. LifeTypeOK'
  <2>1. (TypeOK /\ Typed1 /\ poll \in PollRecord)'
    BY <1>2, <1>3, PollTypeStep
  <2>2. (TypeOK /\ Typed1 /\ poll \in PollRecord)' => LifeTypeOK'
    BY LifeTypeParts, PTL
  <2>3. QED  BY <2>1, <2>2
<1>5. QED
  BY <1>1, <1>4, StagesStep, NumberingStep, SentStep, PollingStep DEF LifeTyped

LEMMA LifeTypedAlways == LifeSpec => []LifeTyped
  BY LifeTypedInit, LifeTypedStep, PTL DEF LifeSpec

(* Every variable of a run's life keeps its type: in particular a worker   *)
(* writes to the row of a job and never of an empty hand, findWorkflowRun  *)
(* stores the number of a real workflow run, and the poller decides on a   *)
(* completed one and writes "passed" or "failed", never "none".            *)
THEOREM LifeTypes == LifeSpec => []LifeTypeOK
<1>1. LifeTyped => LifeTypeOK
  BY DEF LifeTyped
<1>2. QED  BY <1>1, LifeTypedAlways, PTL

-----------------------------------------------------------------------------
(* What the rows, the requests and the poller remember of a run.           *)

(* A callback in progress is about a workflow that left a report.          *)
Called == \A j \in Runs : hook[j] # "none" => workflow[j] # "none" /\ outcome[j].report # "none"

(* Nothing but its executor makes a run "running", and only after that is  *)
(* it tracked, polled, passed or failed.                                   *)
Ran ==
    /\ \A j \in Runs : status[j] \in {"running", "passed", "failed"} \/ tracked[j] # 0
                         => j \in delivered
    /\ poll.todo \subseteq delivered
    /\ poll.at \in Found \cup {"looking"} => poll.run \in delivered

(* "cancelled" is written by the cancel of the run; before its job was     *)
(* delivered nobody writes over it.                                        *)
Asked ==
    \A j \in Runs :
      /\ status[j] = "cancelled" => cancel[j] = "replied"
      /\ cancel[j] = "replied" /\ j \notin delivered => status[j] = "cancelled"
      /\ ticket[j] # 0 \/ j \in trigger => status[j] # "absent"

LifeKept == LifeTyped /\ Called /\ Ran /\ Asked

LEMMA LifeKeptInit == LifeInit => LifeKept
<1>1. LifeInit => Called /\ Ran /\ Asked
  BY DEF LifeInit, Init, Called, Ran, Asked, NoPoll, Found
<1>2. QED  BY <1>1, LifeTypedInit DEF LifeKept

LEMMA CalledStep ==
    ASSUME LifeKept, [LifeNext]_allVars
    PROVE  Called'
<1> SUFFICES ASSUME NEW j \in Runs, hook'[j] # "none"
             PROVE  workflow'[j] # "none" /\ outcome'[j].report # "none"
  BY DEF Called
<1>1. hook \in [Runs -> {"none", "accepted", "stored"}]
  BY LifeTypeParts DEF LifeKept, LifeTyped, Typed1, Memory
<1>2. workflow[j] # "none" /\ outcome[j].report # "none"
  <2>1. CASE hook[j] # "none"
    BY <2>1 DEF LifeKept, Called
  <2>2. CASE hook[j] = "none"
    <3>1. PICK k \in Runs : Requests(k)
      <4>1. ~(hook' = hook)
        BY <2>2
      <4>2. ~LifeCrash /\ ~LifeExit
        BY DEF LifeCrash, LifeExit, Forget
      <4>3. QED  BY <4>1, <4>2, RequestFrame
    <3>2. HookRead(k) /\ k = j
      <4>1. CASE CreateRun(k) \/ PushRun(k) \/ CancelRead(k) \/ CancelRemove(k) \/ CancelFinish(k)
        BY <2>2, <4>1 DEF CreateRun, PushRun, CancelRead, CancelRemove, CancelFinish
      <4>2. CASE HookStore(k) \/ HookFinish(k)
        BY <1>1, <2>2, <4>2 DEF HookStore, HookFinish
      <4>3. CASE HookRead(k)
        BY <1>1, <2>2, <4>3 DEF HookRead
      <4>4. QED  BY <3>1, <4>1, <4>2, <4>3 DEF Requests
    <3>3. QED  BY <3>2 DEF HookRead
  <2>3. QED  BY <2>1, <2>2
<1>3. dispatched[j] # 0
  BY <1>2 DEF LifeKept, LifeTyped, Sent
<1>4. QED  BY <1>2, <1>3, CompletedStays DEF LifeKept

(* Who may write to the row of a run that was never delivered.             *)
LEMMA EarlyWriters ==
    ASSUME LifeKept, [LifeNext]_allVars, NEW j \in Runs, status'[j] # status[j]
    PROVE  \/ j \in delivered
           \/ CreateRun(j) /\ status'[j] = "queued"
           \/ CancelFinish(j) /\ status'[j] = "cancelled"
<1>1. status \in [Runs -> Statuses]
  BY LifeTypeParts DEF LifeKept, LifeTyped, Typed1, Rows, Statuses
<1>2. PICK k \in Runs, s \in Statuses : Writes(k, s)
  BY StatusFrame DEF LifeKept
<1>3. k = j /\ status'[j] = s /\ Writer(j, s)
  BY <1>1, <1>2 DEF Writes
<1>4. HookFinish(j) => j \in delivered
  <2>1. HookFinish(j) => workflow[j] # "none"
    BY DEF HookFinish, LifeKept, Called
  <2>2. QED  BY <2>1 DEF LifeKept, LifeTyped, Sent, Started1
<1>5. (PollReport \/ PollFinish) /\ j = poll.run => j \in delivered
  BY DEF PollReport, PollFinish, LifeKept, Ran, Found
<1>6. ASSUME NEW w \in Workers, MarkStarted(w) \/ MarkFailed(w) PROVE job[w] \in delivered
  BY <1>6, WorkFacts DEF MarkStarted, MarkFailed, At, LifeKept
<1>7. QED  BY <1>3, <1>4, <1>5, <1>6 DEF Writer

(* Only an executor says "running", and only it, the poller or a callback  *)
(* "passed" or "failed".                                                   *)
LEMMA VerdictWriters ==
    ASSUME LifeKept, [LifeNext]_allVars, NEW j \in Runs, status'[j] # status[j],
           status'[j] = "cancelled"
    PROVE  CancelFinish(j)
<1>1. status \in [Runs -> Statuses]
  BY LifeTypeParts DEF LifeKept, LifeTyped, Typed1, Rows, Statuses
<1>2. PICK k \in Runs, s \in Statuses : Writes(k, s)
  BY StatusFrame DEF LifeKept
<1>3. k = j /\ s = "cancelled" /\ Writer(j, s)
  BY <1>1, <1>2 DEF Writes
<1>4. PollReport \/ PollFinish => poll.verdict # "cancelled"
  BY DEF PollReport, PollFinish, LifeKept, LifeTyped, Polling, Decided, Verdicts
<1>5. QED  BY <1>3, <1>4 DEF Writer, ByReport

LEMMA RanStep ==
    ASSUME LifeKept, [LifeNext]_allVars
    PROVE  Ran'
<1>1. Ran /\ LifeTyped
  BY DEF LifeKept
<1>2. delivered \subseteq delivered'
  BY DeliveredGrows
<1>3. tracked \in [Runs -> Nat]
  BY LifeTypeParts DEF LifeKept, LifeTyped, Typed1, Memory
<1>4. ASSUME NEW j \in Runs, status'[j] \in {"running", "passed", "failed"}
      PROVE  j \in delivered
  BY <1>1, <1>4, EarlyWriters DEF Ran
<1>5. ASSUME NEW j \in Runs, tracked'[j] # 0
      PROVE  j \in delivered
  <2>1. CASE tracked' = tracked
    BY <1>1, <1>5, <2>1 DEF Ran
  <2>2. ASSUME NEW w \in Workers, Register(w) PROVE j \in delivered
    <3>1. job[w] \in delivered
      BY <1>1, <2>2, WorkFacts DEF Register, At
    <3>2. j = job[w] \/ tracked[j] # 0
      BY <1>3, <1>5, <2>2 DEF Register
    <3>3. QED  BY <1>1, <3>1, <3>2 DEF Ran
  <2>3. ASSUME NEW k \in Runs, tracked' = [tracked EXCEPT ![k] = 0] PROVE j \in delivered
    BY <1>1, <1>3, <1>5, <2>3 DEF Ran
  <2>4. CASE LifeCrash \/ LifeExit
    BY <1>5, <2>4 DEF LifeCrash, LifeExit, Forget
  <2>5. CASE LifeRestart
    BY <1>1, <1>5, <2>5 DEF LifeRestart, Recoverable, Ran
  <2>6. QED  BY <1>1, <2>1, <2>2, <2>3, <2>4, <2>5, TrackedFrame
<1>6. /\ poll'.todo \subseteq delivered
      /\ poll'.at \in Found \cup {"looking"} => poll'.run \in delivered
  <2> USE DEF Found
  <2>1. CASE Poller
    <3> DEFINE Goal == /\ poll'.todo \subseteq delivered
                       /\ poll'.at \in Found \cup {"looking"} => poll'.run \in delivered
    <3>1. ASSUME NEW todo \in SUBSET Runs, Scans(todo) PROVE Goal
      <4>1. todo \subseteq delivered
        BY <1>1, <3>1 DEF Scans, Ran
      <4>2. QED  BY <3>1, <4>1 DEF Scans, PollOf
    <3>2. ASSUME NEW j \in Runs, Reads(j) PROVE Goal
      BY <1>1, <3>2 DEF Reads, PollOf, Ran
    <3>3. Finds => Goal
      BY <1>1 DEF Finds, PollOf, Ran
    <3>4. Stores => Goal
      BY <1>1 DEF Stores, PollOf, Ran
    <3> HIDE DEF Goal
    <3>5. Goal
      BY <1>1, <2>1, <3>1, <3>2, <3>3, <3>4, PollKinds DEF LifeTyped
    <3>6. QED  BY <3>5 DEF Goal
  <2>2. CASE LifeCrash \/ LifeExit
    BY <2>2 DEF LifeCrash, LifeExit, Forget, NoPoll
  <2>3. CASE poll' = poll
    BY <1>1, <2>3 DEF Ran
  <2>4. QED  BY <2>1, <2>2, <2>3, PollFrame
<1>7. QED  BY <1>2, <1>4, <1>5, <1>6 DEF Ran

(* Who puts jobs into the lists and takes them out.                        *)
LEMMA ListFrame ==
    ASSUME [LifeNext]_allVars
    PROVE  \/ \E j \in Runs : PushRun(j) /\ Push(j)
           \/ \E j \in Runs : CancelRemove(j) /\ RemoveByRunID(j)
           \/ \E w \in Workers : RPop(w) \/ Requeue(w)
           \/ queue' = queue /\ ticket' = ticket
<1> DEFINE Same == queue' = queue /\ ticket' = ticket
<1> USE DEF vars, redisVars, auditVars
<1>1. ASSUME NEW j \in Runs,
             CreateRun(j) \/ CancelRead(j) \/ HookRead(j) \/ CancelFinish(j) \/ HookStore(j)
             \/ HookFinish(j) \/ WorkflowEnds(j)
      PROVE  Same
  BY <1>1 DEF CreateRun, CancelRead, HookRead, CancelFinish, HookStore, HookFinish, WorkflowEnds
<1>2. ASSUME NEW j \in Runs, PushRun(j) PROVE Push(j) \/ Same
  BY <1>2 DEF PushRun
<1>3. ASSUME NEW j \in Runs, CancelRemove(j) PROVE RemoveByRunID(j) \/ Same
  BY <1>3 DEF CancelRemove
<1>4. ASSUME NEW w \in Workers, Worker(w) PROVE RPop(w) \/ Requeue(w) \/ Same
  <2>1. CASE QueueWorker(w)
    BY <2>1 DEF QueueWorker, Pop, Ack, Stop, Scan, Exists, SetLock, Track, AckDel, AckRem
  <2>2. CASE ExecuteJob(w)
    BY <2>2 DEF ExecuteJob, LookUpFork, MarkStarted, Ensure, Dispatch, Register, MarkFailed, Work
  <2>3. QED  BY <1>4, <2>1, <2>2 DEF Worker
<1>5. ASSUME Poller PROVE Same
  BY <1>5, PollerKeeps
<1>6. ASSUME NEW r \in Repos, Expire(r) \/ Refresh(r) PROVE Same
  BY <1>6 DEF Expire, Refresh, LockExpire
<1>7. LifeCrash \/ LifeExit \/ LifeRestart \/ (Shutdown /\ UNCHANGED lifeVars)
      \/ UNCHANGED allVars => Same
  BY DEF LifeCrash, LifeExit, LifeRestart, Crash, Exit, Restart, Shutdown, allVars
<1> HIDE DEF Same
<1>8. \/ \E j \in Runs : PushRun(j) /\ Push(j)
      \/ \E j \in Runs : CancelRemove(j) /\ RemoveByRunID(j)
      \/ \E w \in Workers : RPop(w) \/ Requeue(w)
      \/ Same
  BY <1>1, <1>2, <1>3, <1>4, <1>5, <1>6, <1>7 DEF LifeNext, Request, Callback
<1>9. QED  BY <1>8 DEF Same

LEMMA CancelFrame ==
    ASSUME LifeTyped, [LifeNext]_allVars, NEW j \in Runs, cancel'[j] # cancel[j]
    PROVE  \/ CancelRead(j) /\ cancel[j] = "none"
           \/ CancelRemove(j) /\ cancel[j] = "seen" /\ cancel'[j] = "removed"
           \/ CancelFinish(j) /\ cancel[j] = "removed" /\ cancel'[j] \in {"none", "replied"}
           \/ (LifeCrash \/ LifeExit) /\ cancel[j] # "replied" /\ cancel'[j] = "none"
<1>1. cancel \in [Runs -> {"none", "seen", "removed", "replied"}]
  BY LifeTypeParts DEF LifeTyped, Typed1, Memory
<1>2. CASE LifeCrash \/ LifeExit
  <2>1. cancel' = [k \in Runs |-> IF cancel[k] = "replied" THEN "replied" ELSE "none"]
    BY <1>2 DEF LifeCrash, LifeExit, Forget
  <2>2. QED  BY <1>2, <2>1
<1>3. ASSUME NEW k \in Runs, Requests(k)
      PROVE  \/ CancelRead(j) /\ cancel[j] = "none"
             \/ CancelRemove(j) /\ cancel[j] = "seen" /\ cancel'[j] = "removed"
             \/ CancelFinish(j) /\ cancel[j] = "removed" /\ cancel'[j] \in {"none", "replied"}
  <2>1. CASE CreateRun(k) \/ PushRun(k) \/ HookRead(k) \/ HookStore(k) \/ HookFinish(k)
    BY <2>1 DEF CreateRun, PushRun, HookRead, HookStore, HookFinish
  <2>2. CASE CancelRead(k)
    BY <1>1, <2>2 DEF CancelRead
  <2>3. CASE CancelRemove(k)
    BY <1>1, <2>3 DEF CancelRemove
  <2>4. CASE CancelFinish(k)
    BY <1>1, <2>4 DEF CancelFinish
  <2>5. QED  BY <1>3, <2>1, <2>2, <2>3, <2>4 DEF Requests
<1>4. QED  BY <1>2, <1>3, RequestFrame

LEMMA AskedStep ==
    ASSUME LifeKept, [LifeNext]_allVars
    PROVE  Asked'
<1> SUFFICES ASSUME NEW j \in Runs
             PROVE  /\ status'[j] = "cancelled" => cancel'[j] = "replied"
                    /\ cancel'[j] = "replied" /\ j \notin delivered' => status'[j] = "cancelled"
                    /\ ticket'[j] # 0 \/ j \in trigger' => status'[j] # "absent"
  BY DEF Asked
<1>1. /\ status[j] = "cancelled" => cancel[j] = "replied"
      /\ cancel[j] = "replied" /\ j \notin delivered => status[j] = "cancelled"
      /\ ticket[j] # 0 \/ j \in trigger => status[j] # "absent"
  BY DEF LifeKept, Asked
<1>2. delivered \subseteq delivered'
  BY DeliveredGrows
<1>3. /\ status \in [Runs -> Statuses]
      /\ cancel \in [Runs -> {"none", "seen", "removed", "replied"}]
      /\ ticket \in [Runs -> Nat]
  BY LifeTypeParts DEF LifeKept, LifeTyped, Typed1, Rows, Memory, Statuses, TypeOK
<1>4. ASSUME CancelFinish(j)
      PROVE  \/ cancel'[j] = "replied" /\ status'[j] = "cancelled"
             \/ cancel'[j] = "none" /\ status'[j] = status[j]
  BY <1>3, <1>4 DEF CancelFinish
<1>5. ASSUME status'[j] = "cancelled" PROVE cancel'[j] = "replied"
  <2>1. CASE status[j] = "cancelled"
    <3>1. cancel[j] = "replied"
      BY <1>1, <2>1
    <3>2. cancel'[j] = cancel[j]
      BY <3>1, CancelFrame DEF LifeKept
    <3>3. QED  BY <3>1, <3>2
  <2>2. CASE status[j] # "cancelled"
    <3>1. CancelFinish(j)
      BY <1>5, <2>2, VerdictWriters
    <3>2. QED  BY <1>4, <1>5, <2>2, <3>1
  <2>3. QED  BY <2>1, <2>2
<1>6. ASSUME cancel'[j] = "replied", j \notin delivered' PROVE status'[j] = "cancelled"
  <2>1. j \notin delivered
    BY <1>2, <1>6
  <2>2. CASE cancel[j] = "replied"
    <3>1. status[j] = "cancelled"
      BY <1>1, <2>1, <2>2
    <3>2. ~CreateRun(j) /\ ~CancelFinish(j)
      BY <2>2, <3>1 DEF CreateRun, CancelFinish
    <3>3. QED  BY <2>1, <3>1, <3>2, EarlyWriters
  <2>3. CASE cancel[j] # "replied"
    <3>1. (CancelRead(j) /\ cancel[j] = "none") \/ CancelFinish(j)
      BY <1>6, <2>3, CancelFrame DEF LifeKept
    <3>2. CASE CancelRead(j)
      <4>1. status[j] # "queued"
        BY <1>3, <1>6, <3>2 DEF CancelRead
      <4>2. status[j] = "running"
        BY <3>2, <4>1 DEF CancelRead
      <4>3. QED  BY <2>1, <4>2 DEF LifeKept, Ran
    <3>3. CASE CancelFinish(j)
      BY <1>4, <1>6, <3>3
    <3>4. QED  BY <3>1, <3>2, <3>3
  <2>4. QED  BY <2>2, <2>3
<1>7. ASSUME ticket'[j] # 0 \/ j \in trigger' PROVE status'[j] # "absent"
  <2>1. ticket[j] # 0 \/ j \in trigger \/ CreateRun(j)
    <3>1. ASSUME ticket'[j] # 0 PROVE ticket[j] # 0 \/ j \in trigger
      <4>1. ASSUME NEW k \in Runs, PushRun(k), Push(k), k # j PROVE ticket'[j] = ticket[j]
        BY <1>3, <4>1 DEF Push
      <4>2. ASSUME NEW k \in Runs, RemoveByRunID(k) PROVE ticket' = ticket
        BY <4>2 DEF RemoveByRunID, auditVars
      <4>3. ASSUME NEW w \in Workers, RPop(w) \/ Requeue(w) PROVE ticket' = ticket
        BY <4>3 DEF RPop, Requeue, auditVars
      <4>4. PushRun(j) => j \in trigger
        BY DEF PushRun
      <4>5. QED  BY <3>1, <4>1, <4>2, <4>3, <4>4, ListFrame
    <3>2. ASSUME j \in trigger', j \notin trigger PROVE CreateRun(j)
      <4>1. ~LifeCrash /\ ~LifeExit
        BY <3>2 DEF LifeCrash, LifeExit, Forget
      <4>2. PICK k \in Runs : Requests(k)
        BY <3>2, <4>1, RequestFrame
      <4>3. CreateRun(k) /\ k = j
        BY <3>2, <4>2 DEF Requests, CreateRun, PushRun, CancelRead, CancelRemove, CancelFinish,
                          HookRead, HookStore, HookFinish
      <4>4. QED  BY <4>3
    <3>3. QED  BY <1>7, <3>1, <3>2
  <2>2. CreateRun(j) => status'[j] = "queued"
    BY <1>3 DEF CreateRun
  <2>3. CASE status'[j] = status[j]
    BY <1>1, <2>1, <2>2, <2>3
  <2>4. CASE status'[j] # status[j]
    <3>1. PICK k \in Runs, s \in Statuses : Writes(k, s)
      BY <2>4, StatusFrame DEF LifeKept
    <3>2. k = j /\ status'[j] = s /\ Writer(j, s)
      BY <1>3, <2>4, <3>1 DEF Writes
    <3>3. PollReport \/ PollFinish => poll.verdict # "absent"
      BY DEF PollReport, PollFinish, LifeKept, LifeTyped, Polling, Decided, Verdicts
    <3>4. QED  BY <3>2, <3>3 DEF Writer, ByReport
  <2>5. QED  BY <2>3, <2>4
<1>8. QED  BY <1>5, <1>6, <1>7

LEMMA LifeKeptStep == LifeKept /\ [LifeNext]_allVars => LifeKept'
  BY LifeTypedStep, CalledStep, RanStep, AskedStep DEF LifeKept

LEMMA LifeKeptAlways == LifeSpec => []LifeKept
  BY LifeKeptInit, LifeKeptStep, PTL DEF LifeSpec

-----------------------------------------------------------------------------
(* The cancel and the job.                                                 *)

(* The job of a run was pushed, nobody ever got it, and it is nowhere.     *)
Gone(j) == ticket[j] # 0 /\ j \notin delivered /\ ~InList(j) /\ ~InHand(j)

CancelledBefore ==
    /\ Undisturbed => mode = "running"
    /\ Undisturbed /\ errors = 0 => \A j \in Runs : Gone(j) => cancel[j] \in {"removed", "replied"}

LEMMA WithdrawnInit == LifeInit => CancelledBefore
  BY DEF LifeInit, Init, CancelledBefore, Gone

(* As long as nothing fails a job that goes away was removed by its cancel.*)
LEMMA CancelTakes ==
    ASSUME LifeTyped, LifeTyped', [LifeNext]_allVars, Undisturbed', Undisturbed => mode = "running",
           NEW j \in Runs, j \notin delivered, InHand(j) \/ InList(j), ~(InHand(j)' \/ InList(j)')
    PROVE  CancelRemove(j)
<1>1. Settled /\ Settled' /\ Unique /\ Typed /\ TypeOK
  BY DEF LifeTyped, Settled, Unique, Typed
<1>2. [Next]_vars
  BY LifeQueueStep
<1>3. /\ mode = "running" /\ faults' = faults
      /\ ~Crash /\ ~Exit /\ ~Shutdown /\ ~Restart /\ \A r \in Repos : ~Evict(r)
  BY <1>1, <1>2, StaysCalm
<1>4. \A kind : ~Fails(kind)
  BY <1>1, <1>3, NoFailure
<1>5. RemoveByRunID(j)
  BY <1>1, <1>2, <1>3, <1>4, LossStep DEF Mislays
<1>6. ticket' = ticket /\ pc' = pc /\ job' = job
  BY <1>5 DEF RemoveByRunID, auditVars, workerVars
<1>7. queue' # queue
  <2>1. queue' = queue /\ job' = job => (InList(j)' <=> InList(j)) /\ (InHand(j)' <=> InHand(j))
    BY DEF InList, InHand
  <2>2. QED  BY <1>6, <2>1
<1>8. ASSUME NEW k \in Runs, Push(k) PROVE FALSE
  <2>1. ticket'[k] = 1 + Cardinality(Pushed) /\ ticket[k] = 0
    BY <1>1, <1>8 DEF Push, TypeOK
  <2>2. QED  BY <1>1, <1>6, <2>1, TicketIsNat
<1>9. ASSUME NEW w \in Workers, RPop(w) \/ Requeue(w) PROVE FALSE
  BY <1>1, <1>6, <1>9 DEF RPop, Requeue, NextKey, Goto, TypeOK
<1>10. PICK k \in Runs : CancelRemove(k) /\ RemoveByRunID(k)
  BY <1>7, <1>8, <1>9, ListFrame
<1>11. k = j
  BY <1>1, <1>10, RemovePlaces
<1>12. QED  BY <1>10, <1>11

LEMMA WithdrawnStep ==
    ASSUME LifeKept, LifeKept', CancelledBefore, [LifeNext]_allVars
    PROVE  CancelledBefore'
<1>1. LifeTyped /\ LifeTyped' /\ Unique /\ TypeOK
  BY DEF LifeKept, LifeTyped, Settled, Unique, Typed
<1>2. [Next]_vars
  BY LifeQueueStep
<1>3. Undisturbed => mode = "running"
  BY DEF CancelledBefore
<1>4. ASSUME Undisturbed'
      PROVE  /\ mode' = "running" /\ Undisturbed
             /\ ~Crash /\ ~Exit
  BY <1>1, <1>2, <1>3, <1>4, StaysCalm
<1>5. ASSUME Undisturbed', errors' = 0, NEW j \in Runs, Gone(j)'
      PROVE  cancel'[j] \in {"removed", "replied"}
  <2>1. errors = 0 /\ \A kind : ~Error(kind)
    <3>1. errors \in Nat
      BY <1>1, LifeTypeParts DEF LifeTyped, Typed1, Counts
    <3>2. QED  BY <1>5, <3>1, ErrorsFrame DEF Error
  <2>2. delivered \subseteq delivered'
    BY DeliveredGrows
  <2>3. j \notin delivered /\ ~InList(j)' /\ ~InHand(j)' /\ ticket'[j] # 0
    BY <1>5, <2>2 DEF Gone
  <2>4. CASE InHand(j) \/ InList(j)
    <3>1. CancelRemove(j)
      BY <1>1, <1>3, <1>5, <2>3, <2>4, CancelTakes
    <3>2. cancel \in [Runs -> {"none", "seen", "removed", "replied"}]
      BY <1>1, LifeTypeParts DEF LifeTyped, Typed1, Memory
    <3>3. QED  BY <3>1, <3>2 DEF CancelRemove
  <2>5. CASE ~InHand(j) /\ ~InList(j)
    <3>1. ticket[j] # 0
      <4>1. ASSUME NEW k \in Runs, Push(k) PROVE ticket'[j] = ticket[j]
        <5>1. k # j
          BY <1>1, <2>3, <4>1, PushPlaces
        <5>2. QED  BY <1>1, <4>1, <5>1 DEF Push, TypeOK
      <4>2. ASSUME NEW k \in Runs, RemoveByRunID(k) PROVE ticket' = ticket
        BY <4>2 DEF RemoveByRunID, auditVars
      <4>3. ASSUME NEW w \in Workers, RPop(w) \/ Requeue(w) PROVE ticket' = ticket
        BY <4>3 DEF RPop, Requeue, auditVars
      <4>4. QED  BY <2>3, <4>1, <4>2, <4>3, ListFrame
    <3>2. cancel[j] \in {"removed", "replied"}
      BY <1>4, <1>5, <2>1, <2>3, <2>5, <3>1 DEF CancelledBefore, Gone
    <3>3. ~(CancelFinish(j) /\ cancel'[j] = "none")
      <4>1. CancelFinish(j) => cancel' = [cancel EXCEPT ![j] = "replied"]
        BY <2>1 DEF CancelFinish
      <4>2. cancel \in [Runs -> {"none", "seen", "removed", "replied"}]
        BY <1>1, LifeTypeParts DEF LifeTyped, Typed1, Memory
      <4>3. QED  BY <4>1, <4>2
    <3>4. ~LifeCrash /\ ~LifeExit
      BY <1>4, <1>5 DEF LifeCrash, LifeExit
    <3>5. QED  BY <1>1, <3>2, <3>3, <3>4, CancelFrame
  <2>6. QED  BY <2>4, <2>5
<1>6. QED  BY <1>4, <1>5 DEF CancelledBefore

LEMMA WithdrawnAlways == LifeSpec => [](LifeKept /\ CancelledBefore)
<1>1. LifeInit => LifeKept /\ CancelledBefore
  BY LifeKeptInit, WithdrawnInit
<1>2. LifeKept /\ CancelledBefore /\ [LifeNext]_allVars => (LifeKept /\ CancelledBefore)'
  BY LifeKeptStep, WithdrawnStep
<1>3. QED  BY <1>1, <1>2, PTL DEF LifeSpec

(* A cancel that meets its job in the queue wins for good, against any     *)
(* number of workers and in any interleaving of RemoveByRunID with Pop:    *)
(* while nothing fails and the process lives, a job that was pushed and    *)
(* can no longer be delivered was removed by the cancel of its own run,    *)
(* which never starts a workflow and stays "queued" until CancelRun writes *)
(* "cancelled".                                                            *)
THEOREM CancelIsKept == LifeSpec => []WithdrawnByItsCancel
<1>1. ASSUME LifeKept, CancelledBefore PROVE WithdrawnByItsCancel
  <2> SUFFICES ASSUME NEW j \in Runs, Place(j) = "gone", Undisturbed, errors = 0
               PROVE  /\ cancel[j] \in {"removed", "replied"} /\ workflow[j] = "none"
                      /\ status[j] = IF cancel[j] = "replied" THEN "cancelled" ELSE "queued"
    BY DEF WithdrawnByItsCancel
  <2>1. Gone(j)
    BY <1>1, PlaceOf DEF Gone, LifeKept, LifeTyped
  <2>2. cancel[j] \in {"removed", "replied"}
    BY <1>1, <2>1 DEF CancelledBefore
  <2>3. workflow[j] = "none"
    BY <1>1, <2>1 DEF Gone, LifeKept, LifeTyped, Sent, Started1
  <2>4. status[j] \in Statuses
    BY <1>1, LifeTypeParts DEF LifeKept, LifeTyped, Typed1, Rows, Statuses
  <2>5. status[j] \in {"queued", "cancelled"}
    BY <1>1, <2>1, <2>4 DEF Gone, LifeKept, Ran, Asked, Statuses, Terminal
  <2>6. status[j] = "cancelled" <=> cancel[j] = "replied"
    BY <1>1, <2>1 DEF Gone, LifeKept, Asked
  <2>7. QED  BY <2>2, <2>3, <2>5, <2>6
<1>2. LifeKept /\ CancelledBefore => WithdrawnByItsCancel
  BY <1>1
<1>3. QED  BY <1>2, WithdrawnAlways, PTL

-----------------------------------------------------------------------------
(* The commits.  While the documented rule holds, one active run for each  *)
(* repository (OneActivePerRepo), the commit EnsureBranchWorkflows made    *)
(* for a run is newer than every head_sha and every tracked commit of the  *)
(* fork, so that no other workflow run has it.                             *)
HeadsKnown == \A j \in Runs : dispatched[j] # 0 => Upstream < head[j] /\ head[j] <= tip[RepoOf[j]]
TrackedKnown == \A j \in Runs : tracked[j] <= tip[RepoOf[j]]
Matched ==
    \A i, j \in Runs :
      dispatched[i] # 0 /\ RepoOf[i] = RepoOf[j] /\ head[i] = tracked[j] => i = j
Known1(w) == Upstream < sha[w] /\ sha[w] <= tip[RepoOf[job[w]]]
Older(w, g) == dispatched[g] # 0 => head[g] < sha[w]
Newest(w) ==
    /\ At(w, "dispatch") =>
         Known1(w) /\ \A g \in Runs : RepoOf[g] = RepoOf[job[w]] => tracked[g] < sha[w] /\ Older(w, g)
    /\ At(w, "register") =>
         Known1(w) /\ \A g \in Runs : RepoOf[g] = RepoOf[job[w]] /\ g # job[w] => Older(w, g)
Shas == HeadsKnown /\ TrackedKnown /\ Matched /\ \A w \in Workers : Newest(w)

LEMMA ShasInit == LifeInit => Shas
<1> SUFFICES ASSUME LifeInit PROVE Shas
  OBVIOUS
<1>1. HeadsKnown /\ Matched
  BY DEF LifeInit, HeadsKnown, Matched
<1>2. TrackedKnown
  BY RepoOfAssumption DEF LifeInit, TrackedKnown, Upstream
<1>3. \A w \in Workers : Newest(w)
  BY DEF LifeInit, Newest, At
<1>4. QED  BY <1>1, <1>2, <1>3 DEF Shas

LEMMA LifeNumbers ==
    ASSUME LifeTyped
    PROVE  /\ head \in [Runs -> Nat] /\ tracked \in [Runs -> Nat] /\ sha \in [Workers -> Nat]
           /\ tip \in [Repos -> Nat \ {0}] /\ dispatched \in [Runs -> Nat]
           /\ exec \in [Workers -> Labels]
           /\ pc \in [Workers -> Idle \cup Holding]
  BY LifeTypeParts DEF LifeTyped, Typed1, GitHub, Memory, TypeOK

LEMMA TipGrows ==
    ASSUME LifeTyped, [LifeNext]_allVars, NEW r \in Repos
    PROVE  tip[r] \in Nat /\ tip'[r] \in Nat /\ tip[r] > 0 /\ tip[r] <= tip'[r]
<1>1. tip \in [Repos -> Nat \ {0}]
  BY LifeNumbers
<1>2. ASSUME NEW q \in Repos, tip' = [tip EXCEPT ![q] = @ + 1]
      PROVE  tip'[r] = tip[r] \/ tip'[r] = tip[r] + 1
  BY <1>1, <1>2
<1>3. tip'[r] = tip[r] \/ tip'[r] = tip[r] + 1
  BY <1>2, TipFrame
<1>4. QED  BY <1>1, <1>3

(* Two workers at "working" are at two repositories.                       *)
LEMMA Alone ==
    ASSUME LifeTyped, OneActivePerRepo, NEW v \in Workers, NEW w \in Workers, v # w,
           pc[v] = "working", pc[w] = "working"
    PROVE  RepoOf[job[v]] # RepoOf[job[w]]
  BY DEF OneActivePerRepo, InWork

LEMMA HeadsKnownStep ==
    ASSUME LifeTyped, Shas, [LifeNext]_allVars
    PROVE  HeadsKnown'
<1> SUFFICES ASSUME NEW j \in Runs, dispatched'[j] # 0
             PROVE  Upstream < head'[j] /\ head'[j] <= tip'[RepoOf[j]]
  BY DEF HeadsKnown
<1>1. RepoOf[j] \in Repos /\ head[j] \in Nat
  BY RepoOfAssumption, LifeNumbers
<1>2. tip[RepoOf[j]] \in Nat /\ tip'[RepoOf[j]] \in Nat /\ tip[RepoOf[j]] <= tip'[RepoOf[j]]
  BY <1>1, TipGrows
<1>3. CASE dispatched[j] # 0
  <2>1. head'[j] = head[j]
    BY <1>3, CompletedStays
  <2>2. Upstream < head[j] /\ head[j] <= tip[RepoOf[j]]
    BY <1>3 DEF Shas, HeadsKnown
  <2>3. QED  BY <1>1, <1>2, <2>1, <2>2
<1>4. CASE dispatched[j] = 0
  <2>1. PICK w \in Workers : Sends(w)
    BY <1>4, WorkflowFrame DEF WorkflowEnds
  <2>2. j = job[w] /\ At(w, "dispatch") /\ head'[j] = tip[RepoOf[j]]
    BY <1>4, <2>1, SendsFacts DEF At
  <2>3. Upstream < sha[w] /\ sha[w] <= tip[RepoOf[j]]
    BY <2>2 DEF Shas, Newest, Known1
  <2>4. sha[w] \in Nat
    BY LifeNumbers
  <2>5. QED  BY <1>2, <2>2, <2>3, <2>4 DEF Upstream
<1>5. QED  BY <1>3, <1>4

LEMMA TrackedKnownStep ==
    ASSUME LifeTyped, Shas, [LifeNext]_allVars
    PROVE  TrackedKnown'
<1> SUFFICES ASSUME NEW j \in Runs PROVE tracked'[j] <= tip'[RepoOf[j]]
  BY DEF TrackedKnown
<1>1. /\ tip[RepoOf[j]] \in Nat /\ tip'[RepoOf[j]] \in Nat /\ tip[RepoOf[j]] > 0
      /\ tip[RepoOf[j]] <= tip'[RepoOf[j]]
  BY RepoOfAssumption, TipGrows
<1>2. tracked[j] <= tip[RepoOf[j]] /\ tracked[j] \in Nat /\ tracked \in [Runs -> Nat]
  BY LifeNumbers DEF Shas, TrackedKnown
<1>3. tracked'[j] \in {0, Upstream, tracked[j]} \/ \E w \in Workers : Register(w) /\ j = job[w]
  <2>1. ASSUME NEW w \in Workers, Register(w) PROVE tracked'[j] = tracked[j] \/ j = job[w]
    BY <1>2, <2>1 DEF Register
  <2>2. ASSUME NEW k \in Runs, tracked' = [tracked EXCEPT ![k] = 0]
        PROVE  tracked'[j] \in {0, tracked[j]}
    BY <1>2, <2>2
  <2>3. LifeCrash \/ LifeExit \/ LifeRestart => tracked'[j] \in {0, Upstream}
    BY DEF LifeCrash, LifeExit, LifeRestart, Forget
  <2>4. QED  BY <2>1, <2>2, <2>3, TrackedFrame
<1>4. ASSUME NEW w \in Workers, Register(w), j = job[w]
      PROVE  tracked'[j] \in Nat /\ tracked'[j] <= tip[RepoOf[j]]
  <2>1. At(w, "register") /\ tracked'[j] = sha[w]
    BY <1>2, <1>4 DEF Register
  <2>2. sha[w] <= tip[RepoOf[j]] /\ sha[w] \in Nat
    BY <1>4, <2>1, LifeNumbers DEF Shas, Newest, Known1
  <2>3. QED  BY <2>1, <2>2
<1>5. QED  BY <1>1, <1>2, <1>3, <1>4 DEF Upstream

LEMMA MatchedStep ==
    ASSUME LifeTyped, Shas, OneActivePerRepo, [LifeNext]_allVars
    PROVE  Matched'
<1> SUFFICES ASSUME NEW i \in Runs, NEW j \in Runs, dispatched'[i] # 0, RepoOf[i] = RepoOf[j],
                    head'[i] = tracked'[j], i # j
             PROVE  FALSE
  BY DEF Matched
<1>1. /\ tracked \in [Runs -> Nat] /\ tracked[j] \in Nat /\ head[i] \in Nat
      /\ tip[RepoOf[i]] \in Nat
  BY LifeNumbers, RepoOfAssumption
<1>2. CASE dispatched[i] = 0
  <2>1. PICK w \in Workers : Sends(w)
    BY <1>2, WorkflowFrame DEF WorkflowEnds
  <2>2. i = job[w] /\ At(w, "dispatch") /\ head'[i] = tip[RepoOf[i]]
    BY <1>2, <2>1, SendsFacts DEF At
  <2>3. tracked' = tracked
    BY <2>1 DEF Sends, Dispatch
  <2>4. tracked[j] < sha[w] /\ sha[w] <= tip[RepoOf[i]] /\ sha[w] \in Nat
    BY <2>2, LifeNumbers DEF Shas, Newest, Known1
  <2>5. QED  BY <1>1, <2>2, <2>3, <2>4
<1>3. CASE dispatched[i] # 0
  <2>1. head'[i] = head[i] /\ Upstream < head[i]
    BY <1>3, CompletedStays DEF Shas, HeadsKnown
  <2>2. tracked'[j] # 0 /\ tracked'[j] # Upstream
    BY <1>1, <2>1 DEF Upstream
  <2>3. tracked'[j] # tracked[j]
    BY <1>3, <2>1 DEF Shas, Matched
  <2>4. ASSUME NEW k \in Runs, tracked' = [tracked EXCEPT ![k] = 0] PROVE FALSE
    BY <1>1, <2>2, <2>3, <2>4
  <2>5. ~LifeCrash /\ ~LifeExit /\ ~LifeRestart
    BY <2>2 DEF LifeCrash, LifeExit, LifeRestart, Forget
  <2>6. PICK w \in Workers : Register(w)
    BY <2>3, <2>4, <2>5, TrackedFrame
  <2>7. j = job[w] /\ At(w, "register") /\ tracked'[j] = sha[w]
    BY <1>1, <2>3, <2>6 DEF Register
  <2>8. head[i] < sha[w] /\ sha[w] \in Nat
    BY <1>3, <2>7, LifeNumbers DEF Shas, Newest, Older
  <2>9. head[i] = sha[w]
    BY <2>1, <2>7
  <2>10. head[i] \in Nat
    BY <1>1
  <2>11. QED  BY <2>8, <2>9, <2>10
<1>4. QED  BY <1>2, <1>3

(* A worker that did not move still has the newest commit if nobody at its *)
(* repository did.                                                         *)
LEMMA NewestKept ==
    ASSUME LifeTyped, Shas, [LifeNext]_allVars, NEW v \in Workers,
           pc'[v] = "working" => pc[v] = "working",
           exec'[v] = exec[v], sha'[v] = sha[v], job'[v] = job[v],
           \A g \in Runs : RepoOf[g] = RepoOf[job[v]] =>
             /\ tracked'[g] \in {0, Upstream, tracked[g]}
             /\ head'[g] = head[g] /\ dispatched'[g] = dispatched[g]
    PROVE  Newest(v)'
<1>1. sha[v] \in Nat /\ tracked \in [Runs -> Nat]
  BY LifeNumbers
<1>2. ASSUME pc[v] = "working"
      PROVE  /\ tip[RepoOf[job[v]]] \in Nat /\ tip'[RepoOf[job[v]]] \in Nat
             /\ tip[RepoOf[job[v]]] <= tip'[RepoOf[job[v]]]
  BY <1>2, WorkFacts, RepoOfAssumption, TipGrows
<1>3. Newest(v)
  BY DEF Shas
<1>4. At(v, "dispatch")' => At(v, "dispatch")
  BY DEF At
<1>5. At(v, "register")' => At(v, "register")
  BY DEF At
<1>6. Known1(v) /\ pc[v] = "working" => Known1(v)'
  BY <1>1, <1>2 DEF Known1
<1>7. ASSUME NEW g \in Runs, RepoOf[g] = RepoOf[job[v]]
      PROVE  /\ Older(v, g) => Older(v, g)'
             /\ tracked[g] < sha[v] /\ Upstream < sha[v] => tracked'[g] < sha'[v]
  BY <1>1, <1>7 DEF Older, Upstream
<1>8. pc[v] = "working" /\ (At(v, "dispatch") \/ At(v, "register")) => Upstream < sha[v]
  BY <1>3 DEF Newest, Known1
<1>9. At(v, "dispatch")' =>
        Known1(v)' /\ \A g \in Runs : RepoOf[g] = RepoOf[job'[v]] => tracked'[g] < sha'[v] /\ Older(v, g)'
  BY <1>3, <1>4, <1>6, <1>7, <1>8 DEF Newest, At
<1>10. At(v, "register")' =>
        Known1(v)' /\ \A g \in Runs : RepoOf[g] = RepoOf[job'[v]] /\ g # job'[v] => Older(v, g)'
  BY <1>3, <1>5, <1>6, <1>7 DEF Newest, At
<1>11. QED  BY <1>9, <1>10 DEF Newest

(* EnsureBranchWorkflows makes a commit newer than all others.             *)
LEMMA EnsureNewest ==
    ASSUME LifeTyped, Shas, NEW v \in Workers, Ensure(v)
    PROVE  Newest(v)'
<1> DEFINE r == RepoOf[job[v]]
<1>1. /\ job[v] \in Runs /\ at[v] = r /\ r \in Repos /\ pc[v] = "working"
  BY WorkFacts, RepoOfAssumption DEF Ensure, At
<1>2. /\ tip \in [Repos -> Nat \ {0}] /\ sha \in [Workers -> Nat] /\ tracked \in [Runs -> Nat]
      /\ head \in [Runs -> Nat] /\ exec[v] = "ensure"
      /\ exec \in [Workers -> Labels]
  BY LifeNumbers DEF Ensure, At
<1>3. /\ tracked' = tracked /\ head' = head /\ dispatched' = dispatched /\ job' = job
  BY DEF Ensure, vars, workerVars
<1>4. \/ exec' = [exec EXCEPT ![v] = "fail"]
      \/ /\ exec' = [exec EXCEPT ![v] = "dispatch"]
         /\ tip' = [tip EXCEPT ![r] = @ + 1] /\ sha' = [sha EXCEPT ![v] = tip[r] + 1]
  BY <1>1 DEF Ensure, Then
<1> HIDE DEF r
<1>5. CASE exec' = [exec EXCEPT ![v] = "fail"]
  BY <1>2, <1>5 DEF Newest, At
<1>6. CASE /\ exec' = [exec EXCEPT ![v] = "dispatch"]
           /\ tip' = [tip EXCEPT ![r] = @ + 1] /\ sha' = [sha EXCEPT ![v] = tip[r] + 1]
  <2>1. tip[r] \in Nat /\ tip[r] > 0 /\ tip'[r] = tip[r] + 1 /\ sha'[v] = tip[r] + 1
    BY <1>1, <1>2, <1>6
  <2>2. Upstream < sha'[v] /\ sha'[v] <= tip'[r]
    BY <2>1 DEF Upstream
  <2>3. ASSUME NEW g \in Runs, RepoOf[g] = r
        PROVE  tracked[g] < sha'[v] /\ (dispatched[g] # 0 => head[g] < sha'[v])
    <3>1. tracked[g] <= tip[r] /\ (dispatched[g] # 0 => head[g] <= tip[r])
      BY <2>3 DEF Shas, HeadsKnown, TrackedKnown
    <3>2. tracked[g] \in Nat /\ head[g] \in Nat
      BY <1>2
    <3>3. QED  BY <2>1, <3>1, <3>2
  <2>4. exec'[v] = "dispatch"
    BY <1>2, <1>6
  <2>5. QED  BY <1>3, <2>2, <2>3, <2>4 DEF Newest, Known1, Older, At, r
<1>7. QED  BY <1>4, <1>5, <1>6

LEMMA DispatchNewest ==
    ASSUME LifeTyped, Shas, NEW v \in Workers, Dispatch(v)
    PROVE  Newest(v)'
<1>1. At(v, "dispatch") /\ Newest(v) /\ job[v] \in Runs
  BY WorkFacts DEF Dispatch, At, Shas
<1>2. tip' = tip /\ sha' = sha /\ tracked' = tracked /\ job' = job
  BY DEF Dispatch, vars, workerVars
<1>3. exec'[v] \in {"register", "fail"}
  BY LifeNumbers DEF Dispatch, Then
<1>4. \A g \in Runs : g # job[v] => head'[g] = head[g] /\ dispatched'[g] = dispatched[g]
  <2>1. Sends(v) \/ (head' = head /\ dispatched' = dispatched)
    BY DEF Dispatch, DispatchWorkflow, Sends
  <2>2. QED  BY <2>1, SendsFacts
<1>5. Known1(v) /\ \A g \in Runs : RepoOf[g] = RepoOf[job[v]] => Older(v, g)
  BY <1>1 DEF Newest
<1>6. Known1(v)' /\ \A g \in Runs : RepoOf[g] = RepoOf[job'[v]] /\ g # job'[v] => Older(v, g)'
  BY <1>2, <1>4, <1>5 DEF Known1, Older
<1>7. QED  BY <1>3, <1>6 DEF Newest, At

(* executeJob by one worker moves no other one, and touches nothing of the *)
(* repository another one works at.                                        *)
LEMMA OthersStay ==
    ASSUME LifeTyped, OneActivePerRepo, NEW v \in Workers, NEW w \in Workers, v # w, ExecuteJob(w)
    PROVE  /\ pc'[v] = pc[v] /\ exec'[v] = exec[v] /\ sha'[v] = sha[v] /\ job'[v] = job[v]
           /\ pc[v] = "working" =>
                /\ tip'[RepoOf[job[v]]] = tip[RepoOf[job[v]]]
                /\ \A g \in Runs : RepoOf[g] = RepoOf[job[v]] =>
                     tracked'[g] = tracked[g] /\ head'[g] = head[g] /\ dispatched'[g] = dispatched[g]
<1>1. /\ pc \in [Workers -> Idle \cup Holding] /\ tracked \in [Runs -> Nat]
      /\ exec \in [Workers -> Labels] /\ sha \in [Workers -> Nat] /\ tip \in [Repos -> Nat \ {0}]
  BY LifeNumbers
<1>2. pc'[v] = pc[v] /\ exec'[v] = exec[v] /\ sha'[v] = sha[v] /\ job'[v] = job[v]
  <2>1. CASE Ensure(w) \/ Dispatch(w) \/ LookUpFork(w) \/ MarkStarted(w)
    BY <1>1, <2>1 DEF Ensure, Dispatch, LookUpFork, MarkStarted, Then, vars, workerVars
  <2>2. CASE Register(w) \/ MarkFailed(w)
    BY <1>1, <2>2 DEF Register, MarkFailed, Then, Work, Goto
  <2>3. QED  BY <2>1, <2>2 DEF ExecuteJob
<1>3. ASSUME pc[v] = "working"
      PROVE  RepoOf[job[v]] # RepoOf[job[w]] /\ at[w] = RepoOf[job[w]]
  <2>1. pc[w] = "working"
    BY DEF ExecuteJob, LookUpFork, MarkStarted, Ensure, Dispatch, Register, MarkFailed, At
  <2>2. QED  BY <1>3, <2>1, Alone, WorkFacts
<1>4. ASSUME NEW r \in Repos, r # at[w] PROVE tip'[r] = tip[r]
  BY <1>1, <1>4 DEF ExecuteJob, LookUpFork, MarkStarted, Ensure, Dispatch, Register, MarkFailed,
                    githubVars
<1>5. ASSUME NEW g \in Runs, g # job[w]
      PROVE  tracked'[g] = tracked[g] /\ head'[g] = head[g] /\ dispatched'[g] = dispatched[g]
  <2>1. tracked'[g] = tracked[g]
    BY <1>1, <1>5 DEF ExecuteJob, LookUpFork, MarkStarted, Ensure, Dispatch, Register, MarkFailed
  <2>2. CASE Sends(w)
    BY <1>5, <2>1, <2>2, SendsFacts
  <2>3. CASE ~Sends(w)
    BY <2>1, <2>3 DEF ExecuteJob, LookUpFork, MarkStarted, Ensure, Dispatch, DispatchWorkflow,
                      Register, MarkFailed, Sends, githubVars
  <2>4. QED  BY <2>2, <2>3
<1>6. pc[v] = "working" => RepoOf[job[v]] \in Repos
  BY WorkFacts, RepoOfAssumption
<1>7. QED  BY <1>2, <1>3, <1>4, <1>5, <1>6

(* Nor does a worker inside Pop or Ack.                                    *)
LEMMA QueueWorkerStays ==
    ASSUME LifeTyped, NEW v \in Workers, NEW w \in Workers, QueueWorker(w)
    PROVE  /\ UNCHANGED <<exec, sha, tracked, tip, head, dispatched>>
           /\ pc[v] = "working" => job'[v] = job[v]
<1>1. UNCHANGED <<exec, sha, tracked, tip, head, dispatched>>
  BY DEF QueueWorker, lifeVars, memoryVars, githubVars
<1>2. ASSUME pc[v] = "working" PROVE job'[v] = job[v]
  <2>1. pc[w] # "working"
    BY DEF QueueWorker, Pop, Ack, Stop, Scan, Exists, RPop, SetLock, Requeue, Track, AckDel, AckRem
  <2>2. v # w /\ TypeOK
    BY <1>2, <2>1 DEF LifeTyped, Settled, Unique, Typed
  <2>3. QED
    BY <2>2
    DEF QueueWorker, Pop, Ack, TypeOK, Stop, Scan, Exists, RPop, SetLock, Requeue, Track, AckDel,
        AckRem, LetGo
<1>3. QED  BY <1>1, <1>2

LEMMA NewestStep ==
    ASSUME LifeTyped, Shas, OneActivePerRepo, [LifeNext]_allVars, NEW v \in Workers
    PROVE  Newest(v)'
<1>1. tracked \in [Runs -> Nat] /\ exec \in [Workers -> Labels]
  BY LifeNumbers
<1>2. pc[v] # "working" => exec[v] = "lookup"
  BY DEF LifeTyped, Stages
<1>3. exec'[v] \notin {"dispatch", "register"} \/ pc'[v] # "working" => Newest(v)'
  BY DEF Newest, At
<1>4. ASSUME NEW w \in Workers, ExecuteJob(w)
      PROVE  Newest(v)'
  <2>1. CASE v = w
    <3>1. CASE Ensure(w)
      BY <2>1, <3>1, EnsureNewest
    <3>2. CASE Dispatch(w)
      BY <2>1, <3>2, DispatchNewest
    <3>3. CASE LookUpFork(w) \/ MarkStarted(w) \/ Register(w) \/ MarkFailed(w)
      <4>1. exec'[v] \notin {"dispatch", "register"}
        BY <1>1, <2>1, <3>3 DEF LookUpFork, MarkStarted, Register, MarkFailed, Then, Labels
      <4>2. QED  BY <1>3, <4>1
    <3>4. QED  BY <1>4, <3>1, <3>2, <3>3 DEF ExecuteJob
  <2>2. CASE v # w
    <3>1. /\ pc'[v] = pc[v] /\ exec'[v] = exec[v] /\ sha'[v] = sha[v] /\ job'[v] = job[v]
          /\ pc[v] = "working" =>
               \A g \in Runs : RepoOf[g] = RepoOf[job[v]] =>
                 tracked'[g] = tracked[g] /\ head'[g] = head[g] /\ dispatched'[g] = dispatched[g]
      BY <1>4, <2>2, OthersStay
    <3>2. CASE pc[v] # "working"
      BY <1>3, <3>1, <3>2
    <3>3. CASE pc[v] = "working"
      BY <3>1, <3>3, NewestKept
    <3>4. QED  BY <3>2, <3>3
  <2>3. QED  BY <2>1, <2>2
<1>5. ASSUME NEW w \in Workers, QueueWorker(w)
      PROVE  Newest(v)'
  <2>1. /\ UNCHANGED <<exec, sha, tracked, tip, head, dispatched>>
        /\ pc[v] = "working" => job'[v] = job[v]
    BY <1>5, QueueWorkerStays
  <2>2. CASE pc[v] # "working"
    BY <1>2, <1>3, <2>1, <2>2
  <2>3. CASE pc[v] = "working"
    BY <2>1, <2>3, NewestKept
  <2>4. QED  BY <2>2, <2>3
<1>6. CASE LifeCrash \/ LifeExit
  <2>1. exec'[v] = "lookup"
    BY <1>6 DEF LifeCrash, LifeExit, Forget
  <2>2. QED  BY <1>3, <2>1
<1>7. CASE /\ pc' = pc /\ job' = job /\ exec' = exec /\ sha' = sha
           /\ ~\E w \in Workers : ExecuteJob(w)
  <2>1. head' = head /\ dispatched' = dispatched
    BY <1>7, WorkflowFrame DEF WorkflowEnds, Sends, ExecuteJob
  <2>2. \A g \in Runs : tracked'[g] \in {0, Upstream, tracked[g]}
    <3>1. ~\E w \in Workers : Register(w)
      BY <1>7 DEF ExecuteJob
    <3>2. ASSUME NEW k \in Runs, tracked' = [tracked EXCEPT ![k] = 0], NEW g \in Runs
          PROVE  tracked'[g] \in {0, tracked[g]}
      BY <1>1, <3>2
    <3>3. LifeCrash \/ LifeExit \/ LifeRestart => \A g \in Runs : tracked'[g] \in {0, Upstream}
      BY DEF LifeCrash, LifeExit, LifeRestart, Forget
    <3>4. QED  BY <3>1, <3>2, <3>3, TrackedFrame
  <2>3. QED  BY <1>7, <2>1, <2>2, NewestKept
<1>8. QED  BY <1>4, <1>5, <1>6, <1>7, ExecFrame

LEMMA ShasStep ==
    ASSUME LifeTyped, Shas, OneActivePerRepo, [LifeNext]_allVars
    PROVE  Shas'
  BY HeadsKnownStep, TrackedKnownStep, MatchedStep, NewestStep DEF Shas

(* A "passed" that the workflow run of the run itself accounts for.        *)
Earned(j) ==
    \/ workflow[j] = "completed" /\ outcome[j].conclusion = "success"
    \/ workflow[j] # "none" /\ outcome[j].report # "none" /\ ~outcome[j].failing

FindsOwn == poll.at \in Found => poll.found = poll.run
Judged ==
    /\ FindsOwn
    /\ poll.at \in Decided /\ poll.verdict = "passed" => Earned(poll.run)
    /\ \A j \in Runs : status[j] = "passed" => Earned(j)

LEMMA EarnedStays ==
    ASSUME LifeTyped, [LifeNext]_allVars, NEW j \in Runs, Earned(j)
    PROVE  Earned(j)'
<1>1. dispatched[j] # 0
  BY DEF Earned, LifeTyped, Sent
<1>2. QED  BY <1>1, CompletedStays DEF Earned

LEMMA FindsOwnStep ==
    ASSUME LifeTyped, Shas, FindsOwn, [LifeNext]_allVars
    PROVE  FindsOwn'
<1> USE DEF Found
<1>1. CASE Poller
  <2>1. ASSUME NEW todo \in SUBSET Runs, Scans(todo) PROVE FindsOwn'
    BY <2>1 DEF Scans, PollOf, FindsOwn
  <2>2. ASSUME NEW j \in Runs, Reads(j) PROVE FindsOwn'
    BY <2>2 DEF Reads, PollOf, FindsOwn
  <2>3. CASE Finds
    <3> DEFINE g == Latest(Candidates(poll.run))
    <3>1. poll.run \in Runs
      BY <2>3 DEF Finds, LifeTyped, Polling
    <3>2. Candidates(poll.run) # {} =>
            g \in Runs /\ RepoOf[g] = RepoOf[poll.run] /\ dispatched[g] # 0
            /\ head[g] = tracked[poll.run]
      BY CandidatesFacts
    <3>3. Candidates(poll.run) # {} => g = poll.run
      BY <3>1, <3>2 DEF Shas, Matched
    <3>4. \/ poll' = PollOf("reading", poll.todo, poll.run, poll.found, poll.verdict)
          \/ /\ Candidates(poll.run) # {}
             /\ poll' = PollOf("completing", poll.todo, poll.run, g, poll.verdict)
      BY <2>3 DEF Finds
    <3> HIDE DEF g
    <3>5. QED  BY <3>3, <3>4 DEF PollOf, FindsOwn
  <2>4. CASE Stores
    BY <2>4 DEF Stores, PollOf, FindsOwn
  <2>5. QED  BY <1>1, <2>1, <2>2, <2>3, <2>4, PollKinds DEF LifeTyped
<1>2. CASE LifeCrash \/ LifeExit
  <2>1. poll'.at = "idle"
    BY <1>2 DEF LifeCrash, LifeExit, Forget, NoPoll
  <2>2. QED  BY <2>1 DEF FindsOwn
<1>3. CASE poll' = poll
  BY <1>3 DEF FindsOwn
<1>4. QED  BY <1>1, <1>2, <1>3, PollFrame

LEMMA VerdictStep ==
    ASSUME LifeTyped, Judged, [LifeNext]_allVars
    PROVE  (poll.at \in Decided /\ poll.verdict = "passed" => Earned(poll.run))'
<1> DEFINE Goal == (poll.at \in Decided /\ poll.verdict = "passed" => Earned(poll.run))'
<1> USE DEF Found, Decided
<1>1. CASE Poller
  <2>1. workflow' = workflow /\ outcome' = outcome
    BY <1>1, PollerKeeps DEF githubVars
  <2>2. ASSUME NEW todo \in SUBSET Runs, Scans(todo) PROVE Goal
    BY <2>2 DEF Scans, PollOf
  <2>3. ASSUME NEW j \in Runs, Reads(j) PROVE Goal
    BY <2>3 DEF Reads, PollOf
  <2>4. ASSUME Finds PROVE Goal
    BY <2>4 DEF Finds, PollOf
  <2>5. ASSUME Stores PROVE Goal
    <3>1. PICK g \in Runs : g = poll.found /\ g = poll.run /\ workflow[g] = "completed"
      BY <2>5 DEF Stores, Judged, FindsOwn, LifeTyped, Polling
    <3> DEFINE o == outcome[g]
    <3>2. \/ o.report = "tree" /\ poll' = PollOf("reporting", poll.todo, g, g, ByReport(o))
          \/ \E v \in {"failed", ByConclusion(o)} : poll' = PollOf("finishing", poll.todo, g, g, v)
      BY <2>5, <3>1 DEF Stores
    <3>3. ASSUME o.report = "tree", ByReport(o) = "passed" PROVE Earned(g)
      BY <3>1, <3>3 DEF Earned, ByReport
    <3>4. ASSUME ByConclusion(o) = "passed" PROVE Earned(g)
      BY <3>1, <3>4 DEF Earned, ByConclusion
    <3> HIDE DEF o
    <3>5. poll'.run = g /\ (poll'.verdict = "passed" => Earned(g))
      BY <3>2, <3>3, <3>4 DEF PollOf
    <3>6. Earned(g) => Earned(g)'
      BY <2>1 DEF Earned
    <3>7. poll'.verdict = "passed" => Earned(poll.run)'
      BY <3>5, <3>6 DEF Earned
    <3>8. QED  BY <3>7
  <2> HIDE DEF Goal
  <2>6. Goal
    BY <1>1, <2>2, <2>3, <2>4, <2>5, PollKinds DEF LifeTyped
  <2>7. QED  BY <2>6 DEF Goal
<1>2. CASE LifeCrash \/ LifeExit
  <2>1. poll'.at = "idle"
    BY <1>2 DEF LifeCrash, LifeExit, Forget, NoPoll
  <2>2. QED  BY <2>1
<1>3. CASE poll' = poll
  <2>1. ASSUME poll.at \in Decided, poll.verdict = "passed" PROVE Earned(poll.run)'
    <3>1. PICK j \in Runs : j = poll.run
      BY <2>1 DEF LifeTyped, Polling
    <3>2. Earned(j)
      BY <2>1, <3>1 DEF Judged
    <3>3. Earned(j)'
      BY <3>2, EarnedStays
    <3>4. QED  BY <1>3, <3>1, <3>3 DEF Earned
  <2>2. QED  BY <1>3, <2>1 DEF Earned
<1>4. QED  BY <1>1, <1>2, <1>3, PollFrame

LEMMA PassedStep ==
    ASSUME LifeKept, Judged, [LifeNext]_allVars, NEW j \in Runs, status'[j] = "passed"
    PROVE  Earned(j)'
<1>1. LifeTyped /\ Called
  BY DEF LifeKept
<1>2. CASE status[j] = "passed"
  BY <1>1, <1>2, EarnedStays DEF Judged
<1>3. CASE status[j] # "passed"
  <2>1. status \in [Runs -> Statuses]
    BY <1>1, LifeTypeParts DEF LifeTyped, Typed1, Rows, Statuses
  <2>2. PICK k \in Runs, s \in Statuses : Writes(k, s)
    BY <1>1, <1>3, StatusFrame
  <2>3. k = j /\ s = "passed" /\ Writer(j, s)
    BY <1>3, <2>1, <2>2 DEF Writes
  <2>4. CASE HookFinish(j) /\ ByReport(outcome[j]) = "passed"
    <3>1. workflow[j] # "none" /\ outcome[j].report # "none"
      BY <1>1, <2>4 DEF HookFinish, Called
    <3>2. Earned(j)
      BY <2>4, <3>1 DEF Earned, ByReport
    <3>3. QED  BY <1>1, <3>2, EarnedStays
  <2>5. CASE (PollReport \/ PollFinish) /\ j = poll.run /\ poll.verdict = "passed"
    <3>1. Earned(j)
      BY <2>5 DEF PollReport, PollFinish, Judged, Decided
    <3>2. QED  BY <1>1, <3>1, EarnedStays
  <2>6. QED  BY <2>3, <2>4, <2>5 DEF Writer
<1>4. QED  BY <1>2, <1>3

LifeJudged == LifeKept /\ Shas /\ Judged

LEMMA LifeJudgedAlways == LifeSpec /\ []OneActivePerRepo => []LifeJudged
<1>1. LifeInit => LifeJudged
  <2>1. LifeInit => Judged
    BY DEF LifeInit, Judged, FindsOwn, NoPoll, Found, Decided
  <2>2. QED  BY <2>1, LifeKeptInit, ShasInit DEF LifeJudged
<1>2. LifeJudged /\ OneActivePerRepo /\ [LifeNext]_allVars => LifeJudged'
  <2> SUFFICES ASSUME LifeJudged, OneActivePerRepo, [LifeNext]_allVars PROVE LifeJudged'
    OBVIOUS
  <2>1. LifeKept /\ LifeTyped /\ Shas /\ Judged /\ FindsOwn
    BY DEF LifeJudged, LifeKept, Judged
  <2>2. LifeKept' /\ Shas'
    BY <2>1, LifeKeptStep, ShasStep
  <2>3. Judged'
    BY <2>1, FindsOwnStep, VerdictStep, PassedStep DEF Judged
  <2>4. QED  BY <2>2, <2>3 DEF LifeJudged
<1>3. QED  BY <1>1, <1>2, PTL DEF LifeSpec

(* As long as the documented rule holds, one active run for each           *)
(* repository, a run is "passed" only by what its own workflow run said:   *)
(* whatever the number of workers, errors, callbacks, restarts and suite   *)
(* edits, and although findWorkflowRun has nothing but a head_sha to go by *)
(* and every UPDATE of the row is unconditional.                           *)
THEOREM PassedIsEarned == LifeSpec /\ []OneActivePerRepo => []PassedHasCause
<1>1. LifeJudged => PassedHasCause
  BY DEF LifeJudged, Judged, Earned, PassedHasCause
<1>2. QED  BY <1>1, LifeJudgedAlways, PTL

LEMMA OneWorkerIsAlone == OneWorker => OneActivePerRepo
  BY DEF OneWorker, OneActivePerRepo

(* One worker keeps the rule whatever fails: with it "passed" is earned,   *)
(* without more to assume.                                                 *)
THEOREM OneWorkerPassedIsEarned == OneWorker => (LifeSpec => []PassedHasCause)
<1> SUFFICES ASSUME OneWorker PROVE LifeSpec => []PassedHasCause
  OBVIOUS
<1>1. OneActivePerRepo
  BY OneWorkerIsAlone
<1>2. QED  BY <1>1, PassedIsEarned, PTL

-----------------------------------------------------------------------------
(* Without an edit of a suite in between, the workflow of a run is started *)
(* on the very commit that was made for it, and tracked by it.             *)
InStep(w) ==
    /\ At(w, "dispatch") => sha[w] = tip[RepoOf[job[w]]]
    /\ At(w, "register") => sha[w] = head[job[w]]
TracksOwn == \A j \in Runs : tracked[j] \in {0, Upstream, head[j]}
Aligned == TracksOwn /\ \A w \in Workers : InStep(w)

LEMMA NoRefresh ==
    ASSUME LifeTyped, MaxRefreshes = 0, NEW r \in Repos
    PROVE  ~Refresh(r)
<1>1. refreshes \in Nat
  BY LifeTypeParts DEF LifeTyped, Typed1, Counts
<1>2. QED  BY <1>1 DEF Refresh

LEMMA TracksOwnStep ==
    ASSUME LifeTyped, Aligned, [LifeNext]_allVars
    PROVE  TracksOwn'
<1> SUFFICES ASSUME NEW j \in Runs PROVE tracked'[j] \in {0, Upstream, head'[j]}
  BY DEF TracksOwn
<1>1. tracked \in [Runs -> Nat] /\ tracked[j] \in {0, Upstream, head[j]}
  BY LifeNumbers DEF Aligned, TracksOwn
<1>2. ASSUME NEW w \in Workers, Register(w)
      PROVE  tracked'[j] \in {0, Upstream, head'[j]}
  <2>1. head' = head /\ At(w, "register")
    BY <1>2 DEF Register, githubVars
  <2>2. tracked'[j] = tracked[j] \/ (j = job[w] /\ tracked'[j] = sha[w])
    BY <1>1, <1>2 DEF Register
  <2>3. sha[w] = head[job[w]]
    BY <2>1 DEF Aligned, InStep
  <2>4. QED  BY <1>1, <2>1, <2>2, <2>3
<1>3. CASE ~\E w \in Workers : Register(w)
  <2>1. tracked'[j] \in {0, Upstream, tracked[j]}
    <3>1. ASSUME NEW k \in Runs, tracked' = [tracked EXCEPT ![k] = 0]
          PROVE  tracked'[j] \in {0, tracked[j]}
      BY <1>1, <3>1
    <3>2. LifeCrash \/ LifeExit \/ LifeRestart => tracked'[j] \in {0, Upstream}
      BY DEF LifeCrash, LifeExit, LifeRestart, Forget
    <3>3. QED  BY <1>3, <3>1, <3>2, TrackedFrame
  <2>2. CASE dispatched[j] = 0
    <3>1. head[j] = 0
      BY <2>2 DEF LifeTyped, Sent
    <3>2. QED  BY <1>1, <2>1, <3>1
  <2>3. CASE dispatched[j] # 0
    BY <1>1, <2>1, <2>3, CompletedStays
  <2>4. QED  BY <2>2, <2>3
<1>4. QED  BY <1>2, <1>3

LEMMA InStepStep ==
    ASSUME LifeTyped, Aligned, OneActivePerRepo, MaxRefreshes = 0, [LifeNext]_allVars,
           NEW v \in Workers
    PROVE  InStep(v)'
<1>1. /\ exec \in [Workers -> Labels] /\ sha \in [Workers -> Nat] /\ tip \in [Repos -> Nat \ {0}]
  BY LifeNumbers
<1>2. InStep(v) /\ (pc[v] # "working" => exec[v] = "lookup")
  BY DEF LifeTyped, Stages, Aligned
<1>3. exec'[v] \notin {"dispatch", "register"} \/ pc'[v] # "working" => InStep(v)'
  BY DEF InStep, At
<1>4. pc[v] = "working" => job[v] \in Runs /\ RepoOf[job[v]] \in Repos /\ at[v] = RepoOf[job[v]]
  BY WorkFacts, RepoOfAssumption
<1>5. ASSUME NEW w \in Workers, ExecuteJob(w)
      PROVE  InStep(v)'
  <2>1. CASE v = w
    <3>1. pc[v] = "working"
      BY <1>5, <2>1 DEF ExecuteJob, LookUpFork, MarkStarted, Ensure, Dispatch, Register, MarkFailed, At
    <3>2. CASE Ensure(w)
      <4>1. job' = job
        BY <3>2 DEF Ensure, vars, workerVars
      <4>2. \/ exec' = [exec EXCEPT ![v] = "fail"]
            \/ /\ exec' = [exec EXCEPT ![v] = "dispatch"]
               /\ tip' = [tip EXCEPT ![at[v]] = @ + 1] /\ sha' = [sha EXCEPT ![v] = tip[at[v]] + 1]
        BY <2>1, <3>2 DEF Ensure, Then
      <4>3. CASE exec' = [exec EXCEPT ![v] = "fail"]
        BY <1>1, <1>3, <4>3
      <4>4. CASE /\ exec' = [exec EXCEPT ![v] = "dispatch"]
                 /\ tip' = [tip EXCEPT ![at[v]] = @ + 1] /\ sha' = [sha EXCEPT ![v] = tip[at[v]] + 1]
        <5>1. exec'[v] = "dispatch" /\ sha'[v] = tip'[RepoOf[job[v]]]
          BY <1>1, <1>4, <3>1, <4>4
        <5>2. QED  BY <4>1, <5>1 DEF InStep, At
      <4>5. QED  BY <4>2, <4>3, <4>4
    <3>3. CASE Dispatch(w)
      <4>1. \/ exec' = [exec EXCEPT ![v] = "fail"]
            \/ exec' = [exec EXCEPT ![v] = "register"] /\ Sends(v)
        BY <2>1, <3>3 DEF Dispatch, DispatchWorkflow, Sends, Then
      <4>2. sha' = sha /\ job' = job /\ At(v, "dispatch")
        BY <2>1, <3>3 DEF Dispatch, vars, workerVars
      <4>3. CASE exec' = [exec EXCEPT ![v] = "fail"]
        BY <1>1, <1>3, <4>3
      <4>4. CASE exec' = [exec EXCEPT ![v] = "register"] /\ Sends(v)
        <5>1. exec'[v] = "register" /\ head'[job[v]] = tip[RepoOf[job[v]]]
          BY <1>1, <4>4, SendsFacts
        <5>2. sha[v] = tip[RepoOf[job[v]]]
          BY <1>2, <4>2 DEF InStep
        <5>3. QED  BY <4>2, <5>1, <5>2 DEF InStep, At
      <4>5. QED  BY <4>1, <4>3, <4>4
    <3>4. CASE LookUpFork(w) \/ MarkStarted(w) \/ Register(w) \/ MarkFailed(w)
      <4>1. exec'[v] \notin {"dispatch", "register"}
        BY <1>1, <2>1, <3>4 DEF LookUpFork, MarkStarted, Register, MarkFailed, Then, Labels
      <4>2. QED  BY <1>3, <4>1
    <3>5. QED  BY <1>5, <3>2, <3>3, <3>4 DEF ExecuteJob
  <2>2. CASE v # w
    <3>1. /\ pc'[v] = pc[v] /\ exec'[v] = exec[v] /\ sha'[v] = sha[v] /\ job'[v] = job[v]
          /\ pc[v] = "working" =>
               /\ tip'[RepoOf[job[v]]] = tip[RepoOf[job[v]]]
               /\ \A g \in Runs : RepoOf[g] = RepoOf[job[v]] => head'[g] = head[g]
      BY <1>5, <2>2, OthersStay
    <3>2. QED  BY <1>2, <1>4, <3>1 DEF InStep, At
  <2>3. QED  BY <2>1, <2>2
<1>6. ASSUME NEW w \in Workers, QueueWorker(w)
      PROVE  InStep(v)'
  <2>1. /\ UNCHANGED <<exec, sha, tracked, tip, head, dispatched>>
        /\ pc[v] = "working" => job'[v] = job[v]
    BY <1>6, QueueWorkerStays
  <2>2. QED  BY <1>2, <1>3, <2>1 DEF InStep, At
<1>7. CASE LifeCrash \/ LifeExit
  <2>1. exec'[v] = "lookup"
    BY <1>7 DEF LifeCrash, LifeExit, Forget
  <2>2. QED  BY <1>3, <2>1
<1>8. CASE /\ pc' = pc /\ job' = job /\ exec' = exec /\ sha' = sha
           /\ ~\E w \in Workers : ExecuteJob(w)
  <2>1. head' = head
    BY <1>8, WorkflowFrame DEF WorkflowEnds, Sends, ExecuteJob
  <2>2. tip' = tip
    BY <1>8, TipFrame, NoRefresh DEF ExecuteJob
  <2>3. QED  BY <1>2, <1>8, <2>1, <2>2 DEF InStep, At
<1>9. QED  BY <1>5, <1>6, <1>7, <1>8, ExecFrame

(* As long as one run is active for each repository and no suite is edited *)
(* meanwhile, findWorkflowRun finds by head_sha alone the workflow run of  *)
(* the very run it is looking at, or none: never that of another run of    *)
(* the fork, across crashes, lost answers of GitHub and restarts.          *)
THEOREM PollerIsRight ==
    MaxRefreshes = 0 => (LifeSpec /\ []OneActivePerRepo => []PollerFindsOwn)
<1> SUFFICES ASSUME MaxRefreshes = 0
             PROVE  LifeSpec /\ []OneActivePerRepo => []PollerFindsOwn
  OBVIOUS
<1>1. LifeInit => Aligned
  BY DEF LifeInit, Aligned, TracksOwn, InStep, At
<1>2. LifeJudged /\ Aligned /\ OneActivePerRepo /\ [LifeNext]_allVars => Aligned'
  BY TracksOwnStep, InStepStep DEF LifeJudged, LifeKept, Aligned
<1>3. LifeJudged /\ Aligned => PollerFindsOwn
  BY DEF LifeJudged, Judged, FindsOwn, Aligned, TracksOwn, Found, PollerFindsOwn
<1>4. QED  BY <1>1, <1>2, <1>3, LifeJudgedAlways, PTL DEF LifeSpec

(* Its second half needs less: the verdict the poller reads is that of its *)
(* own run also when suites are edited between the commit and the dispatch *)
(* (a run whose commit was overtaken is then not found at all).            *)
THEOREM PollerReadsOwn == LifeSpec /\ []OneActivePerRepo => []FindsOwn
<1>1. LifeJudged => FindsOwn
  BY DEF LifeJudged, Judged
<1>2. QED  BY <1>1, LifeJudgedAlways, PTL
=============================================================================
