--------------------------- MODULE JobOrderProofs ---------------------------
(***************************************************************************)
(* The locks, the processing lists and the order of the jobs of JobQueue:  *)
(* what holds of them for any number of workers, and what only with one.   *)
(***************************************************************************)
EXTENDS JobQueueProofs

OneWorker == \A v, w \in Workers : v = w

(* While nothing failed or died the pool runs, a lock is a lock of its own *)
(* repository, and its holder has yet to delete it.                        *)
Holds(w, r) == job[w] = active[r] /\ pc[w] \in {"locked", "working", "acking"}
Locked ==
    Undisturbed =>
      /\ mode = "running"
      /\ \A r \in Repos : active[r] # None =>
           RepoOf[active[r]] = r /\ \E w \in Workers : Holds(w, r)

(* What a processing list may hold, and whose payload may be altered.      *)
Tracked(w) == WithEnv \cup (IF pc[w] \in InWork THEN {job[w]} ELSE {})
Cleared ==
    /\ Undisturbed => mode = "running" /\ \A w \in Workers : processing[w] \subseteq Tracked(w)
    /\ \A w \in Workers : altered[w] => pc[w] \in {"acking", "clearing"} /\ job[w] \in WithEnv

(* Push numbers the jobs; a list is in that order, what was delivered or   *)
(* is in a hand is before it, and what Pop has taken is after what Pop has *)
(* delivered, for it may go back to the front of the list.                 *)
Numbered == \A j \in Runs : ticket[j] <= Cardinality(Pushed)
Ordered ==
    \A r \in Repos : \A i, k \in 1..Len(queue[r]) :
      i < k => ticket[queue[r][i]] < ticket[queue[r][k]]
Before(j) ==
    \A i \in 1..Len(queue[RepoOf[j]]) : ticket[j] < ticket[queue[RepoOf[j]][i]]
Passed ==
    /\ \A j \in delivered : Before(j)
    /\ \A w \in Workers : pc[w] \in Holding => Before(job[w])
Overtakes ==
    \A w \in Workers : pc[w] \in InPop =>
      \A j \in delivered : RepoOf[j] = RepoOf[job[w]] => ticket[j] < ticket[job[w]]
InOrder == Numbered /\ Ordered /\ Passed /\ Overtakes

-----------------------------------------------------------------------------
(* A step after which still nothing failed or died is none that failed,    *)
(* ended the process or started it.                                        *)
LEMMA StaysCalm ==
    ASSUME TypeOK, [Next]_vars, Undisturbed', Undisturbed => mode = "running"
    PROVE  /\ mode = "running" /\ mode' = "running" /\ Undisturbed /\ faults' = faults
           /\ ~Crash /\ ~Exit /\ ~Shutdown /\ ~Restart /\ \A r \in Repos : ~Evict(r)
<1> USE DEF Undisturbed
<1>1. faults \in Nat /\ crashes \in Nat /\ shutdowns \in Nat
  BY DEF TypeOK
<1>2. ASSUME NEW w \in Workers, RunWorker(w)
      PROVE  /\ mode' = mode /\ crashes' = crashes /\ shutdowns' = shutdowns
             /\ faults' = faults \/ faults' = faults + 1
  BY <1>2 DEF RunWorker, Pop, Ack, Stop, Scan, Exists, RPop, SetLock, Requeue, Track, Work,
              AckDel, AckRem, Fails, boundVars
<1>3. ASSUME Environment \/ UNCHANGED vars
      PROVE  /\ faults' = faults \/ faults' = faults + 1
             /\ crashes' = crashes \/ crashes' = crashes + 1
             /\ shutdowns' = shutdowns \/ shutdowns' = shutdowns + 1
  BY <1>3 DEF Environment, Push, RemoveByRunID, LockExpire, Evict, Crash, Shutdown, Exit, Restart,
              vars, boundVars
<1>4. faults' = faults /\ crashes' = crashes /\ shutdowns' = shutdowns /\ Undisturbed
  BY <1>1, <1>2, <1>3 DEF Next
<1>5. mode = "running"
  BY <1>4
<1>6. ~Crash /\ ~Shutdown /\ \A r \in Repos : ~Evict(r)
  BY <1>1, <1>4 DEF Crash, Shutdown, Evict
<1>7. ~Exit /\ ~Restart
  BY <1>5 DEF Exit, Restart
<1>8. mode' = "running"
  BY <1>2, <1>5, <1>6, <1>7
  DEF Next, Environment, Push, RemoveByRunID, LockExpire, vars
<1>9. QED  BY <1>4, <1>5, <1>6, <1>7, <1>8

LEMMA NoFailure ==
    ASSUME TypeOK, mode = "running", faults' = faults
    PROVE  \A kind : ~Fails(kind)
  BY DEF TypeOK, Fails

-----------------------------------------------------------------------------
(* Every lock has a holder.                                                *)
LEMMA LockedInit == Init => Locked
  BY DEF Init, Locked

LEMMA HolderStays ==
    ASSUME NEW w \in Workers, NEW r \in Repos, Holds(w, r), active'[r] = active[r],
           job'[w] = job[w], pc'[w] \in {"locked", "working", "acking"}
    PROVE  Holds(w, r)'
  BY DEF Holds

(* What a step of a worker leaves a holder of a lock with.                 *)
LEMMA WorkerKeepsHolder ==
    ASSUME Typed, NEW w \in Workers, RunWorker(w), NEW v \in Workers,
           pc[v] \in {"locked", "working", "acking"}, ~(v = w /\ AckDel(w))
    PROVE  job'[v] = job[v] /\ pc'[v] \in {"locked", "working", "acking"}
<1>1. TypeOK
  BY DEF Typed
<1>2. CASE v # w
  BY <1>1, <1>2
  DEF RunWorker, Pop, Ack, TypeOK, Stop, Scan, Exists, RPop, SetLock, Requeue, Track, Work,
      AckDel, AckRem, NextKey, Goto, LetGo
<1>3. CASE v = w
  <2>1. Track(w) \/ \E f \in BOOLEAN : Work(w, f)
    BY <1>3 DEF RunWorker, Pop, Ack, Stop, Scan, Exists, RPop, SetLock, Requeue, AckRem, AckDel
  <2>2. QED  BY <1>1, <1>3, <2>1 DEF Track, Work, Goto, TypeOK
<1>4. QED  BY <1>2, <1>3

LEMMA LockedStep == Typed /\ Locked /\ [Next]_vars => Locked'
<1> SUFFICES ASSUME Typed, Locked, [Next]_vars, Undisturbed'
             PROVE  /\ mode' = "running"
                    /\ \A r \in Repos : active'[r] # None =>
                         RepoOf[active'[r]] = r /\ \E w \in Workers : Holds(w, r)'
  BY DEF Locked
<1>1. TypeOK
  BY DEF Typed
<1>2. /\ mode = "running" /\ mode' = "running" /\ Undisturbed /\ faults' = faults
      /\ ~Crash /\ ~Exit /\ ~Shutdown /\ ~Restart /\ \A r \in Repos : ~Evict(r)
  BY <1>1, StaysCalm DEF Locked
<1>3. \A kind : ~Fails(kind)
  BY <1>1, <1>2, NoFailure
<1>4. \A r \in Repos : active[r] # None =>
        RepoOf[active[r]] = r /\ \E w \in Workers : Holds(w, r)
  BY <1>2 DEF Locked
<1>5. SUFFICES ASSUME NEW r \in Repos, active'[r] # None
               PROVE  RepoOf[active'[r]] = r /\ \E w \in Workers : Holds(w, r)'
  BY <1>2
<1>6. CASE Environment \/ UNCHANGED vars
  <2>1. /\ active'[r] = active[r]
        /\ job' = job /\ pc' = pc
    BY <1>1, <1>2, <1>5, <1>6
    DEF Environment, Push, RemoveByRunID, LockExpire, vars, redisVars, workerVars, TypeOK
  <2>2. PICK w \in Workers : Holds(w, r)
    BY <1>4, <1>5, <2>1
  <2>3. Holds(w, r)'
    BY <2>1, <2>2 DEF Holds
  <2>4. QED  BY <1>4, <1>5, <2>1, <2>3
<1>7. ASSUME NEW w \in Workers, RunWorker(w)
      PROVE  RepoOf[active'[r]] = r /\ \E v \in Workers : Holds(v, r)'
  <2>1. CASE SetLock(w) /\ at[w] = r
    <3>1. active'[r] = job[w] /\ pc'[w] = "locked" /\ job'[w] = job[w]
      BY <1>1, <1>3, <2>1 DEF SetLock, Goto, TypeOK
    <3>2. job[w] \in Runs /\ RepoOf[job[w]] = r
      BY <2>1 DEF SetLock, Typed, Hands, Holding, InPop
    <3>3. QED  BY <3>1, <3>2 DEF Holds
  <2>2. CASE AckDel(w) /\ at[w] = r
    <3>1. active'[r] = None
      BY <1>1, <1>3, <2>2 DEF AckDel, TypeOK
    <3>2. QED  BY <1>5, <3>1
  <2>3. CASE ~(SetLock(w) /\ at[w] = r) /\ ~(AckDel(w) /\ at[w] = r)
    <3>1. active'[r] = active[r]
      BY <1>1, <1>3, <1>7, <2>3
      DEF RunWorker, Pop, Ack, TypeOK, Stop, Scan, Exists, RPop, SetLock, Requeue, Track, Work,
          AckDel, AckRem, redisVars
    <3>2. PICK v \in Workers : Holds(v, r)
      BY <1>4, <1>5, <3>1
    <3>3. at[v] = r
      BY <1>4, <1>5, <3>1, <3>2 DEF Holds, Typed, Hands, Holding, InPop, InWork
    <3>4. ~(v = w /\ AckDel(w))
      BY <2>3, <3>3
    <3>5. job'[v] = job[v] /\ pc'[v] \in {"locked", "working", "acking"}
      BY <1>7, <3>2, <3>4, WorkerKeepsHolder DEF Holds
    <3>6. QED  BY <1>4, <1>5, <3>1, <3>2, <3>5, HolderStays
  <2>4. QED  BY <2>1, <2>2, <2>3
<1>8. QED  BY <1>6, <1>7 DEF Next

(* As long as nothing failed or died Ack leaves no lock without a holder,  *)
(* though workers may overwrite and delete the locks of each other.        *)
THEOREM LockIsHeld == Spec => []LockHasHolder
<1>1. Locked => LockHasHolder
  BY DEF Locked, LockHasHolder, Holds
<1>2. QED  BY <1>1, TypedAlways, LockedInit, LockedStep, PTL DEF Spec

-----------------------------------------------------------------------------
(* What stays on a processing list.                                        *)
LEMMA ClearedInit == Init => Cleared
  BY DEF Init, Cleared

LEMMA AlteredStep ==
    ASSUME Typed, Cleared, [Next]_vars, NEW w \in Workers, altered'[w]
    PROVE  pc'[w] \in {"acking", "clearing"} /\ job'[w] \in WithEnv
<1>1. TypeOK
  BY DEF Typed
<1>2. altered[w] => job[w] \in WithEnv /\ pc[w] \in {"acking", "clearing"}
  BY DEF Cleared
<1>3. ASSUME NEW v \in Workers, RunWorker(v)
      PROVE  pc'[w] \in {"acking", "clearing"} /\ job'[w] \in WithEnv
  <2>1. CASE v # w
    BY <1>1, <1>2, <1>3, <2>1
    DEF RunWorker, Pop, Ack, TypeOK, Stop, Scan, Exists, RPop, SetLock, Requeue, Track, Work,
        AckDel, AckRem, NextKey, Goto, LetGo
  <2>2. CASE v = w
    <3>1. CASE \E f \in BOOLEAN : Work(w, f)
      BY <1>1, <3>1 DEF Work, Goto, TypeOK
    <3>2. CASE AckRem(w)
      BY <1>1, <3>2 DEF AckRem, TypeOK
    <3>3. CASE AckDel(w)
      BY <1>1, <1>2, <3>3 DEF AckDel, Goto, TypeOK
    <3>4. CASE Stop(w) \/ (Pop(w) /\ altered' = altered)
      BY <1>2, <3>4 DEF Stop, Pop, Scan, Exists, RPop, SetLock, Requeue, Track
    <3>5. Pop(w) => altered' = altered
      BY DEF Pop, Scan, Exists, RPop, SetLock, Requeue, Track
    <3>6. QED  BY <1>3, <2>2, <3>1, <3>2, <3>3, <3>4, <3>5 DEF RunWorker, Ack
  <2>3. QED  BY <2>1, <2>2
<1>4. CASE Environment \/ UNCHANGED vars
  BY <1>2, <1>4
  DEF Environment, Push, RemoveByRunID, LockExpire, Evict, Crash, Shutdown, Exit, Restart,
      ForgetWorkers, vars, workerVars
<1>5. QED  BY <1>3, <1>4 DEF Next

LEMMA TrackedStep ==
    ASSUME Typed, Cleared, [Next]_vars, Undisturbed', NEW w \in Workers
    PROVE  mode' = "running" /\ processing'[w] \subseteq Tracked(w)'
<1>1. TypeOK
  BY DEF Typed
<1>2. /\ mode = "running" /\ mode' = "running" /\ Undisturbed /\ faults' = faults
      /\ ~Crash /\ ~Exit /\ ~Shutdown /\ ~Restart /\ \A r \in Repos : ~Evict(r)
  BY <1>1, StaysCalm DEF Cleared
<1>3. \A kind : ~Fails(kind)
  BY <1>1, <1>2, NoFailure
<1>4. processing[w] \subseteq Tracked(w)
  BY <1>2 DEF Cleared
<1>5. CASE Environment \/ UNCHANGED vars
  <2>1. processing' = processing /\ job' = job /\ pc' = pc
    BY <1>2, <1>5
    DEF Environment, Push, RemoveByRunID, LockExpire, vars, redisVars, workerVars
  <2>2. QED  BY <1>2, <1>4, <2>1 DEF Tracked
<1>6. ASSUME NEW v \in Workers, RunWorker(v)
      PROVE  processing'[w] \subseteq Tracked(w)'
  <2>1. CASE v # w
    <3>1. processing'[w] = processing[w] /\ job'[w] = job[w] /\ pc'[w] = pc[w]
      BY <1>1, <1>6, <2>1
      DEF RunWorker, Pop, Ack, TypeOK, Stop, Scan, Exists, RPop, SetLock, Requeue, Track, Work,
          AckDel, AckRem, NextKey, Goto, LetGo, redisVars
    <3>2. QED  BY <1>4, <3>1 DEF Tracked
  <2>2. CASE v = w
    <3>1. CASE Track(w)
      <4>1. /\ processing'[w] = processing[w] \cup {job[w]} /\ pc'[w] = "working"
            /\ job'[w] = job[w] /\ pc[w] = "locked"
        BY <1>1, <1>3, <3>1 DEF Track, Goto, TypeOK
      <4>2. QED  BY <1>4, <4>1 DEF Tracked, InWork
    <3>2. CASE (\E f \in BOOLEAN : Work(w, f)) \/ AckDel(w)
      <4>1. /\ processing' = processing /\ pc'[w] \in InWork /\ pc[w] \in InWork
            /\ job'[w] = job[w]
        BY <1>1, <3>2 DEF Work, AckDel, Goto, TypeOK, redisVars, InWork
      <4>2. QED  BY <1>4, <4>1 DEF Tracked
    <3>3. CASE AckRem(w)
      <4>1. /\ processing'[w] = IF altered[w] THEN processing[w] ELSE processing[w] \ {job[w]}
            /\ pc'[w] = "idle" /\ pc[w] \in InWork
        BY <1>1, <1>3, <3>3 DEF AckRem, Goto, TypeOK, InWork
      <4>2. altered[w] => job[w] \in WithEnv
        BY DEF Cleared
      <4>3. QED  BY <1>4, <4>1, <4>2 DEF Tracked, InWork
    <3>4. CASE Stop(w) \/ (Pop(w) /\ ~Track(w))
      <4>1. processing' = processing /\ pc[w] \notin InWork
        BY <3>4 DEF Stop, Pop, Scan, Exists, RPop, SetLock, Requeue, redisVars, InWork
      <4>2. QED  BY <1>4, <4>1 DEF Tracked
    <3>5. QED  BY <1>6, <2>2, <3>1, <3>2, <3>3, <3>4 DEF RunWorker, Ack
  <2>3. QED  BY <2>1, <2>2
<1>7. QED  BY <1>2, <1>5, <1>6 DEF Next

LEMMA ClearedStep == Typed /\ Cleared /\ [Next]_vars => Cleared'
<1>1. ASSUME Typed, Cleared, [Next]_vars PROVE Cleared'
  <2>1. \A w \in Workers : altered'[w] => pc'[w] \in {"acking", "clearing"} /\ job'[w] \in WithEnv
    BY <1>1, AlteredStep
  <2>2. Undisturbed' => mode' = "running"
    BY <1>1, StaysCalm DEF Typed, Cleared
  <2>3. Undisturbed' => \A w \in Workers : processing'[w] \subseteq Tracked(w)'
    BY <1>1, TrackedStep
  <2>4. QED  BY <2>1, <2>2, <2>3 DEF Cleared
<1>2. QED  BY <1>1

(* Ack takes the job off the processing list: as long as nothing failed or *)
(* died, a worker between two jobs has left behind only payloads whose map *)
(* of variables executeJob may have altered.                               *)
THEOREM AckClears == Spec => []AckClearsProcessing
<1>1. Cleared => AckClearsProcessing
  BY DEF Cleared, AckClearsProcessing, Tracked, InWork
<1>2. QED  BY <1>1, TypedAlways, ClearedInit, ClearedStep, PTL DEF Spec

-----------------------------------------------------------------------------
(* One worker, and a Redis that evicts no lock.                            *)
LEMMA WorkIsLockedStep ==
    ASSUME OneWorker, "evict" \notin FaultKinds
    PROVE  Typed /\ Typed' /\ WorkIsLocked /\ [Next]_vars => WorkIsLocked'
<1> SUFFICES ASSUME Typed, Typed', WorkIsLocked, [Next]_vars, NEW w \in Workers,
                    pc'[w] \in {"locked", "working", "acking"}
             PROVE  active'[RepoOf[job'[w]]] = job'[w]
  BY DEF WorkIsLocked
<1>1. TypeOK
  BY DEF Typed
<1>2. CASE RunWorker(w)
  <2>1. CASE SetLock(w)
    <3>1. at[w] = RepoOf[job[w]] /\ job[w] \in Runs /\ RepoOf[job[w]] \in Repos
      BY <2>1, RepoOfAssumption DEF SetLock, Typed, Hands, Holding, InPop
    <3>2. pc'[w] = "locked" => active'[at[w]] = job[w] /\ job' = job
      BY <1>1, <2>1, <3>1 DEF SetLock, Goto, TypeOK
    <3>3. pc'[w] \in {"locked", "requeue"}
      BY <1>1, <2>1 DEF SetLock, Goto, TypeOK
    <3>4. QED  BY <3>1, <3>2, <3>3
  <2>2. CASE Track(w) \/ \E f \in BOOLEAN : Work(w, f)
    <3>1. active' = active /\ job' = job /\ pc[w] \in {"locked", "working"}
      BY <2>2 DEF Track, Work, redisVars
    <3>2. QED  BY <3>1 DEF WorkIsLocked
  <2>3. CASE Stop(w) \/ Ack(w) \/ (Pop(w) /\ ~SetLock(w) /\ ~Track(w))
    <3>1. pc'[w] \notin {"locked", "working", "acking"}
      BY <1>1, <2>3
      DEF Stop, Ack, AckDel, AckRem, Pop, Scan, Exists, RPop, Requeue, NextKey, Goto, TypeOK
    <3>2. QED  BY <3>1
  <2>4. QED  BY <1>2, <2>1, <2>2, <2>3 DEF RunWorker
<1>3. CASE Environment \/ UNCHANGED vars
  <2>1. CASE Crash \/ Exit
    BY <2>1 DEF Crash, Exit, ForgetWorkers
  <2>2. ~(Crash \/ Exit) => pc' = pc /\ job' = job
    BY <1>3 DEF Environment, Push, RemoveByRunID, LockExpire, Evict, Shutdown, Restart, vars,
                workerVars
  <2>3. CASE \E r \in Repos : LockExpire(r)
    <3>1. PICK r \in Repos : LockExpire(r)
      BY <2>3
    <3>2. pc' = pc /\ job' = job
      BY <3>1 DEF LockExpire, workerVars
    <3>3. active[RepoOf[job[w]]] = job[w] /\ job[w] \in Runs
      BY <3>2 DEF WorkIsLocked, Typed, Hands, Holding, InPop, InWork
    <3>4. RepoOf[job[w]] # r
      BY <3>1, <3>3, NoneAssumption DEF LockExpire, IsOrphan
    <3>5. RepoOf[job[w]] \in Repos
      BY <3>3, RepoOfAssumption
    <3>6. QED  BY <1>1, <3>1, <3>2, <3>3, <3>4, <3>5 DEF LockExpire, TypeOK
  <2>4. CASE ~(Crash \/ Exit) /\ ~(\E r \in Repos : LockExpire(r))
    <3>1. active' = active
      BY <1>3, <2>4 DEF Environment, Push, RemoveByRunID, Evict, Shutdown, Restart, vars, redisVars
    <3>2. QED  BY <2>2, <2>4, <3>1 DEF WorkIsLocked
  <2>5. QED  BY <2>1, <2>3, <2>4
<1>4. QED  BY <1>2, <1>3 DEF Next, OneWorker

(* One worker and no eviction: a job in execution holds the lock of its    *)
(* repository, under an error of any other command, in a shutdown, and     *)
(* after a restart that found an older lock.                               *)
THEOREM OneWorkerLocks ==
    OneWorker /\ "evict" \notin FaultKinds => (Spec => []WorkIsLocked)
<1> SUFFICES ASSUME OneWorker, "evict" \notin FaultKinds
             PROVE  Spec => []WorkIsLocked
  OBVIOUS
<1>1. Init => WorkIsLocked
  BY DEF Init, WorkIsLocked
<1>2. Typed /\ Typed' /\ WorkIsLocked /\ [Next]_vars => WorkIsLocked'
  BY WorkIsLockedStep
<1>3. QED  BY <1>1, <1>2, TypedAlways, PTL DEF Spec

-----------------------------------------------------------------------------
(* One worker: the order of Push.                                          *)

(* A list that only loses elements keeps the others in their order.        *)
Thins(r) ==
    /\ \A i \in 1..Len(queue'[r]) : \E m \in 1..Len(queue[r]) : queue'[r][i] = queue[r][m]
    /\ \A i, k \in 1..Len(queue'[r]) : i < k =>
         \E m, n \in 1..Len(queue[r]) :
           m < n /\ queue'[r][i] = queue[r][m] /\ queue'[r][k] = queue[r][n]

LEMMA SameThins ==
    ASSUME NEW r \in Repos, queue'[r] = queue[r]
    PROVE  Thins(r)
  BY DEF Thins

LEMMA EmptyThins ==
    ASSUME NEW r \in Repos, queue'[r] = << >>
    PROVE  Thins(r)
<1>1. 1..Len(queue'[r]) = {}
  OBVIOUS
<1>2. QED  BY <1>1 DEF Thins

LEMMA TailThins ==
    ASSUME NEW r \in Repos, TypeOK, queue[r] # << >>, queue'[r] = Tail(queue[r])
    PROVE  Thins(r)
<1>1. /\ Len(queue'[r]) = Len(queue[r]) - 1 /\ Len(queue[r]) \in Nat
      /\ \A k \in 1..Len(queue'[r]) : queue'[r][k] = queue[r][k+1]
  BY QueueFacts, PopFacts
<1>2. \A k \in 1..Len(queue'[r]) : k + 1 \in 1..Len(queue[r])
  BY <1>1
<1>3. \A i, k \in 1..Len(queue'[r]) : i < k => i + 1 < k + 1
  BY <1>1
<1>4. QED  BY <1>1, <1>2, <1>3 DEF Thins

LEMMA RemoveThins ==
    ASSUME NEW r \in Repos, TypeOK, NEW i \in 1..Len(queue[r]),
           queue'[r] = RemoveAt(queue[r], i)
    PROVE  Thins(r)
<1> DEFINE f(k) == IF k < i THEN k ELSE k + 1
<1>1. /\ Len(queue'[r]) = Len(queue[r]) - 1 /\ Len(queue[r]) \in Nat
      /\ \A k \in 1..Len(queue'[r]) : queue'[r][k] = queue[r][f(k)]
  <2>1. queue[r] \in Seq(Runs) /\ Len(queue[r]) \in Nat
    BY QueueFacts
  <2>2. /\ Len(RemoveAt(queue[r], i)) = Len(queue[r]) - 1
        /\ \A k \in 1..(Len(queue[r]) - 1) :
             RemoveAt(queue[r], i)[k] = IF k < i THEN queue[r][k] ELSE queue[r][k+1]
    BY <2>1, RemoveAtFacts
  <2>3. QED  BY <2>1, <2>2
<1>2. \A k \in 1..Len(queue'[r]) : f(k) \in 1..Len(queue[r])
  BY <1>1
<1>3. \A m, k \in 1..Len(queue'[r]) : m < k => f(m) < f(k)
  BY <1>1
<1> HIDE DEF f
<1>4. QED  BY <1>1, <1>2, <1>3 DEF Thins

(* What a step that hands out nothing leaves of the order.                 *)
ThinStep ==
    /\ \A r \in Repos : Thins(r)
    /\ ticket' = ticket /\ delivered' = delivered
    /\ \A w \in Workers :
         /\ pc'[w] \in Holding => pc[w] \in Holding /\ job'[w] = job[w]
         /\ pc'[w] \in InPop => pc[w] \in InPop

LEMMA ThinKeepsBefore ==
    ASSUME NEW j \in Runs, \A r \in Repos : Thins(r), ticket' = ticket, Before(j)
    PROVE  Before(j)'
<1>1. RepoOf[j] \in Repos
  BY RepoOfAssumption
<1>2. QED  BY <1>1 DEF Before, Thins

LEMMA ThinKeepsOrdered ==
    ASSUME \A r \in Repos : Thins(r), ticket' = ticket, Ordered
    PROVE  Ordered'
<1> SUFFICES ASSUME NEW r \in Repos, NEW i \in 1..Len(queue'[r]), NEW k \in 1..Len(queue'[r]),
                    i < k
             PROVE  ticket'[queue'[r][i]] < ticket'[queue'[r][k]]
  BY DEF Ordered
<1>1. PICK m, n \in 1..Len(queue[r]) :
        m < n /\ queue'[r][i] = queue[r][m] /\ queue'[r][k] = queue[r][n]
  BY DEF Thins
<1>2. QED  BY <1>1 DEF Ordered

LEMMA ThinKeepsOrder ==
    ASSUME Unique, InOrder, ThinStep
    PROVE  InOrder'
<1>1. Numbered'
  BY DEF InOrder, Numbered, ThinStep, Pushed
<1>2. Ordered'
  BY ThinKeepsOrdered DEF InOrder, ThinStep
<1>3. \A j \in delivered' : Before(j)'
  BY ThinKeepsBefore DEF InOrder, Passed, ThinStep, Unique, Typed, TypeOK
<1>4. ASSUME NEW w \in Workers, pc'[w] \in Holding PROVE Before(job[w])'
  <2>1. job[w] \in Runs /\ Before(job[w]) /\ job'[w] = job[w]
    BY <1>4 DEF ThinStep, InOrder, Passed, Unique, Typed, Hands
  <2>2. PICK h \in Runs : h = job[w]
    BY <2>1
  <2>3. Before(h)'
    BY <2>1, <2>2, ThinKeepsBefore DEF ThinStep
  <2>4. QED  BY <2>1, <2>2, <2>3 DEF Before
<1>5. Overtakes'
  BY DEF InOrder, Overtakes, ThinStep, Holding
<1>6. Passed'
  BY <1>3, <1>4 DEF Passed
<1>7. QED  BY <1>1, <1>2, <1>5, <1>6 DEF InOrder

(* RPOP takes the first of the list: what was delivered is before it, and  *)
(* it is before what is left.                                              *)
LEMMA TakesOrder ==
    ASSUME OneWorker, Unique, InOrder, NEW w \in Workers, Takes(w)
    PROVE  InOrder'
<1> DEFINE r == at[w]
           h == Head(queue[at[w]])
<1>1. TypeOK /\ r \in Repos /\ queue[r] # << >>
  BY DEF Takes, RPop, Unique, Typed, Hands, Holding, InPop, InWork
<1>2. /\ h \in Runs /\ h = queue[r][1] /\ Len(queue[r]) \in Nat /\ Len(queue[r]) >= 1
      /\ queue'[r] = Tail(queue[r]) /\ Len(Tail(queue[r])) = Len(queue[r]) - 1
      /\ \A k \in 1..(Len(queue[r]) - 1) : Tail(queue[r])[k] = queue[r][k+1]
  <2>1. queue[r] \in Seq(Runs) /\ Len(queue[r]) \in Nat
    BY <1>1, QueueFacts
  <2>2. queue'[r] = Tail(queue[r])
    BY <1>1 DEF Takes, TypeOK
  <2>3. QED  BY <1>1, <2>1, <2>2, PopFacts
<1>3. /\ ticket' = ticket /\ delivered' = delivered /\ job'[w] = h /\ Workers = {w}
      /\ ticket \in [Runs -> Nat] /\ delivered \subseteq Runs
      /\ \A q \in Repos \ {r} : queue'[q] = queue[q]
  BY <1>1 DEF Takes, RPop, auditVars, TypeOK, OneWorker
<1>4. RepoOf[h] = r
  <2>1. 1 \in 1..Len(queue[r])
    BY <1>2
  <2>2. QED  BY <1>1, <1>2, <2>1 DEF Unique, Typed, Homes
<1> HIDE DEF r, h
<1>5. \A q \in Repos : Thins(q)
  BY <1>1, <1>2, <1>3, TailThins, SameThins
<1>6. Numbered' /\ Ordered'
  <2>1. Numbered'
    BY <1>3 DEF InOrder, Numbered, Pushed
  <2>2. QED  BY <1>3, <1>5, <2>1, ThinKeepsOrdered DEF InOrder
<1>7. \A j \in delivered' : Before(j)'
  BY <1>3, <1>5, ThinKeepsBefore DEF InOrder, Passed
<1>8. \A i \in 1..Len(queue'[r]) : ticket'[h] < ticket'[queue'[r][i]]
  <2>1. TAKE i \in 1..Len(queue'[r])
  <2>2. i + 1 \in 1..Len(queue[r]) /\ 1 \in 1..Len(queue[r]) /\ 1 < i + 1
        /\ queue'[r][i] = queue[r][i+1]
    BY <1>2
  <2>3. ticket[queue[r][1]] < ticket[queue[r][i+1]]
    BY <1>1, <2>2 DEF InOrder, Ordered
  <2>4. QED  BY <1>2, <1>3, <2>2, <2>3
<1>9. \A j \in delivered : RepoOf[j] = r => ticket[j] < ticket[h]
  <2>1. 1 \in 1..Len(queue[r])
    BY <1>2
  <2>2. QED  BY <1>2, <2>1 DEF InOrder, Passed, Before
<1>10. Passed'
  BY <1>3, <1>4, <1>7, <1>8 DEF Passed, Before
<1>11. Overtakes'
  BY <1>3, <1>4, <1>9 DEF Overtakes
<1>12. QED  BY <1>6, <1>10, <1>11 DEF InOrder

(* RPUSH puts the job where it was: in front of the list, and after what   *)
(* was delivered.                                                          *)
LEMMA ReturnsOrder ==
    ASSUME OneWorker, Unique, InOrder, NEW w \in Workers, Returns(w)
    PROVE  InOrder'
<1> DEFINE r == at[w]
           h == job[w]
<1>1. /\ TypeOK /\ h \in Runs /\ r = RepoOf[h] /\ r \in Repos
      /\ pc[w] \in InPop /\ pc[w] \in Holding
  BY RepoOfAssumption DEF Returns, Requeue, Unique, Typed, Hands, Holding, InPop
<1>2. /\ queue[r] \in Seq(Runs) /\ Len(queue[r]) \in Nat
      /\ queue'[r] = <<h>> \o queue[r] /\ Len(<<h>> \o queue[r]) = Len(queue[r]) + 1
      /\ \A k \in 1..(Len(queue[r]) + 1) :
           (<<h>> \o queue[r])[k] = IF k = 1 THEN h ELSE queue[r][k-1]
  <2>1. queue[r] \in Seq(Runs) /\ Len(queue[r]) \in Nat
    BY <1>1, QueueFacts
  <2>2. queue'[r] = <<h>> \o queue[r]
    BY <1>1 DEF Returns, TypeOK
  <2> HIDE DEF r, h
  <2>3. QED  BY <1>1, <2>1, <2>2, PrependFacts
<1>3. /\ ticket' = ticket /\ delivered' = delivered /\ Workers = {w}
      /\ ticket \in [Runs -> Nat] /\ delivered \subseteq Runs
      /\ \A q \in Repos \ {r} : queue'[q] = queue[q]
  BY <1>1 DEF Returns, Requeue, auditVars, TypeOK, OneWorker
<1>4. pc'[w] \notin Holding
  BY <1>1 DEF Returns, Requeue, NextKey, Goto, TypeOK, Holding, InPop, InWork
<1>5. /\ \A i \in 1..Len(queue[r]) : ticket[h] < ticket[queue[r][i]]
      /\ \A j \in delivered : RepoOf[j] = r => ticket[j] < ticket[h]
  BY <1>1 DEF InOrder, Passed, Before, Overtakes
<1>6. \A j \in delivered : \A i \in 1..Len(queue[RepoOf[j]]) :
        ticket[j] < ticket[queue[RepoOf[j]][i]]
  BY DEF InOrder, Passed, Before
<1>7. \A q \in Repos : \A i, k \in 1..Len(queue[q]) :
        i < k => ticket[queue[q][i]] < ticket[queue[q][k]]
  BY DEF InOrder, Ordered
<1> HIDE DEF r, h
<1>8. \A k \in 1..Len(queue'[r]) :
        \/ k = 1 /\ queue'[r][k] = h
        \/ k # 1 /\ k - 1 \in 1..Len(queue[r]) /\ queue'[r][k] = queue[r][k-1]
  BY <1>2
<1>9. Numbered'
  BY <1>3 DEF InOrder, Numbered, Pushed
<1>10. ASSUME NEW q \in Repos, NEW i \in 1..Len(queue'[q]), NEW k \in 1..Len(queue'[q]), i < k
       PROVE  ticket'[queue'[q][i]] < ticket'[queue'[q][k]]
  <2>1. CASE q # r
    BY <1>3, <1>7, <1>10, <2>1
  <2>2. CASE q = r /\ i = 1
    <3>1. k # 1
      BY <1>10, <2>2
    <3>2. QED  BY <1>3, <1>5, <1>8, <1>10, <2>2, <3>1
  <2>3. CASE q = r /\ i # 1
    <3>1. /\ i - 1 \in 1..Len(queue[r]) /\ k - 1 \in 1..Len(queue[r]) /\ i - 1 < k - 1
          /\ queue'[r][i] = queue[r][i-1] /\ queue'[r][k] = queue[r][k-1]
      BY <1>2, <1>8, <1>10, <2>3
    <3>2. QED  BY <1>1, <1>3, <1>7, <2>3, <3>1
  <2>4. QED  BY <2>1, <2>2, <2>3
<1>11. ASSUME NEW j \in delivered, NEW i \in 1..Len(queue'[RepoOf[j]])
       PROVE  ticket'[j] < ticket'[queue'[RepoOf[j]][i]]
  <2>1. RepoOf[j] \in Repos
    BY <1>3, RepoOfAssumption
  <2>2. CASE RepoOf[j] # r
    BY <1>3, <1>6, <1>11, <2>1, <2>2
  <2>3. CASE RepoOf[j] = r
    BY <1>3, <1>5, <1>6, <1>8, <1>11, <2>3
  <2>4. QED  BY <2>2, <2>3
<1>12. Passed'
  BY <1>3, <1>4, <1>11 DEF Passed, Before
<1>13. Overtakes'
  BY <1>3, <1>4 DEF Overtakes, Holding
<1>14. QED  BY <1>9, <1>10, <1>12, <1>13 DEF InOrder, Ordered

LEMMA TrackOrder ==
    ASSUME OneWorker, Unique, InOrder, NEW w \in Workers, Track(w)
    PROVE  InOrder'
<1>1. /\ ticket' = ticket /\ queue' = queue /\ job' = job /\ Workers = {w}
      /\ delivered' = delivered \cup {job[w]} /\ pc'[w] = "working"
      /\ pc[w] \in Holding
  BY DEF Track, Goto, Unique, Typed, TypeOK, OneWorker, Holding, InPop
<1>2. Numbered' /\ Ordered'
  BY <1>1 DEF InOrder, Numbered, Ordered, Pushed
<1>3. Passed'
  BY <1>1 DEF InOrder, Passed, Before
<1>4. Overtakes'
  BY <1>1 DEF Overtakes, InPop
<1>5. QED  BY <1>2, <1>3, <1>4 DEF InOrder

(* LPUSH gives the last place and the greatest number.                     *)
LEMMA PushOrder ==
    ASSUME Unique, InOrder, NEW n \in Runs, Push(n)
    PROVE  InOrder'
<1> DEFINE r == RepoOf[n]
           top == 1 + Cardinality(Pushed)
<1>1. /\ TypeOK /\ r \in Repos /\ ticket[n] = 0 /\ ticket \in [Runs -> Nat]
      /\ delivered \subseteq Runs /\ Cardinality(Pushed) \in Nat
  BY RepoOfAssumption, TicketIsNat DEF Push, Unique, Typed, TypeOK
<1>2. /\ pc' = pc /\ job' = job /\ delivered' = delivered
      /\ ticket' = [ticket EXCEPT ![n] = top]
      /\ queue' = [queue EXCEPT ![r] = Append(queue[r], n)]
  BY DEF Push, workerVars
<1>3. ticket'[n] = top /\ \A j \in Runs \ {n} : ticket'[j] = ticket[j]
  BY <1>1, <1>2
<1>4. /\ Len(queue[r]) \in Nat /\ queue'[r] = Append(queue[r], n)
      /\ Len(queue'[r]) = Len(queue[r]) + 1
      /\ \A k \in 1..(Len(queue[r]) + 1) :
           queue'[r][k] = IF k = Len(queue[r]) + 1 THEN n ELSE queue[r][k]
      /\ \A q \in Repos \ {r} : queue'[q] = queue[q]
  <2>1. queue[r] \in Seq(Runs) /\ Len(queue[r]) \in Nat
    BY <1>1, QueueFacts
  <2>2. queue'[r] = Append(queue[r], n) /\ \A q \in Repos \ {r} : queue'[q] = queue[q]
    BY <1>1, <1>2 DEF TypeOK
  <2> HIDE DEF r
  <2>3. QED  BY <2>1, <2>2, AppendFacts
<1>5. Cardinality(Pushed') = top
  <2>1. Pushed' = Pushed \cup {n} /\ n \notin Pushed
    BY <1>1, <1>3 DEF Pushed
  <2>2. IsFiniteSet(Pushed)
    <3>1. Pushed \subseteq Runs
      BY DEF Pushed
    <3>2. QED  BY <3>1, RunsAssumption, FS_Subset
  <2>3. Cardinality(Pushed \cup {n}) = Cardinality(Pushed) + 1
    BY <2>1, <2>2, FS_AddElement
  <2>4. QED  BY <1>1, <2>1, <2>3
(* The pushed job is new: no list, no hand and no delivery has it.         *)
<1>6. /\ \A q \in Repos : \A i \in 1..Len(queue[q]) : queue[q][i] \in Runs \ {n}
      /\ \A j \in delivered : j \in Runs \ {n}
      /\ \A w \in Workers : pc[w] \in Holding => job[w] \in Runs \ {n}
  BY <1>1, QueueFacts DEF Unique, Fresh, Typed, Hands
<1>7. \A j \in Runs : ticket[j] < top
  BY <1>1 DEF InOrder, Numbered
<1> HIDE DEF r, top
<1>8. Numbered'
  <2>1. top \in Nat
    BY <1>1 DEF top
  <2>2. QED  BY <1>1, <1>3, <1>5, <1>7, <2>1 DEF Numbered
<1>9. \A q \in Repos : \A k \in 1..Len(queue'[q]) :
        \/ q = r /\ k = Len(queue[r]) + 1 /\ queue'[q][k] = n
        \/ k \in 1..Len(queue[q]) /\ queue'[q][k] = queue[q][k]
  BY <1>4
<1>10. ASSUME NEW q \in Repos, NEW i \in 1..Len(queue'[q]), NEW k \in 1..Len(queue'[q]), i < k
       PROVE  ticket'[queue'[q][i]] < ticket'[queue'[q][k]]
  <2>1. i \in 1..Len(queue[q]) /\ queue'[q][i] = queue[q][i]
    BY <1>4, <1>9, <1>10
  <2>2. ticket'[queue'[q][i]] = ticket[queue[q][i]] /\ queue[q][i] \in Runs
    BY <1>3, <1>6, <2>1
  <2>3. CASE queue'[q][k] = n
    BY <1>3, <1>7, <2>2, <2>3
  <2>4. CASE k \in 1..Len(queue[q]) /\ queue'[q][k] = queue[q][k]
    <3>1. ticket'[queue'[q][k]] = ticket[queue[q][k]]
      BY <1>3, <1>6, <2>4
    <3>2. QED  BY <1>10, <2>1, <2>2, <2>4, <3>1 DEF InOrder, Ordered
  <2>5. QED  BY <1>9, <2>3, <2>4
<1>11. ASSUME NEW j \in Runs \ {n}, Before(j), NEW k \in 1..Len(queue'[RepoOf[j]])
       PROVE  ticket'[j] < ticket'[queue'[RepoOf[j]][k]]
  <2>1. RepoOf[j] \in Repos /\ ticket'[j] = ticket[j]
    BY <1>3, RepoOfAssumption
  <2>2. CASE queue'[RepoOf[j]][k] = n
    BY <1>3, <1>7, <2>1, <2>2
  <2>3. CASE k \in 1..Len(queue[RepoOf[j]]) /\ queue'[RepoOf[j]][k] = queue[RepoOf[j]][k]
    <3>1. ticket'[queue'[RepoOf[j]][k]] = ticket[queue[RepoOf[j]][k]]
      BY <1>3, <1>6, <2>1, <2>3
    <3>2. QED  BY <1>11, <2>1, <2>3, <3>1 DEF Before
  <2>4. QED  BY <1>9, <1>11, <2>1, <2>2, <2>3
<1>12. Passed'
  BY <1>2, <1>6, <1>11 DEF InOrder, Passed, Before
<1>13. Overtakes'
  BY <1>2, <1>3, <1>6 DEF InOrder, Overtakes, Holding
<1>14. QED  BY <1>8, <1>10, <1>12, <1>13 DEF InOrder, Ordered

LEMMA WorkerThins ==
    ASSUME OneWorker, Unique, NEW w \in Workers, RunWorker(w),
           ~Takes(w), ~Returns(w), ~Track(w)
    PROVE  ThinStep
<1>1. TypeOK /\ Workers = {w}
  BY DEF Unique, Typed, OneWorker
<1>2. ticket' = ticket /\ delivered' = delivered
  BY DEF RunWorker, Pop, Ack, Stop, Scan, Exists, RPop, SetLock, Requeue, Track, Work, AckDel,
         AckRem, auditVars
<1>3. /\ pc'[w] \in Holding => pc[w] \in Holding /\ job'[w] = job[w]
      /\ pc'[w] \in InPop => pc[w] \in InPop
  <2>1. CASE Stop(w) \/ Scan(w) \/ (\E r \in Repos : Exists(w, r)) \/ RPop(w) \/ Requeue(w)
             \/ AckRem(w)
    <3>1. ~Takes(w) /\ RPop(w) => pc'[w] \notin Holding
      BY <1>1 DEF RPop, Takes, NextKey, Goto, TypeOK, Holding, InPop, InWork
    <3>2. ~RPop(w) => pc'[w] \notin Holding
      BY <1>1, <2>1
      DEF Stop, Scan, Exists, Requeue, AckRem, NextKey, Goto, TypeOK, Holding, InPop, InWork
    <3>3. QED  BY <3>1, <3>2 DEF Holding
  <2>2. CASE SetLock(w) \/ AckDel(w) \/ \E f \in BOOLEAN : Work(w, f)
    BY <1>1, <2>2 DEF SetLock, AckDel, Work, Goto, TypeOK, Holding, InPop, InWork
  <2>3. QED  BY <2>1, <2>2 DEF RunWorker, Pop, Ack
<1>4. \A r \in Repos : Thins(r)
  <2>1. CASE queue' = queue
    BY <2>1, SameThins
  <2>2. CASE Drops(w)
    <3>1. at[w] \in Repos
      BY <2>2 DEF Drops, RPop, Unique, Typed, Hands, Holding, InPop, InWork
    <3>2. queue'[at[w]] = Tail(queue[at[w]]) /\ \A r \in Repos \ {at[w]} : queue'[r] = queue[r]
      BY <1>1, <2>2, <3>1 DEF Drops, TypeOK
    <3>3. QED  BY <1>1, <2>2, <3>1, <3>2, TailThins, SameThins DEF Drops
  <2>3. queue' = queue \/ Drops(w)
    <3>1. CASE RPop(w)
      BY <3>1, RPopKinds
      DEF WorkerQuiet, Stop, Scan, Exists, SetLock, Work, AckDel, Track, redisVars
    <3>2. CASE Requeue(w)
      BY <3>2, RequeueKinds DEF Mislaid
    <3>3. CASE ~RPop(w) /\ ~Requeue(w)
      BY <3>3 DEF RunWorker, Pop, Ack, Stop, Scan, Exists, SetLock, Track, Work, AckDel, AckRem,
                  redisVars
    <3>4. QED  BY <3>1, <3>2, <3>3
  <2>4. QED  BY <2>1, <2>2, <2>3
<1>5. QED  BY <1>1, <1>2, <1>3, <1>4 DEF ThinStep

LEMMA EnvironmentThins ==
    ASSUME Unique, Environment \/ UNCHANGED vars, \A j \in Runs : ~Push(j)
    PROVE  ThinStep
<1>1. TypeOK
  BY DEF Unique, Typed
<1>2. ticket' = ticket /\ delivered' = delivered
  BY DEF Environment, RemoveByRunID, LockExpire, Evict, Crash, Shutdown, Exit, Restart, vars,
         auditVars
<1>3. ASSUME NEW w \in Workers
      PROVE  /\ pc'[w] \in Holding => pc[w] \in Holding /\ job'[w] = job[w]
             /\ pc'[w] \in InPop => pc[w] \in InPop
  <2>1. CASE Crash \/ Exit
    <3>1. pc'[w] = "idle"
      BY <2>1 DEF Crash, Exit, ForgetWorkers
    <3>2. QED  BY <3>1 DEF Holding, InPop, InWork
  <2>2. CASE ~(Crash \/ Exit)
    <3>1. pc' = pc /\ job' = job
      BY <2>2 DEF Environment, RemoveByRunID, LockExpire, Evict, Shutdown, Restart, vars,
                  workerVars
    <3>2. QED  BY <3>1
  <2>3. QED  BY <2>1, <2>2
<1>4. ASSUME NEW r \in Repos PROVE Thins(r)
  <2>1. CASE \E j \in Runs : RemoveByRunID(j)
    <3>1. PICK j \in Runs : RemoveByRunID(j)
      BY <2>1
    <3>2. PICK i \in 1..Len(queue[RepoOf[j]]) :
            queue' = [queue EXCEPT ![RepoOf[j]] = RemoveAt(queue[RepoOf[j]], i)]
      BY <3>1 DEF RemoveByRunID
    <3>3. CASE r = RepoOf[j]
      <4>1. queue'[r] = RemoveAt(queue[r], i)
        BY <1>1, <3>2, <3>3 DEF TypeOK
      <4>2. QED  BY <1>1, <3>3, <4>1, RemoveThins
    <3>4. CASE r # RepoOf[j]
      <4>1. queue'[r] = queue[r]
        BY <1>1, <3>2, <3>4 DEF TypeOK
      <4>2. QED  BY <4>1, SameThins
    <3>5. QED  BY <3>3, <3>4
  <2>2. CASE \E q \in Repos : Evict(q)
    <3>1. queue'[r] = queue[r] \/ queue'[r] = << >>
      BY <1>1, <2>2 DEF Evict, TypeOK
    <3>2. QED  BY <3>1, SameThins, EmptyThins
  <2>3. CASE ~(\E j \in Runs : RemoveByRunID(j)) /\ ~(\E q \in Repos : Evict(q))
    <3>1. queue' = queue
      BY <2>3 DEF Environment, LockExpire, Crash, Shutdown, Exit, Restart, vars, redisVars
    <3>2. QED  BY <3>1, SameThins
  <2>4. QED  BY <2>1, <2>2, <2>3
<1>5. QED  BY <1>2, <1>3, <1>4 DEF ThinStep

LEMMA InOrderStep ==
    ASSUME OneWorker
    PROVE  Unique /\ InOrder /\ [Next]_vars => InOrder'
<1> SUFFICES ASSUME Unique, InOrder, [Next]_vars PROVE InOrder'
  OBVIOUS
<1>1. CASE \E w \in Workers : RunWorker(w)
  BY <1>1, TakesOrder, ReturnsOrder, TrackOrder, WorkerThins, ThinKeepsOrder
<1>2. CASE \E j \in Runs : Push(j)
  BY <1>2, PushOrder
<1>3. CASE (Environment \/ UNCHANGED vars) /\ \A j \in Runs : ~Push(j)
  BY <1>3, EnvironmentThins, ThinKeepsOrder
<1>4. QED  BY <1>1, <1>2, <1>3 DEF Next

LEMMA InOrderInit == Init => InOrder
<1> SUFFICES ASSUME Init PROVE InOrder
  OBVIOUS
<1>1. Pushed = {} /\ \A j \in Runs : ticket[j] = 0
  BY DEF Init, Pushed
<1>2. Numbered
  BY <1>1, FS_EmptySet DEF Numbered
<1>3. \A r \in Repos : 1..Len(queue[r]) = {}
  BY DEF Init
<1>4. QED
  BY <1>2, <1>3 DEF Init, InOrder, Ordered, Passed, Overtakes, Holding, InPop, InWork

(* One worker: the jobs of a repository reach the executor in the order of *)
(* Push, whatever fails, is cancelled or evicted and wherever the process  *)
(* dies, also when a job is put back for want of its lock.                 *)
THEOREM OneWorkerFifo == OneWorker => (Spec => []FifoPerRepo)
<1> SUFFICES ASSUME OneWorker PROVE Spec => []FifoPerRepo
  OBVIOUS
<1>1. Unique /\ InOrder /\ [Next]_vars => InOrder'
  BY InOrderStep
<1>2. InOrder => FifoPerRepo
  BY DEF InOrder, Ordered, Passed, Before, Held, FifoPerRepo
<1>3. QED  BY <1>1, <1>2, InOrderInit, UniqueAlways, PTL DEF Spec
=============================================================================
