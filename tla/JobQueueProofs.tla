-------------------------- MODULE JobQueueProofs --------------------------
(***************************************************************************)
(* Proofs about JobQueue, for any number of runs, repositories, workers,   *)
(* faults, crashes and shutdowns: its types, that it implements            *)
(* JobDelivery, and what may lose a job.                                   *)
(***************************************************************************)
EXTENDS JobQueue, FiniteSetTheorems, SequenceTheorems, TLAPS

-----------------------------------------------------------------------------
(* The list operations of Redis.                                           *)

(* LREM of one element: the others keep their order.                       *)
LEMMA RemoveAtFacts ==
    ASSUME NEW S, NEW s \in Seq(S), NEW i \in 1..Len(s)
    PROVE  /\ RemoveAt(s, i) \in Seq(S)
           /\ Len(RemoveAt(s, i)) = Len(s) - 1
           /\ \A k \in 1..(Len(s) - 1) :
                RemoveAt(s, i)[k] = IF k < i THEN s[k] ELSE s[k+1]
<1> DEFINE front == SubSeq(s, 1, i-1)
           back  == SubSeq(s, i+1, Len(s))
<1>1. RemoveAt(s, i) = front \o back
  BY DEF RemoveAt
<1>2. /\ front \in Seq(S) /\ Len(front) = i - 1
      /\ \A k \in 1..(i-1) : front[k] = s[k]
  OBVIOUS
<1>3. /\ back \in Seq(S) /\ Len(back) = Len(s) - i
      /\ \A k \in 1..(Len(s) - i) : back[k] = s[i+k]
  OBVIOUS
<1> HIDE DEF front, back
<1>4. /\ front \o back \in Seq(S)
      /\ Len(front \o back) = Len(s) - 1
      /\ \A k \in 1..(Len(s) - 1) :
           (front \o back)[k] = IF k <= i - 1 THEN front[k] ELSE back[k - (i-1)]
  <2>1. /\ front \o back \in Seq(S)
        /\ Len(front \o back) = Len(front) + Len(back)
        /\ \A k \in 1..(Len(front) + Len(back)) :
             (front \o back)[k] = IF k <= Len(front) THEN front[k] ELSE back[k - Len(front)]
    BY <1>2, <1>3, ConcatProperties
  <2>2. Len(front) + Len(back) = Len(s) - 1
    BY <1>2, <1>3
  <2>3. QED  BY <1>2, <2>1, <2>2
<1>5. \A k \in 1..(Len(s) - 1) : (front \o back)[k] = IF k < i THEN s[k] ELSE s[k+1]
  <2>1. TAKE k \in 1..(Len(s) - 1)
  <2>2. CASE k < i
    BY <2>2, <1>2, <1>4
  <2>3. CASE ~(k < i)
    <3>1. k - (i-1) \in 1..(Len(s) - i) /\ i + (k - (i-1)) = k + 1
      BY <2>3
    <3>2. QED  BY <2>3, <3>1, <1>3, <1>4
  <2>4. QED  BY <2>2, <2>3
<1>6. QED  BY <1>1, <1>4, <1>5

(* LPUSH.                                                                  *)
LEMMA AppendFacts ==
    ASSUME NEW S, NEW s \in Seq(S), NEW e \in S
    PROVE  /\ Append(s, e) \in Seq(S)
           /\ Len(Append(s, e)) = Len(s) + 1
           /\ \A k \in 1..(Len(s) + 1) :
                Append(s, e)[k] = IF k = Len(s) + 1 THEN e ELSE s[k]
  OBVIOUS

(* RPUSH.                                                                  *)
LEMMA PrependFacts ==
    ASSUME NEW S, NEW s \in Seq(S), NEW e \in S
    PROVE  /\ <<e>> \o s \in Seq(S)
           /\ Len(<<e>> \o s) = Len(s) + 1
           /\ \A k \in 1..(Len(s) + 1) :
                (<<e>> \o s)[k] = IF k = 1 THEN e ELSE s[k-1]
  OBVIOUS

(* RPOP.                                                                   *)
LEMMA PopFacts ==
    ASSUME NEW S, NEW s \in Seq(S), s # << >>
    PROVE  /\ Head(s) \in S /\ Head(s) = s[1] /\ Len(s) >= 1
           /\ Tail(s) \in Seq(S)
           /\ Len(Tail(s)) = Len(s) - 1
           /\ \A k \in 1..(Len(s) - 1) : Tail(s)[k] = s[k+1]
  OBVIOUS

LEMMA QueueFacts ==
    ASSUME TypeOK, NEW r \in Repos
    PROVE  /\ queue[r] \in Seq(Runs) /\ Len(queue[r]) \in Nat
           /\ \A i \in 1..Len(queue[r]) : queue[r][i] \in Runs
  BY DEF TypeOK

-----------------------------------------------------------------------------
(* What the types rest on: a worker that is past RPOP has a job of the     *)
(* repository it looks at, any other worker has none, and a list holds     *)
(* jobs of its own repository only.                                        *)
Hands ==
    \A w \in Workers :
      /\ pc[w] \in Holding => job[w] \in Runs /\ at[w] = RepoOf[job[w]]
      /\ pc[w] \notin Holding => job[w] = None
      /\ pc[w] = "checked" => at[w] \in Repos
Homes == \A r \in Repos : \A i \in 1..Len(queue[r]) : RepoOf[queue[r][i]] = r
Typed == TypeOK /\ Hands /\ Homes

LEMMA TicketIsNat == TypeOK => Cardinality(Pushed) \in Nat
<1>1. Pushed \subseteq Runs  BY DEF Pushed
<1>2. IsFiniteSet(Pushed)  BY <1>1, RunsAssumption, FS_Subset
<1>3. QED  BY <1>2, FS_CardinalityType

LEMMA TypedInit == Init => Typed
  BY RepoOfAssumption, BoundsAssumption
  DEF Init, Typed, TypeOK, Hands, Homes, Holding, InPop, InWork, Idle

LEMMA TypedPush ==
    ASSUME Typed, NEW j \in Runs, Push(j)
    PROVE  Typed'
<1> USE RepoOfAssumption
<1> DEFINE r == RepoOf[j]
<1>1. r \in Repos  OBVIOUS
<1>2. /\ Append(queue[r], j) \in Seq(Runs)
      /\ Len(Append(queue[r], j)) = Len(queue[r]) + 1
      /\ \A k \in 1..(Len(queue[r]) + 1) :
           Append(queue[r], j)[k] = IF k = Len(queue[r]) + 1 THEN j ELSE queue[r][k]
  BY <1>1, AppendFacts DEF Typed, TypeOK
<1>3. TypeOK'
  BY <1>1, <1>2, TicketIsNat DEF Typed, TypeOK, Push, workerVars, boundVars
<1>4. Hands'
  BY DEF Typed, Hands, Push, workerVars
<1>5. Homes'
  BY <1>1, <1>2, QueueFacts, SMTT(20) DEF Typed, TypeOK, Homes, Push
<1>6. QED  BY <1>3, <1>4, <1>5 DEF Typed

LEMMA TypedRemove ==
    ASSUME Typed, NEW j \in Runs, RemoveByRunID(j)
    PROVE  Typed'
<1> USE RepoOfAssumption
<1> DEFINE r == RepoOf[j]
<1>1. r \in Repos  OBVIOUS
<1>2. PICK i \in 1..Len(queue[r]) : queue' = [queue EXCEPT ![r] = RemoveAt(@, i)]
  BY DEF RemoveByRunID
<1>3. /\ RemoveAt(queue[r], i) \in Seq(Runs)
      /\ Len(RemoveAt(queue[r], i)) = Len(queue[r]) - 1
      /\ \A k \in 1..(Len(queue[r]) - 1) :
           RemoveAt(queue[r], i)[k] = IF k < i THEN queue[r][k] ELSE queue[r][k+1]
  BY <1>1, <1>2, QueueFacts, RemoveAtFacts DEF Typed
<1>4. TypeOK'
  BY <1>1, <1>2, <1>3 DEF Typed, TypeOK, RemoveByRunID, workerVars, auditVars, boundVars
<1>5. Hands'
  BY DEF Typed, Hands, RemoveByRunID, workerVars
<1>6. Homes'
  <2>1. SUFFICES ASSUME NEW q \in Repos, NEW k \in 1..Len(queue'[q])
                 PROVE  RepoOf[queue'[q][k]] = q
    BY DEF Homes
  <2>2. CASE q = r
    <3>1. queue'[q] = RemoveAt(queue[r], i)
      BY <1>1, <1>2, <2>2 DEF Typed, TypeOK
    <3>2. k \in 1..Len(queue[r]) /\ (k < i \/ k+1 \in 1..Len(queue[r]))
      BY <1>1, <1>3, <3>1, QueueFacts DEF Typed
    <3>3. QED  BY <1>1, <1>3, <2>2, <3>1, <3>2, QueueFacts DEF Typed, Homes
  <2>3. CASE q # r
    BY <1>1, <1>2, <2>3 DEF Typed, TypeOK, Homes
  <2>4. QED  BY <2>2, <2>3
<1>7. QED  BY <1>4, <1>5, <1>6 DEF Typed

(* The worker steps that leave the lists alone.                            *)
LEMMA TypedStop ==
    ASSUME Typed, NEW w \in Workers, Stop(w)
    PROVE  Typed'
<1> USE RepoOfAssumption DEF Holding, InPop, InWork, Idle, Stop, redisVars, auditVars, boundVars, Goto
<1>1. TypeOK'
  BY DEF Typed, TypeOK, Hands
<1>2. Hands'
  BY DEF Typed, TypeOK, Hands
<1>3. Homes'
  BY DEF Typed, Homes
<1>4. QED  BY <1>1, <1>2, <1>3 DEF Typed

LEMMA TypedScan ==
    ASSUME Typed, NEW w \in Workers, Scan(w)
    PROVE  Typed'
<1> USE RepoOfAssumption DEF Holding, InPop, InWork, Idle, Scan, NonEmpty, redisVars, auditVars, boundVars, Goto
<1>1. TypeOK'
  BY DEF Typed, TypeOK, Hands
<1>2. Hands'
  BY DEF Typed, TypeOK, Hands
<1>3. Homes'
  BY DEF Typed, Homes
<1>4. QED  BY <1>1, <1>2, <1>3 DEF Typed

LEMMA TypedExists ==
    ASSUME Typed, NEW w \in Workers, NEW r \in Repos, Exists(w, r)
    PROVE  Typed'
<1> USE RepoOfAssumption DEF Holding, InPop, InWork, Idle, Exists, Works, Fails, redisVars, auditVars, NextKey, Goto
<1>1. TypeOK'
  <2>1. pc' \in [Workers -> Idle \cup Holding]  BY DEF Typed, TypeOK
  <2>2. at' \in [Workers -> Repos \cup {None}]   BY DEF Typed, TypeOK
  <2>3. visit' \in [Workers -> SUBSET Repos]     BY DEF Typed, TypeOK
  <2>4. faults' \in Nat                          BY DEF Typed, TypeOK
  <2>5. QED  BY <2>1, <2>2, <2>3, <2>4 DEF Typed, TypeOK
<1>2. Hands'
  <2>1. /\ pc[w] = "scanning" /\ pc'[w] \in {"checked", "idle", "scanning"}
        /\ job' = job /\ (pc'[w] = "checked" => at'[w] = r)
    BY DEF Typed, TypeOK
  <2>2. \A v \in Workers \ {w} : pc'[v] = pc[v] /\ at'[v] = at[v]
    BY DEF Typed, TypeOK
  <2>3. QED  BY <2>1, <2>2 DEF Typed, Hands
<1>3. Homes'
  BY DEF Typed, Homes
<1>4. QED  BY <1>1, <1>2, <1>3 DEF Typed

LEMMA TypedSetLock ==
    ASSUME Typed, NEW w \in Workers, SetLock(w)
    PROVE  Typed'
<1> USE RepoOfAssumption DEF Holding, InPop, InWork, Idle, SetLock, Works, Fails, auditVars, Goto
<1>1. TypeOK'
  <2>1. job[w] \in Runs                          BY DEF Typed, Hands
  <2>2. active' \in [Repos -> Runs \cup {None}]
    BY <2>1 DEF Typed, TypeOK
  <2>3. pc' \in [Workers -> Idle \cup Holding]  BY DEF Typed, TypeOK
  <2>4. faults' \in Nat                          BY DEF Typed, TypeOK
  <2>5. QED  BY <2>2, <2>3, <2>4 DEF Typed, TypeOK
<1>2. Hands'
  BY DEF Typed, TypeOK, Hands
<1>3. Homes'
  BY DEF Typed, Homes
<1>4. QED  BY <1>1, <1>2, <1>3 DEF Typed

LEMMA TypedTrack ==
    ASSUME Typed, NEW w \in Workers, Track(w)
    PROVE  Typed'
<1> USE RepoOfAssumption DEF Holding, InPop, InWork, Idle, Track, Works, Fails, Goto
<1>1. TypeOK'
  BY DEF Typed, TypeOK, Hands
<1>2. Hands'
  BY DEF Typed, TypeOK, Hands
<1>3. Homes'
  BY DEF Typed, Homes
<1>4. QED  BY <1>1, <1>2, <1>3 DEF Typed

LEMMA TypedWork ==
    ASSUME Typed, NEW w \in Workers, NEW f \in BOOLEAN, Work(w, f)
    PROVE  Typed'
<1> USE RepoOfAssumption DEF Holding, InPop, InWork, Idle, Work, redisVars, auditVars, boundVars, Goto
<1>1. TypeOK'
  BY DEF Typed, TypeOK, Hands
<1>2. Hands'
  BY DEF Typed, TypeOK, Hands
<1>3. Homes'
  BY DEF Typed, Homes
<1>4. QED  BY <1>1, <1>2, <1>3 DEF Typed

LEMMA TypedAckDel ==
    ASSUME Typed, NEW w \in Workers, AckDel(w)
    PROVE  Typed'
<1> USE RepoOfAssumption DEF Holding, InPop, InWork, Idle, AckDel, Works, Fails, auditVars, Goto
<1>1. TypeOK'
  BY DEF Typed, TypeOK, Hands
<1>2. Hands'
  BY DEF Typed, TypeOK, Hands
<1>3. Homes'
  BY DEF Typed, Homes
<1>4. QED  BY <1>1, <1>2, <1>3 DEF Typed

LEMMA TypedAckRem ==
    ASSUME Typed, NEW w \in Workers, AckRem(w)
    PROVE  Typed'
<1> USE RepoOfAssumption DEF Holding, InPop, InWork, Idle, AckRem, Works, Fails, auditVars, Goto, LetGo
<1>1. TypeOK'
  BY SMTT(20) DEF Typed, TypeOK, Hands
<1>2. Hands'
  BY DEF Typed, TypeOK, Hands
<1>3. Homes'
  BY DEF Typed, Homes
<1>4. QED  BY <1>1, <1>2, <1>3 DEF Typed

LEMMA TypedEnvironment ==
    ASSUME Typed,
           \/ \E r \in Repos : LockExpire(r)
           \/ Crash \/ Shutdown \/ Exit \/ Restart \/ UNCHANGED vars
    PROVE  Typed'
<1> USE RepoOfAssumption
    DEF Typed, TypeOK, Hands, Homes, Holding, InPop, InWork, Idle,
        redisVars, workerVars, auditVars, boundVars, ForgetWorkers
<1>1. CASE \E r \in Repos : LockExpire(r)  BY <1>1 DEF LockExpire
<1>2. CASE Crash            BY <1>2 DEF Crash
<1>3. CASE Shutdown         BY <1>3 DEF Shutdown
<1>4. CASE Exit             BY <1>4 DEF Exit
<1>5. CASE Restart          BY <1>5 DEF Restart
<1>6. CASE UNCHANGED vars   BY <1>6 DEF vars
<1>7. QED  BY <1>1, <1>2, <1>3, <1>4, <1>5, <1>6

LEMMA TypedRPop ==
    ASSUME Typed, NEW w \in Workers, RPop(w)
    PROVE  Typed'
<1> USE RepoOfAssumption
<1> DEFINE r == at[w]
<1>1. pc[w] = "checked" /\ r \in Repos
  BY DEF RPop, Typed, Hands
<1>2. CASE queue' = queue /\ job' = job
  <2>1. TypeOK'
    <3>1. /\ pc' \in [Workers -> Idle \cup Holding]
          /\ at' \in [Workers -> Repos \cup {None}]
      BY <1>1 DEF Typed, TypeOK, RPop, Goto, NextKey, Idle, Holding, InPop
    <3>2. faults' \in Nat
      BY DEF Typed, TypeOK, RPop, Fails
    <3>3. QED  BY <1>2, <3>1, <3>2 DEF Typed, TypeOK, RPop, auditVars
  <2>2. Hands'
    BY <1>1, <1>2 DEF Typed, TypeOK, Hands, RPop, Works, Fails, NextKey, Goto,
                      Idle, Holding, InPop, InWork
  <2>3. QED  BY <1>2, <2>1, <2>2 DEF Typed, Homes
<1>3. CASE queue[r] # << >> /\ queue' = [queue EXCEPT ![r] = Tail(@)]
  <2>1. /\ Head(queue[r]) \in Runs /\ Head(queue[r]) = queue[r][1] /\ Len(queue[r]) >= 1
        /\ Tail(queue[r]) \in Seq(Runs)
        /\ Len(Tail(queue[r])) = Len(queue[r]) - 1
        /\ \A k \in 1..(Len(queue[r]) - 1) : Tail(queue[r])[k] = queue[r][k+1]
    BY <1>1, <1>3, QueueFacts, PopFacts DEF Typed
  <2>2. RepoOf[Head(queue[r])] = r
    <3>1. 1 \in 1..Len(queue[r])  BY <1>1, <2>1, QueueFacts DEF Typed
    <3>2. QED  BY <1>1, <2>1, <3>1 DEF Typed, Homes
  <2>3. TypeOK'
    <3>1. queue' \in [Repos -> Seq(Runs)]
      BY <1>1, <1>3, <2>1 DEF Typed, TypeOK
    <3>2. /\ pc' \in [Workers -> Idle \cup Holding]
          /\ at' \in [Workers -> Repos \cup {None}]
      BY <1>1 DEF Typed, TypeOK, RPop, Goto, NextKey, Idle, Holding, InPop
    <3>3. job' \in [Workers -> Runs \cup {None}]
      BY <2>1 DEF Typed, TypeOK, RPop
    <3>4. faults' \in Nat
      BY DEF Typed, TypeOK, RPop, Fails
    <3>5. QED  BY <3>1, <3>2, <3>3, <3>4 DEF Typed, TypeOK, RPop, auditVars
  <2>4. Hands'
    BY <1>1, <2>1, <2>2 DEF Typed, TypeOK, Hands, RPop, Works, Fails, NextKey, Goto,
                      Idle, Holding, InPop, InWork
  <2>5. Homes'
    <3>1. SUFFICES ASSUME NEW q \in Repos, NEW k \in 1..Len(queue'[q])
                   PROVE  RepoOf[queue'[q][k]] = q
      BY DEF Homes
    <3>2. CASE q = r
      <4>1. queue'[q] = Tail(queue[r])
        BY <1>1, <1>3, <3>2 DEF Typed, TypeOK
      <4>2. k \in 1..(Len(queue[r]) - 1) /\ k+1 \in 1..Len(queue[r])
        BY <1>1, <2>1, <4>1, QueueFacts DEF Typed
      <4>3. QED  BY <1>1, <2>1, <3>2, <4>1, <4>2 DEF Typed, Homes
    <3>3. CASE q # r
      BY <1>1, <1>3, <3>3 DEF Typed, TypeOK, Homes
    <3>4. QED  BY <3>2, <3>3
  <2>6. QED  BY <2>3, <2>4, <2>5 DEF Typed
<1>4. QED  BY <1>2, <1>3 DEF RPop

LEMMA TypedRequeue ==
    ASSUME Typed, NEW w \in Workers, Requeue(w)
    PROVE  Typed'
<1> USE RepoOfAssumption
<1> DEFINE r == at[w]
<1>1. pc[w] = "requeue" /\ job[w] \in Runs /\ r \in Repos /\ RepoOf[job[w]] = r
  BY DEF Requeue, Typed, Hands, Holding, InPop
<1>2. Hands' /\ at' \in [Workers -> Repos \cup {None}]
      /\ job' \in [Workers -> Runs \cup {None}]
      /\ pc' \in [Workers -> Idle \cup Holding] /\ faults' \in Nat
  BY <1>1 DEF Typed, TypeOK, Hands, Requeue, Works, Fails, NextKey, Goto, LetGo,
              Idle, Holding, InPop, InWork
<1>3. CASE queue' = queue
  BY <1>2, <1>3 DEF Typed, TypeOK, Homes, Requeue, auditVars
<1>4. CASE queue' = [queue EXCEPT ![r] = <<job[w]>> \o @]
  <2> DEFINE longer == <<job[w]>> \o queue[r]
  <2>1. /\ longer \in Seq(Runs) /\ Len(longer) = Len(queue[r]) + 1
        /\ \A k \in 1..(Len(queue[r]) + 1) :
             longer[k] = IF k = 1 THEN job[w] ELSE queue[r][k-1]
    BY <1>1, QueueFacts, PrependFacts DEF Typed
  <2>2. queue' \in [Repos -> Seq(Runs)]
    BY <1>1, <1>4, <2>1 DEF Typed, TypeOK
  <2>3. TypeOK'
    BY <1>2, <2>2 DEF Typed, TypeOK, Requeue, auditVars
  <2>4. Homes'
    <3>1. SUFFICES ASSUME NEW q \in Repos, NEW k \in 1..Len(queue'[q])
                   PROVE  RepoOf[queue'[q][k]] = q
      BY DEF Homes
    <3>2. CASE q = r
      <4>1. queue'[q] = longer
        BY <1>1, <1>4, <3>2 DEF Typed, TypeOK
      <4>2. k \in 1..(Len(queue[r]) + 1) /\ (k = 1 \/ k-1 \in 1..Len(queue[r]))
        BY <1>1, <2>1, <4>1, QueueFacts DEF Typed
      <4>3. QED  BY <1>1, <2>1, <3>2, <4>1, <4>2 DEF Typed, Homes
    <3>3. CASE q # r
      BY <1>1, <1>4, <3>3 DEF Typed, TypeOK, Homes
    <3>4. QED  BY <3>2, <3>3
  <2>5. QED  BY <1>2, <2>3, <2>4 DEF Typed
<1>5. QED  BY <1>3, <1>4 DEF Requeue

LEMMA TypedEvict ==
    ASSUME Typed, NEW r \in Repos, Evict(r)
    PROVE  Typed'
<1>1. << >> \in Seq(Runs) /\ Len(<< >>) = 0
  OBVIOUS
<1>2. TypeOK'
  <2>1. queue' \in [Repos -> Seq(Runs)]
    BY <1>1 DEF Typed, TypeOK, Evict
  <2>2. active' \in [Repos -> Runs \cup {None}]
    BY DEF Typed, TypeOK, Evict
  <2>3. faults' \in Nat
    BY DEF Typed, TypeOK, Evict
  <2>4. QED  BY <2>1, <2>2, <2>3 DEF Typed, TypeOK, Evict, workerVars, auditVars
<1>3. Hands'
  BY DEF Typed, Hands, Evict, workerVars
<1>4. Homes'
  <2>1. ASSUME NEW q \in Repos, NEW k \in 1..Len(queue'[q])
        PROVE  queue'[q] = queue[q]
    <3>1. CASE q = r /\ queue' = [queue EXCEPT ![r] = << >>]
      <4>1. queue'[q] = << >>  BY <3>1 DEF Typed, TypeOK
      <4>2. QED  BY <1>1, <2>1, <4>1
    <3>2. CASE q # r /\ queue' = [queue EXCEPT ![r] = << >>]
      BY <3>2 DEF Typed, TypeOK
    <3>3. QED  BY <3>1, <3>2 DEF Evict
  <2>2. QED  BY <2>1 DEF Typed, Homes
<1>5. QED  BY <1>2, <1>3, <1>4 DEF Typed

LEMMA TypedStep == Typed /\ [Next]_vars => Typed'
<1> SUFFICES ASSUME Typed, [Next]_vars PROVE Typed'
  OBVIOUS
<1>1. ASSUME NEW j \in Runs, Push(j) PROVE Typed'
  BY <1>1, TypedPush
<1>2. ASSUME NEW j \in Runs, RemoveByRunID(j) PROVE Typed'
  BY <1>2, TypedRemove
<1>3. ASSUME NEW r \in Repos, Evict(r) PROVE Typed'
  BY <1>3, TypedEvict
<1>4. ASSUME NEW w \in Workers, RunWorker(w) PROVE Typed'
  BY <1>4, TypedStop, TypedScan, TypedExists, TypedRPop, TypedSetLock, TypedRequeue,
     TypedTrack, TypedWork, TypedAckDel, TypedAckRem DEF RunWorker, Pop, Ack
<1>5. QED
  BY <1>1, <1>2, <1>3, <1>4, TypedEnvironment DEF Next, Environment

LEMMA TypedAlways == Spec => []Typed
  BY TypedInit, TypedStep, PTL DEF Spec

(* Every variable keeps its type: in particular the element RPOP returns,  *)
(* puts back and locks is always a job, and never the empty hand.          *)
THEOREM TypeCorrect == Spec => []TypeOK
<1>1. Typed => TypeOK
  BY DEF Typed
<1>2. QED  BY <1>1, TypedAlways, PTL
-----------------------------------------------------------------------------
(* A job that is queued or in a hand was pushed; one that is queued, or    *)
(* popped and not yet returned, was never delivered.                       *)
Fresh ==
    /\ \A r \in Repos : \A i \in 1..Len(queue[r]) :
         ticket[queue[r][i]] # 0 /\ queue[r][i] \notin delivered
    /\ \A w \in Workers :
         /\ pc[w] \in Holding => ticket[job[w]] # 0
         /\ pc[w] \in InPop => job[w] \notin delivered
    /\ \A j \in delivered : ticket[j] # 0
Unique == Typed /\ SinglePlace /\ Fresh

(* A list that only loses elements: each one left has a place of its own   *)
(* in the old list.                                                        *)
Shrinks(r) ==
    \E f \in [1..Len(queue'[r]) -> 1..Len(queue[r])] :
      /\ \A k \in 1..Len(queue'[r]) : queue'[r][k] = queue[r][f[k]]
      /\ \A i, k \in 1..Len(queue'[r]) : f[i] = f[k] => i = k

LEMMA SameShrinks ==
    ASSUME NEW r \in Repos, Typed, queue'[r] = queue[r]
    PROVE  Shrinks(r)
<1> DEFINE f == [k \in 1..Len(queue'[r]) |-> k]
<1>1. f \in [1..Len(queue'[r]) -> 1..Len(queue[r])]
  OBVIOUS
<1>2. \A k \in 1..Len(queue'[r]) : queue'[r][k] = queue[r][f[k]]
  OBVIOUS
<1>3. \A i, k \in 1..Len(queue'[r]) : f[i] = f[k] => i = k
  OBVIOUS
<1> HIDE DEF f
<1>4. QED  BY <1>1, <1>2, <1>3 DEF Shrinks

LEMMA TailShrinks ==
    ASSUME NEW r \in Repos, Typed, queue[r] # << >>, queue'[r] = Tail(queue[r])
    PROVE  Shrinks(r)
<1> DEFINE f == [k \in 1..Len(queue'[r]) |-> k + 1]
<1>1. /\ Len(queue'[r]) = Len(queue[r]) - 1 /\ Len(queue[r]) \in Nat
      /\ \A k \in 1..Len(queue'[r]) : queue'[r][k] = queue[r][k+1]
  BY QueueFacts, PopFacts DEF Typed
<1>2. f \in [1..Len(queue'[r]) -> 1..Len(queue[r])]
  BY <1>1
<1>3. \A k \in 1..Len(queue'[r]) : queue'[r][k] = queue[r][f[k]]
  BY <1>1
<1>4. \A m, k \in 1..Len(queue'[r]) : f[m] = f[k] => m = k
  BY <1>1
<1>5. QED  BY <1>2, <1>3, <1>4 DEF Shrinks

LEMMA RemoveShrinks ==
    ASSUME NEW r \in Repos, Typed, NEW i \in 1..Len(queue[r]),
           queue'[r] = RemoveAt(queue[r], i)
    PROVE  Shrinks(r)
<1> DEFINE f == [k \in 1..Len(queue'[r]) |-> IF k < i THEN k ELSE k + 1]
<1>1. /\ Len(queue'[r]) = Len(queue[r]) - 1 /\ Len(queue[r]) \in Nat
      /\ \A k \in 1..Len(queue'[r]) :
           queue'[r][k] = IF k < i THEN queue[r][k] ELSE queue[r][k+1]
  <2>1. queue[r] \in Seq(Runs) /\ Len(queue[r]) \in Nat
    BY QueueFacts DEF Typed
  <2>2. /\ Len(RemoveAt(queue[r], i)) = Len(queue[r]) - 1
        /\ \A k \in 1..(Len(queue[r]) - 1) :
             RemoveAt(queue[r], i)[k] = IF k < i THEN queue[r][k] ELSE queue[r][k+1]
    BY <2>1, RemoveAtFacts
  <2>3. QED  BY <2>1, <2>2
<1>2. f \in [1..Len(queue'[r]) -> 1..Len(queue[r])]
  BY <1>1
<1>3. \A k \in 1..Len(queue'[r]) : queue'[r][k] = queue[r][f[k]]
  BY <1>1
<1>4. \A m, k \in 1..Len(queue'[r]) : f[m] = f[k] => m = k
  BY <1>1
<1>5. QED  BY <1>2, <1>3, <1>4 DEF Shrinks

LEMMA EmptyShrinks ==
    ASSUME NEW r \in Repos, Typed, queue'[r] = << >>
    PROVE  Shrinks(r)
<1> DEFINE f == [k \in 1..Len(queue'[r]) |-> k]
<1>1. 1..Len(queue'[r]) = {}
  OBVIOUS
<1>2. f \in [1..Len(queue'[r]) -> 1..Len(queue[r])]
  BY <1>1
<1>3. \A k \in 1..Len(queue'[r]) : queue'[r][k] = queue[r][f[k]]
  BY <1>1
<1>4. \A i, k \in 1..Len(queue'[r]) : f[i] = f[k] => i = k
  BY <1>1
<1>5. QED  BY <1>2, <1>3, <1>4 DEF Shrinks

(* Steps that move no job and make none: lists lose elements, hands open.  *)
LEMMA UniqueShrink ==
    ASSUME Unique, Typed', \A r \in Repos : Shrinks(r),
           \A w \in Workers : /\ job'[w] = job[w] \/ job'[w] = None
                              /\ pc'[w] \in InPop => pc[w] \in InPop,
           ticket' = ticket, delivered' = delivered
    PROVE  Unique'
<1>1. ASSUME NEW r \in Repos, NEW k \in 1..Len(queue'[r])
      PROVE  \E i \in 1..Len(queue[r]) : queue'[r][k] = queue[r][i]
  <2>1. PICK f \in [1..Len(queue'[r]) -> 1..Len(queue[r])] :
          \A m \in 1..Len(queue'[r]) : queue'[r][m] = queue[r][f[m]]
    BY DEF Shrinks
  <2>2. f[k] \in 1..Len(queue[r])
    BY <1>1
  <2>3. QED  BY <1>1, <2>1, <2>2
<1>2. ASSUME NEW w \in Workers, pc'[w] \in Holding
      PROVE  job'[w] = job[w] /\ pc[w] \in Holding /\ job[w] # None
  BY <1>2, NoneAssumption DEF Unique, Typed, Hands
<1>3. ASSUME NEW w \in Workers, job'[w] # None
      PROVE  job'[w] = job[w] /\ job[w] # None
  BY <1>3
<1>4. SinglePlace'
  <2>1. ASSUME NEW r \in Repos, NEW i \in 1..Len(queue'[r]), NEW k \in 1..Len(queue'[r]),
               queue'[r][i] = queue'[r][k]
        PROVE  i = k
    <3>1. PICK f \in [1..Len(queue'[r]) -> 1..Len(queue[r])] :
            /\ \A m \in 1..Len(queue'[r]) : queue'[r][m] = queue[r][f[m]]
            /\ \A m, n \in 1..Len(queue'[r]) : f[m] = f[n] => m = n
      BY DEF Shrinks
    <3>2. f[i] = f[k]
      BY <2>1, <3>1 DEF Unique, SinglePlace
    <3>3. QED  BY <3>1, <3>2
  <2>2. ASSUME NEW w \in Workers, job'[w] # None, NEW v \in Workers \ {w}
        PROVE  job'[v] # job'[w]
    BY <2>2, <1>3 DEF Unique, SinglePlace
  <2>3. ASSUME NEW w \in Workers, job'[w] # None, NEW r \in Repos, NEW i \in 1..Len(queue'[r])
        PROVE  queue'[r][i] # job'[w]
    BY <2>3, <1>1, <1>3 DEF Unique, SinglePlace
  <2>4. QED  BY <2>1, <2>2, <2>3 DEF SinglePlace
<1>5. Fresh'
  BY <1>1, <1>2 DEF Unique, Fresh, Holding
<1>6. QED  BY <1>4, <1>5 DEF Unique

LEMMA UniquePush ==
    ASSUME Unique, Typed', NEW j \in Runs, Push(j)
    PROVE  Unique'
<1> USE RepoOfAssumption
<1> DEFINE r == RepoOf[j]
           longer == Append(queue[r], j)
<1>1. r \in Repos /\ ticket[j] = 0 /\ ticket'[j] # 0
  BY TicketIsNat DEF Unique, Typed, TypeOK, Push
<1>2. /\ job' = job /\ pc' = pc /\ delivered' = delivered
      /\ \A k \in Runs \ {j} : ticket'[k] = ticket[k]
  BY DEF Unique, Typed, TypeOK, Push, workerVars
<1>3. /\ queue'[r] = longer /\ Len(queue[r]) \in Nat /\ Len(longer) = Len(queue[r]) + 1
      /\ \A k \in 1..(Len(queue[r]) + 1) :
           longer[k] = IF k = Len(queue[r]) + 1 THEN j ELSE queue[r][k]
      /\ \A q \in Repos \ {r} : queue'[q] = queue[q]
  BY <1>1, QueueFacts, AppendFacts, SMTT(20) DEF Unique, Typed, TypeOK, Push
<1> HIDE DEF longer
(* The pushed job is new: no list and no hand has it, and none got it.     *)
<1>4. /\ \A q \in Repos : \A i \in 1..Len(queue[q]) : queue[q][i] # j
      /\ \A w \in Workers : job[w] # j
      /\ j \notin delivered
  BY <1>1, NoneAssumption DEF Unique, Fresh, Typed, Hands
<1>5. \A q \in Repos : \A k \in 1..Len(queue'[q]) :
        \/ q = r /\ k = Len(queue[r]) + 1 /\ queue'[q][k] = j
        \/ k \in 1..Len(queue[q]) /\ queue'[q][k] = queue[q][k]
  BY <1>3
<1>6. SinglePlace'
  <2>1. ASSUME NEW q \in Repos, NEW i \in 1..Len(queue'[q]), NEW k \in 1..Len(queue'[q]),
               queue'[q][i] = queue'[q][k]
        PROVE  i = k
    BY <2>1, <1>4, <1>5 DEF Unique, SinglePlace
  <2>2. ASSUME NEW w \in Workers, job[w] # None,
               NEW q \in Repos, NEW i \in 1..Len(queue'[q])
        PROVE  queue'[q][i] # job[w]
    BY <2>2, <1>4, <1>5 DEF Unique, SinglePlace
  <2>3. QED  BY <1>2, <2>1, <2>2 DEF Unique, SinglePlace
<1>7. Fresh'
  <2>1. ASSUME NEW q \in Repos, NEW k \in 1..Len(queue'[q])
        PROVE  ticket'[queue'[q][k]] # 0 /\ queue'[q][k] \notin delivered
    <3>1. CASE queue'[q][k] = j
      BY <3>1, <1>1, <1>4
    <3>2. CASE k \in 1..Len(queue[q]) /\ queue'[q][k] = queue[q][k]
      <4>1. queue[q][k] \in Runs \ {j}
        BY <3>2, <1>4, QueueFacts DEF Unique, Typed
      <4>2. QED  BY <3>2, <4>1, <1>2 DEF Unique, Fresh
    <3>3. QED  BY <3>1, <3>2, <1>5
  <2>2. ASSUME NEW w \in Workers, pc[w] \in Holding
        PROVE  ticket'[job[w]] # 0
    BY <2>2, <1>2, <1>4 DEF Unique, Fresh, Typed, Hands
  <2>3. ASSUME NEW k \in delivered
        PROVE  ticket'[k] # 0
    BY <1>2, <1>4 DEF Unique, Fresh, Typed, TypeOK
  <2>4. QED  BY <1>2, <2>1, <2>2, <2>3 DEF Unique, Fresh
<1>8. QED  BY <1>6, <1>7 DEF Unique

LEMMA UniqueRPop ==
    ASSUME Unique, Typed', NEW w \in Workers, RPop(w),
           queue[at[w]] # << >>,
           queue' = [queue EXCEPT ![at[w]] = Tail(@)],
           job' = [job EXCEPT ![w] = Head(queue[at[w]])]
    PROVE  Unique'
<1> DEFINE r == at[w]
           h == Head(queue[r])
<1>1. r \in Repos
  BY DEF RPop, Unique, Typed, Hands
<1>2. /\ h \in Runs /\ h = queue[r][1] /\ 1 \in 1..Len(queue[r]) /\ Len(queue[r]) \in Nat
      /\ queue'[r] = Tail(queue[r]) /\ Len(queue'[r]) = Len(queue[r]) - 1
      /\ \A k \in 1..(Len(queue[r]) - 1) : queue'[r][k] = queue[r][k+1]
      /\ \A q \in Repos \ {r} : queue'[q] = queue[q]
  BY <1>1, QueueFacts, PopFacts DEF Unique, Typed, TypeOK
<1>3. /\ job'[w] = h /\ \A v \in Workers \ {w} : job'[v] = job[v]
      /\ \A v \in Workers \ {w} : pc'[v] = pc[v]
      /\ ticket' = ticket /\ delivered' = delivered
  BY DEF Unique, Typed, TypeOK, RPop, Goto, NextKey, auditVars
<1> HIDE DEF h
(* Each element of a list after the step was one before it, and not the    *)
(* first of this list.                                                     *)
<1>4. ASSUME NEW q \in Repos, NEW k \in 1..Len(queue'[q])
      PROVE  \E i \in 1..Len(queue[q]) :
               queue'[q][k] = queue[q][i] /\ (q = r => i = k + 1)
  BY <1>1, <1>2
<1>5. ASSUME NEW q \in Repos, NEW k \in 1..Len(queue'[q])
      PROVE  queue'[q][k] # h
  <2>1. PICK i \in 1..Len(queue[q]) : queue'[q][k] = queue[q][i] /\ (q = r => i = k + 1)
    BY <1>4
  <2>2. CASE q = r
    BY <2>1, <2>2, <1>2 DEF Unique, SinglePlace
  <2>3. CASE q # r
    BY <2>1, <2>3, <1>1, <1>2 DEF Unique, Typed, Homes
  <2>4. QED  BY <2>2, <2>3
<1>6. \A v \in Workers : job[v] # h
  BY <1>1, <1>2, NoneAssumption DEF Unique, SinglePlace
<1>7. ticket[h] # 0 /\ h \notin delivered
  BY <1>1, <1>2 DEF Unique, Fresh
<1>8. SinglePlace'
  <2>1. ASSUME NEW q \in Repos, NEW i \in 1..Len(queue'[q]), NEW k \in 1..Len(queue'[q]),
               queue'[q][i] = queue'[q][k]
        PROVE  i = k
    BY <2>1, <1>1, <1>2 DEF Unique, SinglePlace
  <2>2. ASSUME NEW u \in Workers, job'[u] # None, NEW v \in Workers \ {u}
        PROVE  job'[v] # job'[u]
    BY <2>2, <1>3, <1>6 DEF Unique, SinglePlace
  <2>3. ASSUME NEW u \in Workers, job'[u] # None, NEW q \in Repos, NEW k \in 1..Len(queue'[q])
        PROVE  queue'[q][k] # job'[u]
    <3>1. CASE u = w
      <4>1. job'[u] = h        BY <3>1, <1>3
      <4>2. queue'[q][k] # h   BY <1>5
      <4>3. QED  BY <4>1, <4>2
    <3>2. CASE u # w
      <4>1. job'[u] = job[u] /\ job[u] # None
        BY <2>3, <3>2, <1>3
      <4>2. PICK i \in 1..Len(queue[q]) : queue'[q][k] = queue[q][i]
        BY <1>4
      <4>3. QED  BY <4>1, <4>2 DEF Unique, SinglePlace
    <3>3. QED  BY <3>1, <3>2
  <2>4. QED  BY <2>1, <2>2, <2>3 DEF SinglePlace
<1>9. Fresh'
  <2>1. ASSUME NEW q \in Repos, NEW k \in 1..Len(queue'[q])
        PROVE  ticket[queue'[q][k]] # 0 /\ queue'[q][k] \notin delivered
    BY <1>4 DEF Unique, Fresh
  <2>2. ASSUME NEW v \in Workers
        PROVE  /\ pc'[v] \in Holding => ticket[job'[v]] # 0
               /\ pc'[v] \in InPop => job'[v] \notin delivered
    BY <1>3, <1>7 DEF Unique, Fresh
  <2>3. QED  BY <1>3, <2>1, <2>2 DEF Unique, Fresh
<1>10. QED  BY <1>8, <1>9 DEF Unique

LEMMA UniqueRequeue ==
    ASSUME Unique, Typed', NEW w \in Workers, Requeue(w),
           queue' = [queue EXCEPT ![at[w]] = <<job[w]>> \o @]
    PROVE  Unique'
<1> USE RepoOfAssumption
<1> DEFINE r == at[w]
           h == job[w]
<1>1. r \in Repos /\ h \in Runs /\ pc[w] = "requeue" /\ h # None
  BY NoneAssumption DEF Requeue, Unique, Typed, Hands, Holding, InPop
<1>2. /\ Len(queue[r]) \in Nat
      /\ Len(queue'[r]) = Len(queue[r]) + 1
      /\ \A k \in 1..(Len(queue[r]) + 1) :
           queue'[r][k] = IF k = 1 THEN h ELSE queue[r][k-1]
      /\ \A q \in Repos \ {r} : queue'[q] = queue[q]
  <2>1. /\ queue'[r] = <<h>> \o queue[r]
        /\ \A q \in Repos \ {r} : queue'[q] = queue[q]
    BY <1>1 DEF Unique, Typed, TypeOK
  <2>2. queue[r] \in Seq(Runs) /\ Len(queue[r]) \in Nat
    BY <1>1, QueueFacts DEF Unique, Typed
  <2> HIDE DEF r, h
  <2>3. /\ Len(<<h>> \o queue[r]) = Len(queue[r]) + 1
        /\ \A k \in 1..(Len(queue[r]) + 1) :
             (<<h>> \o queue[r])[k] = IF k = 1 THEN h ELSE queue[r][k-1]
    BY <1>1, <2>2, PrependFacts, SMTT(20)
  <2>4. QED  BY <2>1, <2>2, <2>3
<1>3. /\ job'[w] = None /\ \A v \in Workers \ {w} : job'[v] = job[v]
      /\ pc'[w] \notin Holding /\ \A v \in Workers \ {w} : pc'[v] = pc[v]
      /\ ticket' = ticket /\ delivered' = delivered
  BY DEF Unique, Typed, TypeOK, Requeue, Goto, NextKey, LetGo, auditVars,
         Holding, InPop, InWork
<1>4. \A q \in Repos : \A i \in 1..Len(queue[q]) : queue[q][i] # h
  BY <1>1 DEF Unique, SinglePlace
<1>5. ASSUME NEW q \in Repos, NEW k \in 1..Len(queue'[q])
      PROVE  \/ q = r /\ k = 1 /\ queue'[q][k] = h
             \/ q = r /\ k-1 \in 1..Len(queue[q]) /\ queue'[q][k] = queue[q][k-1]
             \/ q # r /\ k \in 1..Len(queue[q]) /\ queue'[q][k] = queue[q][k]
  BY <1>1, <1>2
<1>6. SinglePlace'
  <2>1. ASSUME NEW q \in Repos, NEW i \in 1..Len(queue'[q]), NEW k \in 1..Len(queue'[q]),
               queue'[q][i] = queue'[q][k]
        PROVE  i = k
    <3>1. CASE q = r
      <4>1. i \in Nat /\ k \in Nat
        BY <1>2, <3>1
      <4>2. CASE i = 1 \/ k = 1
        BY <2>1, <3>1, <4>2, <1>4, <1>5
      <4>3. CASE i # 1 /\ k # 1
        <5>1. /\ i-1 \in 1..Len(queue[q]) /\ queue'[q][i] = queue[q][i-1]
              /\ k-1 \in 1..Len(queue[q]) /\ queue'[q][k] = queue[q][k-1]
          BY <3>1, <4>3, <1>5
        <5>2. i-1 = k-1
          BY <2>1, <5>1 DEF Unique, SinglePlace
        <5>3. QED  BY <4>1, <5>2
      <4>4. QED  BY <4>2, <4>3
    <3>2. CASE q # r
      BY <2>1, <3>2, <1>5 DEF Unique, SinglePlace
    <3>3. QED  BY <3>1, <3>2
  <2>2. ASSUME NEW u \in Workers, job'[u] # None, NEW v \in Workers \ {u}
        PROVE  job'[v] # job'[u]
    BY <2>2, <1>3 DEF Unique, SinglePlace
  <2>3. ASSUME NEW u \in Workers, job'[u] # None, NEW q \in Repos, NEW k \in 1..Len(queue'[q])
        PROVE  queue'[q][k] # job'[u]
    <3>1. u # w /\ job'[u] = job[u] /\ job[u] # None /\ job[u] # h
      BY <2>3, <1>1, <1>3 DEF Unique, SinglePlace
    <3>2. QED  BY <3>1, <1>5 DEF Unique, SinglePlace
  <2>4. QED  BY <2>1, <2>2, <2>3 DEF SinglePlace
<1>7. Fresh'
  <2>1. ticket[h] # 0 /\ h \notin delivered
    BY <1>1 DEF Unique, Fresh, Holding, InPop
  <2>2. ASSUME NEW q \in Repos, NEW k \in 1..Len(queue'[q])
        PROVE  ticket[queue'[q][k]] # 0 /\ queue'[q][k] \notin delivered
    BY <2>1, <1>5 DEF Unique, Fresh
  <2>3. ASSUME NEW v \in Workers
        PROVE  /\ pc'[v] \in Holding => ticket[job'[v]] # 0
               /\ pc'[v] \in InPop => job'[v] \notin delivered
    BY <1>3 DEF Unique, Fresh, Holding
  <2>4. QED  BY <1>3, <2>2, <2>3 DEF Unique, Fresh
<1>8. QED  BY <1>6, <1>7 DEF Unique

LEMMA UniqueTrack ==
    ASSUME Unique, Typed', NEW w \in Workers, Track(w)
    PROVE  Unique'
<1>1. /\ pc[w] = "locked" /\ job[w] \in Runs /\ job[w] # None
      /\ job' = job /\ queue' = queue /\ ticket' = ticket
      /\ delivered' = delivered \cup {job[w]}
      /\ pc'[w] \notin InPop /\ \A v \in Workers \ {w} : pc'[v] = pc[v]
      /\ pc'[w] \in Holding
  BY NoneAssumption
  DEF Track, Goto, Unique, Typed, TypeOK, Hands, Holding, InPop, InWork
<1>2. SinglePlace'
  BY <1>1 DEF Unique, SinglePlace
<1>3. Fresh'
  <2>1. ticket[job[w]] # 0
    BY <1>1 DEF Unique, Fresh, Holding, InPop
  <2>2. ASSUME NEW q \in Repos, NEW k \in 1..Len(queue[q])
        PROVE  queue[q][k] \notin delivered'
    BY <1>1 DEF Unique, Fresh, SinglePlace
  <2>3. ASSUME NEW v \in Workers \ {w}, pc[v] \in InPop
        PROVE  job[v] \notin delivered'
    BY <2>3, <1>1 DEF Unique, Fresh, SinglePlace
  <2>4. ASSUME NEW v \in Workers, pc'[v] \in Holding
        PROVE  ticket[job[v]] # 0
    BY <2>1, <2>4, <1>1 DEF Unique, Fresh
  <2>5. QED  BY <1>1, <2>1, <2>2, <2>3, <2>4 DEF Unique, Fresh
<1>4. QED  BY <1>2, <1>3 DEF Unique

(* The worker steps that move no job, except to drop it.                   *)
LEMMA UniqueWorker ==
    ASSUME Unique, Typed', NEW w \in Workers,
           \/ Stop(w) \/ Scan(w) \/ (\E r \in Repos : Exists(w, r)) \/ SetLock(w)
           \/ (\E f \in BOOLEAN : Work(w, f)) \/ AckDel(w) \/ AckRem(w)
           \/ RPop(w) /\ job' = job
           \/ Requeue(w) /\ queue' = queue
    PROVE  Unique'
<1>1. ticket' = ticket /\ delivered' = delivered
  BY DEF Stop, Scan, Exists, SetLock, Work, AckDel, AckRem, RPop, Requeue, auditVars
<1>2. ASSUME NEW v \in Workers
      PROVE  /\ job'[v] = job[v] \/ job'[v] = None
             /\ pc'[v] \in InPop => pc[v] \in InPop
  <2>1. job'[v] = job[v] \/ job'[v] = None
    BY DEF Unique, Typed, TypeOK, Stop, Scan, Exists, SetLock, Work, AckDel, AckRem,
           RPop, Requeue, LetGo
  <2>2. pc'[v] \in InPop => pc[v] \in InPop
    <3>1. CASE v # w
      <4>1. pc'[v] = pc[v]
        BY <3>1 DEF Unique, Typed, TypeOK, Stop, Scan, Exists, SetLock, Work, AckDel,
                    AckRem, RPop, Requeue, Goto, NextKey
      <4>2. QED  BY <4>1
    <3>2. CASE v = w
      <4>1. CASE pc[w] \in {"popped", "requeue"}
        BY <3>2, <4>1 DEF InPop
      <4>2. CASE pc[w] \notin {"popped", "requeue"}
        <5>1. pc'[w] \in {"idle", "scanning", "checked", "stopped", "acking", "clearing"}
              \/ (RPop(w) /\ job' = job)
          <6> DEFINE calm == {"idle", "scanning", "checked", "stopped", "acking", "clearing"}
          <6>1. Stop(w) \/ Scan(w) => pc'[w] \in calm
            BY DEF Unique, Typed, TypeOK, Stop, Scan, Goto
          <6>2. \A r \in Repos : Exists(w, r) => pc'[w] \in calm
            BY DEF Unique, Typed, TypeOK, Exists, Goto, NextKey
          <6>3. \A f \in BOOLEAN : Work(w, f) => pc'[w] \in calm
            BY DEF Unique, Typed, TypeOK, Work, Goto
          <6>4. AckDel(w) \/ AckRem(w) => pc'[w] \in calm
            BY DEF Unique, Typed, TypeOK, AckDel, AckRem, Goto
          <6>5. ~SetLock(w) /\ ~Requeue(w)
            BY <4>2 DEF SetLock, Requeue
          <6> HIDE DEF calm
          <6>6. pc'[w] \in calm \/ (RPop(w) /\ job' = job)
            BY <6>1, <6>2, <6>3, <6>4, <6>5
          <6>7. QED  BY <6>6 DEF calm
        <5>2. CASE RPop(w) /\ job' = job
          <6>1. pc[w] = "checked" /\ job[w] = None
            BY <5>2 DEF RPop, Unique, Typed, Hands, Holding, InPop, InWork
          <6>2. CASE pc'[w] \in Holding
            BY <5>2, <6>1, <6>2, NoneAssumption DEF Typed, Hands
          <6>3. CASE pc'[w] \notin Holding
            BY <3>2, <6>3 DEF Holding
          <6>4. QED  BY <6>2, <6>3
        <5>3. QED  BY <3>2, <5>1, <5>2 DEF InPop
      <4>3. QED  BY <4>1, <4>2
    <3>3. QED  BY <3>1, <3>2
  <2>3. QED  BY <2>1, <2>2
<1>3. ASSUME NEW r \in Repos
      PROVE  Shrinks(r)
  <2>1. \/ queue'[r] = queue[r]
        \/ queue[r] # << >> /\ queue'[r] = Tail(queue[r])
    <3>1. queue' = queue \/ RPop(w)
      BY DEF Stop, Scan, Exists, SetLock, Work, AckDel, AckRem, Requeue, redisVars
    <3>2. CASE queue' = queue
      BY <3>2
    <3>3. CASE RPop(w)
      <4>1. \/ queue' = queue
            \/ queue[at[w]] # << >> /\ queue' = [queue EXCEPT ![at[w]] = Tail(@)]
        BY <3>3 DEF RPop
      <4>2. QED  BY <4>1 DEF Unique, Typed, TypeOK
    <3>4. QED  BY <3>1, <3>2, <3>3
  <2>2. QED  BY <2>1, SameShrinks, TailShrinks DEF Unique
<1>4. QED  BY <1>1, <1>2, <1>3, UniqueShrink

(* The steps of the API, of Redis and of the process.                      *)
LEMMA UniqueEnvironment ==
    ASSUME Unique, Typed',
           \/ \E j \in Runs : RemoveByRunID(j)
           \/ \E r \in Repos : LockExpire(r) \/ Evict(r)
           \/ Crash \/ Shutdown \/ Exit \/ Restart \/ UNCHANGED vars
    PROVE  Unique'
<1>1. ticket' = ticket /\ delivered' = delivered
  BY DEF RemoveByRunID, LockExpire, Evict, Crash, Shutdown, Exit, Restart, vars, auditVars
<1>2. ASSUME NEW v \in Workers
      PROVE  /\ job'[v] = job[v] \/ job'[v] = None
             /\ pc'[v] \in InPop => pc[v] \in InPop
  BY DEF RemoveByRunID, LockExpire, Evict, Crash, Shutdown, Exit, Restart, vars,
         workerVars, ForgetWorkers, InPop
<1>3. ASSUME NEW r \in Repos
      PROVE  Shrinks(r)
  <2>1. CASE \E j \in Runs : RemoveByRunID(j)
    <3>1. \/ queue'[r] = queue[r]
          \/ \E i \in 1..Len(queue[r]) : queue'[r] = RemoveAt(queue[r], i)
      BY <2>1, RepoOfAssumption DEF Unique, Typed, TypeOK, RemoveByRunID
    <3>2. QED  BY <3>1, SameShrinks, RemoveShrinks DEF Unique
  <2>2. CASE ~\E j \in Runs : RemoveByRunID(j)
    <3>1. queue'[r] = queue[r] \/ queue'[r] = << >>
      BY <2>2 DEF Unique, Typed, TypeOK, LockExpire, Evict, Crash, Shutdown, Exit,
                  Restart, vars, redisVars
    <3>2. QED  BY <3>1, SameShrinks, EmptyShrinks DEF Unique
  <2>3. QED  BY <2>1, <2>2
<1>4. QED  BY <1>1, <1>2, <1>3, UniqueShrink

LEMMA UniqueInit == Init => Unique
<1>1. Init => SinglePlace /\ Fresh
  BY NoneAssumption DEF Init, SinglePlace, Fresh, Holding, InPop, InWork
<1>2. QED  BY <1>1, TypedInit DEF Unique

LEMMA UniqueStep == Unique /\ [Next]_vars => Unique'
<1> SUFFICES ASSUME Unique, [Next]_vars PROVE Unique'
  OBVIOUS
<1>1. Typed'
  BY TypedStep DEF Unique
<1>2. ASSUME NEW j \in Runs, Push(j) PROVE Unique'
  BY <1>1, <1>2, UniquePush
<1>3. ASSUME NEW w \in Workers, RPop(w) PROVE Unique'
  <2>1. CASE job' = job
    BY <1>1, <1>3, <2>1, UniqueWorker
  <2>2. CASE /\ queue[at[w]] # << >>
             /\ queue' = [queue EXCEPT ![at[w]] = Tail(@)]
             /\ job' = [job EXCEPT ![w] = Head(queue[at[w]])]
    BY <1>1, <1>3, <2>2, UniqueRPop
  <2>3. QED  BY <1>3, <2>1, <2>2 DEF RPop
<1>4. ASSUME NEW w \in Workers, Requeue(w) PROVE Unique'
  <2>1. CASE queue' = queue
    BY <1>1, <1>4, <2>1, UniqueWorker
  <2>2. CASE queue' = [queue EXCEPT ![at[w]] = <<job[w]>> \o @]
    BY <1>1, <1>4, <2>2, UniqueRequeue
  <2>3. QED  BY <1>4, <2>1, <2>2 DEF Requeue
<1>5. ASSUME NEW w \in Workers, RunWorker(w) PROVE Unique'
  BY <1>1, <1>3, <1>4, <1>5, UniqueTrack, UniqueWorker DEF RunWorker, Pop, Ack
<1>6. QED
  BY <1>1, <1>2, <1>5, UniqueEnvironment DEF Next, Environment

LEMMA UniqueAlways == Spec => []Unique
  BY UniqueInit, UniqueStep, PTL DEF Spec

(* A job is in one slot of one list or in one hand, for any number of      *)
(* workers, failing commands, crashes, shutdowns and evictions: RPOP is    *)
(* what makes Pop safe although its four commands are not one transaction. *)
THEOREM OnePlace == Spec => []SinglePlace
<1>1. Unique => SinglePlace
  BY DEF Unique
<1>2. QED  BY <1>1, UniqueAlways, PTL

(* Pop returns a job at most once, ever: no run is dispatched twice by the *)
(* queue, whatever the number of workers and of restarts.                  *)
THEOREM OneDelivery == Spec => DeliveredOnce
<1> DEFINE Once == \A w \in Workers : pc[w] = "locked" /\ pc'[w] = "working"
                     => job[w] \notin delivered
<1>1. Unique => Once
  BY DEF Unique, Fresh, InPop
<1>2. Unique /\ [Next]_vars => [Once]_vars
  BY <1>1
<1> HIDE DEF Once
<1>3. Spec => [][Once]_vars
  BY <1>2, UniqueAlways, PTL DEF Spec
<1>4. QED  BY <1>3 DEF DeliveredOnce, Once

-----------------------------------------------------------------------------
(* Where a job is, and what was delivered or dropped: that JobQueue        *)
(* implements JobDelivery.                                                 *)

(* Where a job is: in the list of its repository, or in a hand.            *)
InList(j) == \E i \in 1..Len(queue[RepoOf[j]]) : queue[RepoOf[j]][i] = j
InHand(j) == \E w \in Workers : job[w] = j

(* What is in execution was delivered.                                     *)
Worked == \A w \in Workers : pc[w] \in InWork => job[w] \in delivered

Settled == Unique /\ Worked

LEMMA PlaceFacts ==
    ASSUME Typed, NEW j \in Runs
    PROVE  /\ j \in Queued(RepoOf[j]) <=> InList(j)
           /\ j \in Held <=> InHand(j)
           /\ InPlace(j) <=> InHand(j) \/ InList(j)
<1>1. j \in Queued(RepoOf[j]) <=> InList(j)
  <2>1. RepoOf[j] \in Repos
    BY RepoOfAssumption
  <2>2. queue[RepoOf[j]] \in Seq(Runs)
    BY <2>1, QueueFacts DEF Typed
  <2>3. QED  BY <2>2 DEF Queued, ToSet, InList
<1>2. j \in Held <=> InHand(j)
  BY NoneAssumption DEF Typed, Hands, Held, InHand
<1>3. QED  BY <1>1, <1>2 DEF InPlace

(* The same of the next state.                                             *)
LEMMA PlaceFactsNext ==
    ASSUME Typed', NEW j \in Runs
    PROVE  /\ (j \in Queued(RepoOf[j]))' <=> InList(j)'
           /\ (j \in Held)' <=> InHand(j)'
           /\ InPlace(j)' <=> InHand(j)' \/ InList(j)'
<1>1. (j \in Queued(RepoOf[j]))' <=> InList(j)'
  <2>1. RepoOf[j] \in Repos
    BY RepoOfAssumption
  <2>2. queue'[RepoOf[j]] \in Seq(Runs)
    BY <2>1 DEF Typed, TypeOK
  <2>3. QED  BY <2>2 DEF Queued, ToSet, InList
<1>2. (j \in Held)' <=> InHand(j)'
  BY NoneAssumption DEF Typed, Hands, Held, InHand
<1>3. QED  BY <1>1, <1>2 DEF InPlace

(* A job is not in two places.                                             *)
LEMMA OneOf ==
    ASSUME Unique, NEW j \in Runs
    PROVE  ~(InList(j) /\ InHand(j))
  BY RepoOfAssumption, NoneAssumption DEF Unique, SinglePlace, InList, InHand

LEMMA NotNew ==
    ASSUME Unique, NEW j \in Runs
    PROVE  /\ InList(j) => ticket[j] # 0 /\ j \notin delivered
           /\ InHand(j) => ticket[j] # 0
  BY RepoOfAssumption, NoneAssumption
  DEF Unique, Fresh, Typed, Hands, InList, InHand

-----------------------------------------------------------------------------
(* What the steps do to the places.                                        *)
Stays(j)    == (InList(j)' <=> InList(j)) /\ (InHand(j)' <=> InHand(j))
Shrunk(j)   == (InList(j)' => InList(j)) /\ (InHand(j)' => InHand(j))

LEMMA Quiet ==
    ASSUME queue' = queue, job' = job, NEW j
    PROVE  Stays(j)
  BY DEF Stays, InList, InHand

LEMMA PushPlaces ==
    ASSUME Unique, NEW k \in Runs, Push(k), NEW j \in Runs
    PROVE  (InList(j)' <=> InList(j) \/ j = k) /\ (InHand(j)' <=> InHand(j))
<1> DEFINE r == RepoOf[k]
<1>1. r \in Repos /\ queue[r] \in Seq(Runs) /\ queue \in [Repos -> Seq(Runs)]
      /\ RepoOf[j] \in Repos
  BY RepoOfAssumption DEF Unique, Typed, TypeOK
<1>2. queue' = [queue EXCEPT ![r] = Append(queue[r], k)] /\ job' = job
  BY DEF Push, workerVars
<1>3. InHand(j)' <=> InHand(j)
  BY <1>2 DEF InHand
<1>4. CASE RepoOf[j] # r
  <2>1. queue'[RepoOf[j]] = queue[RepoOf[j]]
    BY <1>1, <1>2, <1>4
  <2>2. QED  BY <1>3, <1>4, <2>1 DEF InList
<1>5. CASE RepoOf[j] = r
  <2>1. queue'[r] = Append(queue[r], k)
    BY <1>1, <1>2
  <2>2. /\ Len(queue'[r]) = Len(queue[r]) + 1 /\ Len(queue[r]) \in Nat
        /\ \A i \in 1..(Len(queue[r]) + 1) :
             queue'[r][i] = IF i = Len(queue[r]) + 1 THEN k ELSE queue[r][i]
    BY <1>1, <2>1, AppendFacts
  <2> HIDE DEF r
  <2>3. InList(j)' <=> \E i \in 1..Len(queue'[r]) : queue'[r][i] = j
    BY <1>5 DEF InList
  <2>4. InList(j) <=> \E i \in 1..Len(queue[r]) : queue[r][i] = j
    BY <1>5 DEF InList
  <2>5. InList(j)' => InList(j) \/ j = k
    BY <2>2, <2>3, <2>4
  <2>6. InList(j) => InList(j)'
    BY <2>2, <2>3, <2>4
  <2>7. j = k => InList(j)'
    <3>1. Len(queue[r]) + 1 \in 1..Len(queue'[r]) /\ queue'[r][Len(queue[r]) + 1] = k
      BY <2>2
    <3>2. QED  BY <2>3, <3>1
  <2>8. QED  BY <1>3, <2>5, <2>6, <2>7
<1>6. QED  BY <1>4, <1>5

LEMMA RemovePlaces ==
    ASSUME Unique, NEW k \in Runs, RemoveByRunID(k), NEW j \in Runs
    PROVE  (InList(j)' <=> InList(j) /\ j # k) /\ (InHand(j)' <=> InHand(j)) /\ InList(k)
<1> DEFINE r == RepoOf[k]
<1>1. r \in Repos /\ queue[r] \in Seq(Runs) /\ queue \in [Repos -> Seq(Runs)]
      /\ RepoOf[j] \in Repos
  BY RepoOfAssumption DEF Unique, Typed, TypeOK
<1>2. PICK i \in 1..Len(queue[r]) :
        queue[r][i] = k /\ queue' = [queue EXCEPT ![r] = RemoveAt(queue[r], i)]
  BY DEF RemoveByRunID
<1>3. job' = job
  BY DEF RemoveByRunID, workerVars
<1>4. (InHand(j)' <=> InHand(j)) /\ InList(k)
  BY <1>2, <1>3 DEF InHand, InList
<1>5. CASE RepoOf[j] # r
  <2>1. queue'[RepoOf[j]] = queue[RepoOf[j]]
    BY <1>1, <1>2, <1>5
  <2>2. QED  BY <1>4, <1>5, <2>1 DEF InList
<1>6. CASE RepoOf[j] = r
  <2>1. queue'[r] = RemoveAt(queue[r], i)
    BY <1>1, <1>2
  <2>2. /\ Len(queue'[r]) = Len(queue[r]) - 1 /\ Len(queue[r]) \in Nat
        /\ \A m \in 1..(Len(queue[r]) - 1) :
             queue'[r][m] = IF m < i THEN queue[r][m] ELSE queue[r][m+1]
    <3> HIDE DEF r
    <3>1. /\ Len(RemoveAt(queue[r], i)) = Len(queue[r]) - 1
          /\ \A m \in 1..(Len(queue[r]) - 1) :
               RemoveAt(queue[r], i)[m] = IF m < i THEN queue[r][m] ELSE queue[r][m+1]
      BY <1>1, RemoveAtFacts
    <3>2. Len(queue[r]) \in Nat
      BY <1>1
    <3>3. QED  BY <2>1, <3>1, <3>2
  <2>3. \A m, n \in 1..Len(queue[r]) : queue[r][m] = queue[r][n] => m = n
    BY <1>1 DEF Unique, SinglePlace
  <2> HIDE DEF r
  <2>4. InList(j)' <=> \E m \in 1..Len(queue'[r]) : queue'[r][m] = j
    BY <1>6 DEF InList
  <2>5. InList(j) <=> \E m \in 1..Len(queue[r]) : queue[r][m] = j
    BY <1>6 DEF InList
  <2>6. InList(j)' => InList(j) /\ j # k
    <3>1. SUFFICES ASSUME NEW m \in 1..Len(queue'[r]), queue'[r][m] = j
                   PROVE  InList(j) /\ j # k
      BY <2>4
    <3>2. CASE m < i
      BY <1>2, <2>2, <2>3, <2>5, <3>1, <3>2
    <3>3. CASE ~(m < i)
      <4>1. m + 1 \in 1..Len(queue[r]) /\ queue[r][m+1] = j /\ m + 1 # i
        BY <2>2, <3>1, <3>3
      <4>2. QED  BY <1>2, <2>3, <2>5, <4>1
    <3>4. QED  BY <3>2, <3>3
  <2>7. InList(j) /\ j # k => InList(j)'
    <3>1. SUFFICES ASSUME NEW m \in 1..Len(queue[r]), queue[r][m] = j, j # k
                   PROVE  InList(j)'
      BY <2>5
    <3>2. CASE m < i
      <4>1. m \in 1..Len(queue'[r]) /\ queue'[r][m] = j
        BY <2>2, <3>1, <3>2
      <4>2. QED  BY <2>4, <4>1
    <3>3. CASE ~(m < i)
      <4>1. m # i
        BY <1>2, <3>1
      <4>2. m - 1 \in 1..Len(queue'[r]) /\ ~(m - 1 < i) /\ (m - 1) + 1 = m
        BY <2>2, <3>3, <4>1
      <4>3. queue'[r][m - 1] = j
        BY <2>2, <3>1, <4>2
      <4>4. QED  BY <2>4, <4>2, <4>3
    <3>4. QED  BY <3>2, <3>3
  <2>8. QED  BY <1>4, <2>6, <2>7
<1>7. QED  BY <1>5, <1>6

(* RPOP takes the head out of its list, whoever gets it.                   *)
LEMMA HeadPlaces ==
    ASSUME Unique, NEW r \in Repos, queue[r] # << >>,
           queue' = [queue EXCEPT ![r] = Tail(@)], NEW j \in Runs
    PROVE  /\ Head(queue[r]) \in Runs /\ InList(Head(queue[r]))
           /\ InList(j)' <=> InList(j) /\ j # Head(queue[r])
<1>1. queue[r] \in Seq(Runs) /\ queue \in [Repos -> Seq(Runs)] /\ RepoOf[j] \in Repos
  BY RepoOfAssumption DEF Unique, Typed, TypeOK
<1> DEFINE h == Head(queue[r])
<1>2. /\ h \in Runs /\ h = queue[r][1] /\ 1 \in 1..Len(queue[r]) /\ Len(queue[r]) \in Nat
      /\ queue'[r] = Tail(queue[r]) /\ Len(queue'[r]) = Len(queue[r]) - 1
      /\ \A k \in 1..(Len(queue[r]) - 1) : queue'[r][k] = queue[r][k+1]
  BY <1>1, PopFacts
<1> HIDE DEF h
<1>3. RepoOf[h] = r
  BY <1>2 DEF Unique, Typed, Homes
<1>4. InList(h)
  BY <1>2, <1>3 DEF InList
<1>5. \A m, n \in 1..Len(queue[r]) : queue[r][m] = queue[r][n] => m = n
  BY DEF Unique, SinglePlace
<1>6. CASE RepoOf[j] # r
  <2>1. queue'[RepoOf[j]] = queue[RepoOf[j]] /\ j # h
    BY <1>1, <1>3, <1>6
  <2>2. InList(j)' <=> InList(j)
    BY <2>1 DEF InList
  <2>3. QED  BY <1>2, <1>4, <2>1, <2>2 DEF h
<1>7. CASE RepoOf[j] = r
  <2>1. InList(j)' <=> \E m \in 1..Len(queue'[r]) : queue'[r][m] = j
    BY <1>7 DEF InList
  <2>2. InList(j) <=> \E m \in 1..Len(queue[r]) : queue[r][m] = j
    BY <1>7 DEF InList
  <2>3. InList(j)' => InList(j) /\ j # h
    <3>1. SUFFICES ASSUME NEW m \in 1..Len(queue'[r]), queue'[r][m] = j
                   PROVE  InList(j) /\ j # h
      BY <2>1
    <3>2. m + 1 \in 1..Len(queue[r]) /\ queue[r][m + 1] = j /\ m + 1 # 1
      BY <1>2, <3>1
    <3>3. QED  BY <1>2, <1>5, <2>2, <3>2
  <2>4. InList(j) /\ j # h => InList(j)'
    <3>1. SUFFICES ASSUME NEW m \in 1..Len(queue[r]), queue[r][m] = j, j # h
                   PROVE  InList(j)'
      BY <2>2
    <3>2. m # 1
      BY <1>2, <3>1
    <3>3. m - 1 \in 1..Len(queue'[r]) /\ (m - 1) + 1 = m
      BY <1>2, <3>2
    <3>4. queue'[r][m - 1] = j
      BY <1>2, <3>1, <3>3
    <3>5. QED  BY <2>1, <3>3, <3>4
  <2>5. QED  BY <1>2, <1>4, <2>3, <2>4 DEF h
<1>8. QED  BY <1>6, <1>7

(* RPUSH puts the job of a hand back into the list of its repository.      *)
LEMMA BackPlaces ==
    ASSUME Unique, NEW w \in Workers, pc[w] = "requeue",
           queue' = [queue EXCEPT ![at[w]] = <<job[w]>> \o @], NEW j \in Runs
    PROVE  InList(j)' <=> InList(j) \/ j = job[w]
<1> DEFINE r == at[w]
           h == job[w]
<1>1. /\ h \in Runs /\ r = RepoOf[h] /\ r \in Repos /\ queue[r] \in Seq(Runs)
      /\ queue \in [Repos -> Seq(Runs)] /\ RepoOf[j] \in Repos
  BY RepoOfAssumption DEF Unique, Typed, TypeOK, Hands, Holding, InPop
<1>2. queue' = [queue EXCEPT ![r] = <<h>> \o queue[r]]
  OBVIOUS
<1> HIDE DEF r, h
<1>3. CASE RepoOf[j] # r
  <2>1. queue'[RepoOf[j]] = queue[RepoOf[j]] /\ j # h
    BY <1>1, <1>2, <1>3
  <2>2. InList(j)' <=> InList(j)
    BY <2>1 DEF InList
  <2>3. QED  BY <2>1, <2>2 DEF h
<1>4. CASE RepoOf[j] = r
  <2>1. queue'[r] = <<h>> \o queue[r]
    BY <1>1, <1>2
  <2>2. /\ Len(queue'[r]) = Len(queue[r]) + 1 /\ Len(queue[r]) \in Nat
        /\ \A k \in 1..(Len(queue[r]) + 1) :
             queue'[r][k] = IF k = 1 THEN h ELSE queue[r][k-1]
    BY <1>1, <2>1, PrependFacts
  <2>3. InList(j)' <=> \E m \in 1..Len(queue'[r]) : queue'[r][m] = j
    BY <1>4 DEF InList
  <2>4. InList(j) <=> \E m \in 1..Len(queue[r]) : queue[r][m] = j
    BY <1>4 DEF InList
  <2>5. InList(j)' => InList(j) \/ j = h
    <3>1. SUFFICES ASSUME NEW m \in 1..Len(queue'[r]), queue'[r][m] = j, j # h
                   PROVE  InList(j)
      BY <2>3
    <3>2. m # 1 /\ m - 1 \in 1..Len(queue[r]) /\ queue[r][m - 1] = j
      BY <2>2, <3>1
    <3>3. QED  BY <2>4, <3>2
  <2>6. InList(j) => InList(j)'
    <3>1. SUFFICES ASSUME NEW m \in 1..Len(queue[r]), queue[r][m] = j
                   PROVE  InList(j)'
      BY <2>4
    <3>2. m + 1 \in 1..Len(queue'[r]) /\ m + 1 # 1 /\ (m + 1) - 1 = m
      BY <2>2
    <3>3. queue'[r][m + 1] = j
      BY <2>2, <3>1, <3>2
    <3>4. QED  BY <2>3, <3>2, <3>3
  <2>7. j = h => InList(j)'
    <3>1. 1 \in 1..Len(queue'[r]) /\ queue'[r][1] = h
      BY <2>2
    <3>2. QED  BY <2>3, <3>1
  <2>8. QED  BY <2>5, <2>6, <2>7 DEF h
<1>5. QED  BY <1>3, <1>4

(* A hand takes a job, or lets go of the one it has.                       *)
LEMMA TakesHand ==
    ASSUME Unique, NEW w \in Workers, pc[w] \notin Holding, NEW h \in Runs,
           job' = [job EXCEPT ![w] = h], NEW j \in Runs
    PROVE  InHand(j)' <=> InHand(j) \/ j = h
<1>1. job \in [Workers -> Runs \cup {None}] /\ job[w] = None
  BY DEF Unique, Typed, TypeOK, Hands
<1>2. job'[w] = h /\ \A v \in Workers : v # w => job'[v] = job[v]
  BY <1>1
<1>3. QED  BY <1>1, <1>2, NoneAssumption DEF InHand

LEMMA OpensHand ==
    ASSUME Unique, NEW w \in Workers, job[w] \in Runs,
           job' = [job EXCEPT ![w] = None], NEW j \in Runs
    PROVE  InHand(j)' <=> InHand(j) /\ j # job[w]
<1>1. job \in [Workers -> Runs \cup {None}]
  BY DEF Unique, Typed, TypeOK
<1>2. job'[w] = None /\ \A v \in Workers : v # w => job'[v] = job[v]
  BY <1>1
<1>3. \A v \in Workers : v # w => job[v] # job[w]
  BY NoneAssumption DEF Unique, SinglePlace
<1>4. QED  BY <1>1, <1>2, <1>3, NoneAssumption DEF InHand

-----------------------------------------------------------------------------
(* The steps, by what they do to the places of the jobs.                   *)
WorkerQuiet(w) ==
    \/ Stop(w) \/ Scan(w) \/ (\E r \in Repos : Exists(w, r)) \/ SetLock(w)
    \/ (\E f \in BOOLEAN : Work(w, f)) \/ AckDel(w) \/ Track(w)
    \/ RPop(w) /\ queue' = queue /\ job' = job

LEMMA QuietPlaces ==
    ASSUME Unique, NEW j \in Runs,
           \/ \E w \in Workers : WorkerQuiet(w)
           \/ \E r \in Repos : LockExpire(r)
           \/ Shutdown \/ Restart \/ UNCHANGED vars
    PROVE  Stays(j)
<1>1. queue' = queue /\ job' = job
  BY DEF WorkerQuiet, Stop, Scan, Exists, SetLock, Work, AckDel, Track, LockExpire, Shutdown,
         Restart, vars, redisVars, workerVars
<1>2. QED  BY <1>1, Quiet

Takes(w) ==
    /\ RPop(w) /\ queue[at[w]] # << >>
    /\ queue' = [queue EXCEPT ![at[w]] = Tail(@)]
    /\ job' = [job EXCEPT ![w] = Head(queue[at[w]])]
Drops(w) ==
    /\ RPop(w) /\ Fails("rpop") /\ queue[at[w]] # << >>
    /\ queue' = [queue EXCEPT ![at[w]] = Tail(@)] /\ job' = job
Returns(w) == Requeue(w) /\ queue' = [queue EXCEPT ![at[w]] = <<job[w]>> \o @]
Mislaid(w) == Requeue(w) /\ Fails("rpush") /\ queue' = queue

LEMMA RPopKinds ==
    ASSUME NEW w \in Workers, RPop(w)
    PROVE  Takes(w) \/ Drops(w) \/ WorkerQuiet(w)
  BY DEF RPop, Takes, Drops, WorkerQuiet

LEMMA RequeueKinds ==
    ASSUME NEW w \in Workers, Requeue(w)
    PROVE  Returns(w) \/ Mislaid(w)
  BY DEF Requeue, Returns, Mislaid

LEMMA TakesPlaces ==
    ASSUME Unique, NEW w \in Workers, Takes(w), NEW j \in Runs
    PROVE  LET h == Head(queue[at[w]]) IN
           /\ h \in Runs /\ InList(h)
           /\ InList(j)' <=> InList(j) /\ j # h
           /\ InHand(j)' <=> InHand(j) \/ j = h
<1>1. at[w] \in Repos /\ pc[w] \notin Holding
  BY DEF Takes, RPop, Unique, Typed, Hands, Holding, InPop, InWork
<1>2. QED  BY <1>1, HeadPlaces, TakesHand DEF Takes

LEMMA DropsPlaces ==
    ASSUME Unique, NEW w \in Workers, Drops(w), NEW j \in Runs
    PROVE  Shrunk(j)
<1>1. at[w] \in Repos
  BY DEF Drops, RPop, Unique, Typed, Hands, Holding, InPop, InWork
<1>2. InHand(j)' <=> InHand(j)
  BY DEF Drops, InHand
<1>3. QED  BY <1>1, <1>2, HeadPlaces DEF Drops, Shrunk

LEMMA HandOf ==
    ASSUME Unique, NEW w \in Workers, pc[w] \in Holding
    PROVE  job[w] \in Runs /\ InHand(job[w]) /\ at[w] = RepoOf[job[w]] /\ ticket[job[w]] # 0
  BY DEF Unique, Typed, Hands, InHand, Fresh

LEMMA ReturnsPlaces ==
    ASSUME Unique, NEW w \in Workers, Returns(w), NEW j \in Runs
    PROVE  /\ InList(j)' <=> InList(j) \/ j = job[w]
           /\ InHand(j)' <=> InHand(j) /\ j # job[w]
<1>1. pc[w] = "requeue" /\ pc[w] \in Holding /\ job' = [job EXCEPT ![w] = None]
  BY DEF Returns, Requeue, LetGo, Holding, InPop
<1>2. QED  BY <1>1, HandOf, BackPlaces, OpensHand DEF Returns

LEMMA OpensPlaces ==
    ASSUME Unique, NEW w \in Workers, Mislaid(w) \/ AckRem(w), NEW j \in Runs
    PROVE  /\ InList(j)' <=> InList(j)
           /\ InHand(j)' <=> InHand(j) /\ j # job[w]
<1>1. pc[w] \in Holding /\ job' = [job EXCEPT ![w] = None] /\ queue' = queue
  BY DEF Mislaid, Requeue, AckRem, LetGo, Holding, InPop, InWork
<1>2. InList(j)' <=> InList(j)
  BY <1>1 DEF InList
<1>3. QED  BY <1>1, <1>2, HandOf, OpensHand

LEMMA EvictPlaces ==
    ASSUME Unique, NEW r \in Repos, Evict(r), NEW j \in Runs
    PROVE  Shrunk(j)
<1>1. job' = job /\ queue \in [Repos -> Seq(Runs)] /\ RepoOf[j] \in Repos
  BY RepoOfAssumption DEF Evict, workerVars, Unique, Typed, TypeOK
<1>2. queue'[RepoOf[j]] = queue[RepoOf[j]] \/ queue'[RepoOf[j]] = << >>
  BY <1>1 DEF Evict
<1>3. InList(j)' => InList(j)
  BY <1>2 DEF InList
<1>4. QED  BY <1>1, <1>3 DEF Shrunk, InHand

LEMMA EndPlaces ==
    ASSUME Unique, Crash \/ Exit, NEW j \in Runs
    PROVE  Shrunk(j) /\ (InList(j)' <=> InList(j)) /\ (Exit => Stays(j))
<1>1. queue' = queue /\ \A w \in Workers : job'[w] = None
  BY DEF Crash, Exit, ForgetWorkers, redisVars
<1>2. ~InHand(j)' /\ (InList(j)' <=> InList(j))
  BY <1>1, NoneAssumption DEF InHand, InList
<1>3. Exit => ~InHand(j)
  <2>1. Exit => \A w \in Workers : job[w] = None
    BY DEF Exit, Unique, Typed, Hands, Holding, InPop, InWork
  <2>2. QED  BY <2>1, NoneAssumption DEF InHand
<1>4. QED  BY <1>2, <1>3 DEF Shrunk, Stays

-----------------------------------------------------------------------------
(* What is in execution was delivered.                                     *)
LEMMA SettledInit == Init => Settled
<1>1. Init => Worked
  BY DEF Init, Worked, InWork
<1>2. QED  BY <1>1, UniqueInit DEF Settled

LEMMA SettledStep == Settled /\ [Next]_vars => Settled'
<1> SUFFICES ASSUME Settled, [Next]_vars PROVE Settled'
  OBVIOUS
<1>1. Unique'
  BY UniqueStep DEF Settled
<1>2. TypeOK
  BY DEF Settled, Unique, Typed
<1>3. ASSUME NEW w \in Workers, RunWorker(w), NEW v \in Workers, pc'[v] \in InWork
      PROVE  job'[v] \in delivered'
  <2>1. CASE v # w
    <3>1. pc'[v] = pc[v] /\ job'[v] = job[v] /\ delivered \subseteq delivered'
      BY <1>2, <1>3, <2>1
      DEF RunWorker, Pop, Ack, TypeOK, Stop, Scan, Exists, RPop, SetLock, Requeue, Track, Work,
          AckDel, AckRem, NextKey, Goto, LetGo, auditVars
    <3>2. QED  BY <1>3, <3>1 DEF Settled, Worked
  <2>2. CASE v = w
    <3>1. CASE Track(w)
      BY <1>2, <2>2, <3>1 DEF Track, TypeOK
    <3>2. CASE (\E f \in BOOLEAN : Work(w, f)) \/ AckDel(w)
      BY <1>2, <2>2, <3>2 DEF Work, AckDel, Settled, Worked, InWork, auditVars
    <3>3. CASE Stop(w) \/ Scan(w) \/ (\E r \in Repos : Exists(w, r)) \/ RPop(w) \/ AckRem(w)
      <4>1. pc'[w] \notin InWork
        BY <1>2, <3>3 DEF Stop, Scan, Exists, RPop, AckRem, NextKey, Goto, TypeOK, InWork
      <4>2. QED  BY <1>3, <2>2, <4>1
    <3>4. CASE SetLock(w) \/ Requeue(w)
      <4>1. pc'[w] \notin InWork
        BY <1>2, <3>4 DEF SetLock, Requeue, NextKey, Goto, TypeOK, InWork
      <4>2. QED  BY <1>3, <2>2, <4>1
    <3>5. QED  BY <1>3, <3>1, <3>2, <3>3, <3>4 DEF RunWorker, Pop, Ack
  <2>3. QED  BY <2>1, <2>2
<1>4. ASSUME Environment \/ UNCHANGED vars, NEW v \in Workers, pc'[v] \in InWork
      PROVE  job'[v] \in delivered'
  <2>1. CASE (\E j \in Runs : Push(j) \/ RemoveByRunID(j)) \/ Shutdown \/ Restart
             \/ (\E r \in Repos : LockExpire(r) \/ Evict(r)) \/ UNCHANGED vars
    <3>1. pc' = pc /\ job' = job /\ delivered' = delivered
      BY <2>1 DEF Push, RemoveByRunID, Shutdown, Restart, LockExpire, Evict, vars, workerVars,
                  auditVars
    <3>2. QED  BY <1>4, <3>1 DEF Settled, Worked
  <2>2. CASE Crash \/ Exit
    <3>1. pc'[v] = "idle"
      BY <2>2 DEF Crash, Exit, ForgetWorkers
    <3>2. QED  BY <1>4, <3>1 DEF InWork
  <2>3. QED  BY <1>4, <2>1, <2>2 DEF Environment
<1>5. Worked'
  BY <1>3, <1>4 DEF Next, Settled, Worked
<1>6. QED  BY <1>1, <1>5 DEF Settled

LEMMA SettledAlways == Spec => []Settled
  BY SettledInit, SettledStep, PTL DEF Spec

-----------------------------------------------------------------------------
(* What may lose a job.                                                    *)
LEMMA LossStep ==
    ASSUME Settled, Settled', [Next]_vars, NEW j \in Runs,
           InHand(j) \/ InList(j), ~(InHand(j)' \/ InList(j)')
    PROVE  j \in delivered \/ RemoveByRunID(j) \/ Mislays
<1> USE DEF Settled
<1>1. CASE \E w \in Workers : RunWorker(w)
  <2>1. PICK w \in Workers : RunWorker(w)
    BY <1>1
  <2>2. ~WorkerQuiet(w)
    BY QuietPlaces DEF Stays
  <2>3. CASE RPop(w)
    <3>1. ~Takes(w)
      BY TakesPlaces
    <3>2. Drops(w)
      BY <2>2, <2>3, <3>1, RPopKinds
    <3>3. QED  BY <2>3, <3>2 DEF Drops, Mislays
  <2>4. CASE Requeue(w)
    <3>1. ~Returns(w)
      BY ReturnsPlaces
    <3>2. Mislaid(w)
      BY <2>4, <3>1, RequeueKinds
    <3>3. QED  BY <2>4, <3>2 DEF Mislaid, Mislays
  <2>5. CASE AckRem(w)
    <3>1. j = job[w]
      BY <2>5, OpensPlaces
    <3>2. QED  BY <2>5, <3>1 DEF AckRem, Worked, InWork
  <2>6. QED  BY <2>1, <2>2, <2>3, <2>4, <2>5 DEF RunWorker, Pop, Ack, WorkerQuiet
<1>2. CASE \E k \in Runs : Push(k)
  BY <1>2, PushPlaces
<1>3. CASE \E k \in Runs : RemoveByRunID(k)
  BY <1>3, RemovePlaces
<1>4. CASE \E r \in Repos : Evict(r)
  BY <1>4 DEF Mislays
<1>5. CASE Crash \/ Exit
  BY <1>5, EndPlaces DEF Mislays, Stays
<1>6. CASE (\E r \in Repos : LockExpire(r)) \/ Shutdown \/ Restart \/ UNCHANGED vars
  BY <1>6, QuietPlaces DEF Stays
<1>7. QED  BY <1>1, <1>2, <1>3, <1>4, <1>5, <1>6 DEF Next, Environment

(* A job that was pushed leaves its list and every hand only to be run or  *)
(* because its run is cancelled, with the process, by an eviction, or when *)
(* RPOP or the RPUSH that puts it back fails: an error of EXISTS, SET,     *)
(* LPUSH, DEL or LREM costs no job, in any interleaving of the workers.    *)
THEOREM NothingElseLoses == Spec => LosesOnlyByFault
<1>1. ASSUME Settled, Settled', [Next]_vars, NEW j \in Runs, InPlace(j), ~InPlace(j)'
      PROVE  j \in delivered \/ RemoveByRunID(j) \/ Mislays
  <2>1. InHand(j) \/ InList(j)
    BY <1>1, PlaceFacts DEF Settled, Unique
  <2>2. ~(InHand(j)' \/ InList(j)')
    BY <1>1, PlaceFactsNext DEF Settled, Unique
  <2>3. QED  BY <1>1, <2>1, <2>2, LossStep
<1>2. Settled /\ Settled' /\ [Next]_vars =>
        [\A j \in Runs : InPlace(j) /\ ~InPlace(j)'
            => j \in delivered \/ RemoveByRunID(j) \/ Mislays]_vars
  BY <1>1
<1>3. QED  BY <1>2, SettledAlways, PTL DEF Spec, LosesOnlyByFault

-----------------------------------------------------------------------------
(* The refinement: what the places of a job say of its state.              *)
Apart ==
    \A j \in Runs :
      /\ ~(InList(j) /\ InHand(j))
      /\ InList(j) => ticket[j] # 0 /\ j \notin delivered
      /\ InHand(j) => ticket[j] # 0
      /\ j \in delivered => ticket[j] # 0

LEMMA PlacesApart == Settled => Apart
<1>1. Settled => \A j \in Runs : j \in delivered => ticket[j] # 0
  BY DEF Settled, Unique, Fresh
<1>2. QED  BY <1>1, OneOf, NotNew DEF Settled, Apart

LEMMA PlacesApartNext == Settled' => Apart'
  BY PlacesApart, PTL

LEMMA PlaceOf ==
    ASSUME Settled, NEW j \in Runs
    PROVE  /\ InList(j) => Place(j) = "waiting"
           /\ InHand(j) /\ j \notin delivered => Place(j) = "taken"
           /\ j \in delivered => Place(j) = "delivered"
           /\ ticket[j] = 0 => Place(j) = "new"
           /\ ticket[j] # 0 /\ j \notin delivered /\ ~InList(j) /\ ~InHand(j)
                => Place(j) = "gone"
<1>1. (j \in Queued(RepoOf[j]) <=> InList(j)) /\ (j \in Held <=> InHand(j))
  BY PlaceFacts DEF Settled, Unique
<1>2. Apart
  BY PlacesApart
<1>3. QED  BY <1>1, <1>2 DEF Place, Apart

LEMMA PlaceOfNext ==
    ASSUME Settled', NEW j \in Runs
    PROVE  /\ InList(j)' => Place(j)' = "waiting"
           /\ InHand(j)' /\ j \notin delivered' => Place(j)' = "taken"
           /\ j \in delivered' => Place(j)' = "delivered"
           /\ ticket'[j] = 0 => Place(j)' = "new"
           /\ ticket'[j] # 0 /\ j \notin delivered' /\ ~InList(j)' /\ ~InHand(j)'
                => Place(j)' = "gone"
<1>1. ((j \in Queued(RepoOf[j]))' <=> InList(j)') /\ ((j \in Held)' <=> InHand(j)')
  BY PlaceFactsNext DEF Settled, Unique
<1>2. Apart'
  BY PlacesApartNext
<1>3. QED  BY <1>1, <1>2 DEF Place, Apart

(* A step of the queue as a step of JobDelivery.                           *)
Where == [j \in Runs |-> Place(j)]

Withdrawn ==
    \A j \in Runs : \/ Place(j)' = Place(j)
                    \/ Place(j)' = "gone" /\ Place(j) \in {"waiting", "taken"}

LEMMA MoveIsStep ==
    ASSUME NEW h \in Runs, NEW from, NEW to, Place(h) = from, Place(h)' = to,
           \A j \in Runs \ {h} : Place(j)' = Place(j)
    PROVE  Delivery!Move(h, from, to)
<1>1. Where[h] = from
  BY DEF Where
<1>2. Where' = [Where EXCEPT ![h] = to]
  BY DEF Where
<1>3. QED  BY <1>1, <1>2 DEF Where, Delivery!Move

LEMMA WithdrawIsStep ==
    ASSUME Withdrawn
    PROVE  Delivery!Next
<1> DEFINE S == {j \in Runs : Place(j)' # Place(j)}
<1>1. \A j \in S : Where[j] \in {"waiting", "taken"}
  BY DEF Where, Withdrawn
<1>2. Where' = [j \in Runs |-> IF j \in S THEN "gone" ELSE Where[j]]
  BY DEF Where, Withdrawn
<1>3. Delivery!Withdraw(S)
  BY <1>1, <1>2 DEF Where, Delivery!Withdraw
<1>4. S \in SUBSET Runs
  OBVIOUS
<1>5. QED  BY <1>3, <1>4 DEF Delivery!Next

(* Whatever only loses jobs withdraws them.                                *)
LEMMA ShrinkWithdraws ==
    ASSUME Settled, Settled', ticket' = ticket, delivered' = delivered,
           \A j \in Runs : Shrunk(j)
    PROVE  Withdrawn
<1> SUFFICES ASSUME NEW j \in Runs
             PROVE  \/ Place(j)' = Place(j)
                    \/ Place(j)' = "gone" /\ Place(j) \in {"waiting", "taken"}
  BY DEF Withdrawn
<1>1. (InList(j)' => InList(j)) /\ (InHand(j)' => InHand(j)) /\ ~(InList(j) /\ InHand(j))
  BY OneOf DEF Shrunk, Settled
<1>2. CASE ticket[j] = 0 \/ j \in delivered
  BY <1>2, PlaceOf, PlaceOfNext
<1>3. CASE ticket[j] # 0 /\ j \notin delivered /\ InList(j)
  BY <1>1, <1>3, PlaceOf, PlaceOfNext
<1>4. CASE ticket[j] # 0 /\ j \notin delivered /\ InHand(j)
  BY <1>1, <1>4, PlaceOf, PlaceOfNext
<1>5. CASE ticket[j] # 0 /\ j \notin delivered /\ ~InList(j) /\ ~InHand(j)
  BY <1>1, <1>5, PlaceOf, PlaceOfNext
<1>6. QED  BY <1>2, <1>3, <1>4, <1>5

(* LPUSH submits, RPOP takes, RPUSH returns and the end of Pop delivers.   *)
LEMMA PushSubmits ==
    ASSUME Settled, Settled', NEW k \in Runs, Push(k)
    PROVE  Delivery!Submit(k)
<1>1. Place(k) = "new"
  BY PlaceOf DEF Push
<1>2. Place(k)' = "waiting"
  BY PushPlaces, PlaceOfNext DEF Settled
<1>3. ASSUME NEW j \in Runs \ {k} PROVE Place(j)' = Place(j)
  <2>1. ticket'[j] = ticket[j] /\ delivered' = delivered
    BY DEF Push, auditVars, Settled, Unique, Typed, TypeOK
  <2>2. (InList(j)' <=> InList(j)) /\ (InHand(j)' <=> InHand(j))
    BY PushPlaces DEF Settled
  <2>3. QED  BY <2>1, <2>2, PlaceOf, PlaceOfNext
<1>4. QED  BY <1>1, <1>2, <1>3, MoveIsStep DEF Delivery!Submit

LEMMA RPopTakes ==
    ASSUME Settled, Settled', NEW w \in Workers, Takes(w),
           NEW h \in Runs, h = Head(queue[at[w]])
    PROVE  Delivery!Take(h)
<1>1. ticket' = ticket /\ delivered' = delivered
  BY DEF Takes, RPop, auditVars
<1>2. InList(h) /\ ~InList(h)' /\ InHand(h)'
      /\ \A j \in Runs \ {h} : (InList(j)' <=> InList(j)) /\ (InHand(j)' <=> InHand(j))
  BY TakesPlaces DEF Settled
<1>3. Place(h) = "waiting" /\ h \notin delivered
  BY <1>2, PlaceOf, NotNew DEF Settled
<1>4. Place(h)' = "taken"
  BY <1>1, <1>2, <1>3, PlaceOfNext
<1>5. \A j \in Runs \ {h} : Place(j)' = Place(j)
  BY <1>1, <1>2, PlaceOf, PlaceOfNext
<1>6. QED  BY <1>3, <1>4, <1>5, MoveIsStep DEF Delivery!Take

LEMMA RPushReturns ==
    ASSUME Settled, Settled', NEW w \in Workers, Returns(w), NEW h \in Runs, h = job[w]
    PROVE  Delivery!Return(h)
<1>1. ticket' = ticket /\ delivered' = delivered
  BY DEF Returns, Requeue, auditVars
<1>2. InHand(h) /\ h \notin delivered
  BY HandOf DEF Returns, Requeue, Settled, Unique, Fresh, Holding, InPop
<1>3. InList(h)'
      /\ \A j \in Runs \ {h} : (InList(j)' <=> InList(j)) /\ (InHand(j)' <=> InHand(j))
  BY ReturnsPlaces DEF Settled
<1>4. Place(h) = "taken"
  BY <1>2, PlaceOf
<1>5. Place(h)' = "waiting"
  BY <1>3, PlaceOfNext
<1>6. \A j \in Runs \ {h} : Place(j)' = Place(j)
  BY <1>1, <1>3, PlaceOf, PlaceOfNext
<1>7. QED  BY <1>4, <1>5, <1>6, MoveIsStep DEF Delivery!Return

LEMMA TrackDelivers ==
    ASSUME Settled, Settled', NEW w \in Workers, Track(w), NEW h \in Runs, h = job[w]
    PROVE  Delivery!Deliver(h)
<1>1. ticket' = ticket /\ delivered' = delivered \cup {h}
  BY DEF Track
<1>2. InHand(h) /\ h \notin delivered
  BY HandOf DEF Track, Settled, Unique, Fresh, Holding, InPop
<1>3. \A j \in Runs : (InList(j)' <=> InList(j)) /\ (InHand(j)' <=> InHand(j))
  BY QuietPlaces DEF WorkerQuiet, Settled, Stays
<1>4. Place(h) = "taken"
  BY <1>2, PlaceOf
<1>5. Place(h)' = "delivered"
  BY <1>1, PlaceOfNext
<1>6. \A j \in Runs \ {h} : Place(j)' = Place(j)
  BY <1>1, <1>3, PlaceOf, PlaceOfNext
<1>7. QED  BY <1>4, <1>5, <1>6, MoveIsStep DEF Delivery!Deliver

LEMMA DeliveryStep == Settled /\ Settled' /\ [Next]_vars => Delivery!Next
<1> SUFFICES ASSUME Settled, Settled', [Next]_vars PROVE Delivery!Next
  OBVIOUS
<1>1. ASSUME ticket' = ticket, delivered' = delivered, \A j \in Runs : Shrunk(j)
      PROVE  Delivery!Next
  BY <1>1, ShrinkWithdraws, WithdrawIsStep
<1>2. ASSUME NEW w \in Workers, RunWorker(w) PROVE Delivery!Next
  <2>1. ticket' = ticket /\ (~Track(w) => delivered' = delivered)
    BY <1>2 DEF RunWorker, Pop, Ack, Stop, Scan, Exists, RPop, SetLock, Requeue, Track, Work,
                AckDel, AckRem, auditVars
  <2>2. CASE Track(w)
    <3>1. job[w] \in Runs
      BY <2>2, HandOf DEF Track, Settled, Holding, InPop
    <3>2. PICK h \in Runs : h = job[w]
      BY <3>1
    <3>3. QED  BY <2>2, <3>2, TrackDelivers DEF Delivery!Next
  <2>3. CASE Takes(w)
    <3>1. Head(queue[at[w]]) \in Runs
      <4>1. at[w] \in Repos /\ queue[at[w]] # << >>
        BY <2>3 DEF Takes, RPop, Settled, Unique, Typed, Hands, Holding, InPop, InWork
      <4>2. queue[at[w]] \in Seq(Runs)
        BY <4>1 DEF Settled, Unique, Typed, TypeOK
      <4>3. QED  BY <4>1, <4>2, PopFacts
    <3>2. PICK h \in Runs : h = Head(queue[at[w]])
      BY <3>1
    <3>3. QED  BY <2>3, <3>2, RPopTakes DEF Delivery!Next
  <2>4. CASE Returns(w)
    <3>1. job[w] \in Runs
      BY <2>4, HandOf DEF Returns, Requeue, Settled, Holding, InPop
    <3>2. PICK h \in Runs : h = job[w]
      BY <3>1
    <3>3. QED  BY <2>4, <3>2, RPushReturns DEF Delivery!Next
  <2>5. CASE WorkerQuiet(w) /\ ~Track(w)
    <3>1. \A j \in Runs : Shrunk(j)
      BY <2>5, QuietPlaces DEF Settled, Stays, Shrunk
    <3>2. QED  BY <1>1, <2>1, <2>5, <3>1
  <2>6. CASE Drops(w) /\ ~Track(w)
    <3>1. \A j \in Runs : Shrunk(j)
      BY <2>6, DropsPlaces DEF Settled
    <3>2. QED  BY <1>1, <2>1, <2>6, <3>1
  <2>7. CASE (Mislaid(w) \/ AckRem(w)) /\ ~Track(w)
    <3>1. \A j \in Runs : Shrunk(j)
      BY <2>7, OpensPlaces DEF Settled, Shrunk
    <3>2. QED  BY <1>1, <2>1, <2>7, <3>1
  <2>8. QED
    BY <1>2, <2>2, <2>3, <2>4, <2>5, <2>6, <2>7, RPopKinds, RequeueKinds
    DEF RunWorker, Pop, Ack, WorkerQuiet
<1>3. CASE \E k \in Runs : Push(k)
  BY <1>3, PushSubmits DEF Delivery!Next
<1>4. CASE \E k \in Runs : RemoveByRunID(k)
  <2>1. \A j \in Runs : Shrunk(j)
    BY <1>4, RemovePlaces DEF Settled, Shrunk
  <2>2. QED  BY <1>1, <1>4, <2>1 DEF RemoveByRunID, auditVars
<1>5. CASE \E r \in Repos : Evict(r)
  <2>1. \A j \in Runs : Shrunk(j)
    BY <1>5, EvictPlaces DEF Settled
  <2>2. QED  BY <1>1, <1>5, <2>1 DEF Evict, auditVars
<1>6. CASE Crash \/ Exit
  <2>1. \A j \in Runs : Shrunk(j)
    BY <1>6, EndPlaces DEF Settled
  <2>2. QED  BY <1>1, <1>6, <2>1 DEF Crash, Exit, auditVars
<1>7. CASE (\E r \in Repos : LockExpire(r)) \/ Shutdown \/ Restart \/ UNCHANGED vars
  <2>1. \A j \in Runs : Shrunk(j)
    BY <1>7, QuietPlaces DEF Settled, Stays, Shrunk
  <2>2. QED  BY <1>1, <1>7, <2>1 DEF LockExpire, Shutdown, Restart, vars, auditVars
<1>8. QED  BY <1>2, <1>3, <1>4, <1>5, <1>6, <1>7 DEF Next, Environment

(* The queue implements at-most-once delivery: seen from outside, every    *)
(* command of Push, Pop, Ack and RemoveByRunID, every failure of one and   *)
(* every end of the process submits a job, takes one, returns one that was *)
(* not handed over, hands one over, or withdraws some for good.            *)
THEOREM QueueDelivers == Spec => ImplementsDelivery
<1>1. Init => Delivery!Init
  BY DEF Init, Delivery!Init, Place
<1>2. Settled /\ Settled' /\ [Next]_vars => [Delivery!Next]_Where
  BY DeliveryStep
<1>3. QED
  BY <1>1, <1>2, SettledAlways, PTL DEF Spec, ImplementsDelivery, Delivery!Spec, Where
=============================================================================
