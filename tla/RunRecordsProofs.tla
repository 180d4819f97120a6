-------------------------- MODULE RunRecordsProofs --------------------------
(***************************************************************************)
(* Proofs about RunRecords, for any reports, any number of requests and    *)
(* any bounds: its types, who owns a run and its rows, in which order a    *)
(* report is taken in, and what numbers runs are given.                    *)
(***************************************************************************)
EXTENDS RunRecords, SequenceTheorems, WellFoundedInduction, TLAPS

Taking == {"groups", "cases", "finish"}

Request ==
    [op : {"none", "trigger", "runAll", "rerun", "report", "callback", "completion"},
     at : {"idle", "find", "number", "create", "push", "suite", "conclude"} \cup Taking,
     suite : Nat, rest : Seq(Nat), commit : Commits \cup {""}, number : Nat, run : Nat,
     pay : Payloads \cup {NoReport}, job : Nat, known : [Names -> Nat] \cup {<<>>},
     made : Seq(Nat), verdict : {"", "passed", "failed"},
     open : SUBSET Nat, saw : SUBSET Nat]

(* Which request gets where, and with what in hand.                        *)
Route(r) ==
    /\ r.at = "idle" <=> r.op = "none"
    /\ r.at = "find" => r.op \in {"trigger", "runAll"}
    /\ r.at \in {"number", "create"} => r.op \in {"trigger", "runAll", "rerun", "report"}
    /\ r.at = "push" => r.op \in {"trigger", "runAll", "rerun"}
    /\ r.at = "suite" => r.op = "report"
    /\ r.at \in Taking => r.op \in {"report", "callback", "completion"}
    /\ r.at = "conclude" => r.op \in {"callback", "completion"}
    /\ r.op \in {"callback", "completion"} => r.verdict # ""
    /\ r.op \in {"trigger", "runAll", "rerun", "report"} => r.commit \in Commits
    /\ r.op # "runAll" => r.rest = <<>>
    /\ r.op # "report" => r.job = 0
    /\ r.op \in {"none", "trigger", "runAll", "rerun"} => r.pay = NoReport
    /\ r.op = "report" => /\ r.pay \in Payloads /\ r.job \in 1..Len(r.pay)
                          /\ r.known \in [Names -> Nat]

(* What a request has read and is still so: its suite and run are there,   *)
(* its number exceeds those it has seen, the suites it has looked up have  *)
(* the names it asked for, and a trigger on its way to a row saw no        *)
(* verdict of a run that it would find now.                                *)
Looked(r) ==
    \A n \in Names : r.known[n] # 0 => r.known[n] \in DOMAIN suites /\ suites[r.known[n]] = n

Unseen(r) ==
    \A x \in 1..MaxRuns :
        (x \in Runs => runs[x].suite = r.suite /\ runs[x].commit = r.commit) => x \in r.open

Sound(r) ==
    /\ r.suite \in DOMAIN suites \cup {0} /\ r.run \in Runs \cup {0}
    /\ r.at \in {"find", "number", "create"} => r.suite # 0
    /\ r.at \in {"push", "conclude"} \cup Taking => r.run # 0
    /\ \A i \in 1..Len(r.rest) : r.rest[i] \in DOMAIN suites
    /\ r.at = "create" => /\ r.number \in 1..(Len(runs) + 1) /\ r.saw \subseteq Runs
                          /\ \A x \in r.saw : runs[x].suite = r.suite => runs[x].number < r.number
    /\ r.at = "push" \/ r.op \in {"callback", "completion"} => r.run # 0 /\ from[r.run].job = 0
    /\ r.op = "report" => Looked(r)
    /\ r.op \in {"trigger", "runAll"} /\ r.at \in {"number", "create"} => Unseen(r)

(* A report is at the first job that has no finished run.                  *)
Taken(r) ==
    r.op = "report" =>
        /\ r.at \in {"number", "create"} => suites[r.suite] = r.pay[r.job].suite
        /\ r.at \in {"suite", "number", "create"} => Len(r.made) = r.job - 1
        /\ r.at \in Taking => /\ Len(r.made) = r.job /\ r.run = r.made[r.job]
                              /\ from[r.run] = [pay |-> r.pay, job |-> r.job]
        /\ \A j \in 1..Len(r.made) :
              /\ r.made[j] \in Runs
              /\ suites[runs[r.made[j]].suite] = r.pay[j].suite
              /\ j < r.job => runs[r.made[j]].summary # NoSummary

(* The tables hold rows that belong together, and a row's number is at     *)
(* most the number of rows when it was inserted.                           *)
IsSeq(s) == s \in Seq(ToSet(s))
Columns == {"suite", "commit", "number", "status", "summary", "report"}
Statuses == {"queued", "running", "passed", "failed", "cancelled"}
Tables ==
    /\ suites \in Seq(Names)
    /\ IsSeq(runs) /\ IsSeq(groups) /\ IsSeq(cases) /\ IsSeq(from)
    /\ Len(groups) = Len(runs) /\ Len(cases) = Len(runs) /\ Len(from) = Len(runs)
    /\ Len(runs) <= MaxRuns
    /\ \A r \in Runs : /\ DOMAIN runs[r] = Columns
                       /\ runs[r].suite \in DOMAIN suites /\ runs[r].commit \in Commits
                       /\ runs[r].number \in 1..r /\ runs[r].status \in Statuses
    /\ jobs \subseteq Runs /\ hurt \subseteq Runs
    /\ \A r \in jobs : from[r].job = 0

Counted == started \in 0..MaxRequests /\ faults \in 0..MaxFaults

Typed ==
    /\ Tables /\ Counted
    /\ req \in [Procs -> Request]
    /\ \A p \in Procs : Route(req[p]) /\ Sound(req[p])

(* The run of a report is nobody else's, and has no rows before its own.   *)
Apart ==
    \A p \in Procs : req[p].op = "report" /\ req[p].at \in Taking =>
        /\ req[p].at = "groups" => groups[req[p].run] = <<>>
        /\ \A q \in Procs : q # p /\ req[q].op = "report" /\ req[q].at \in Taking
                                => req[q].run # req[p].run

(* RunsAreOwned, with the place at which a request is the owner.           *)
Pushes(p, r) == req[p].run = r /\ req[p].at = "push"
Takes(p, r) == req[p].op = "report" /\ req[p].run = r /\ req[p].at \in Taking
Owned ==
    \A r \in Runs \ (jobs \cup hurt) :
        /\ runs[r].status = "queued" => \E p \in Procs : Pushes(p, r)
        /\ runs[r].status = "running" => Repeats(from[r]) \/ \E p \in Procs : Takes(p, r)

(* ReportIsPrefix, with the type of what it is about.                      *)
Answered(a) ==
    /\ DOMAIN a = {"pay", "runs", "ok"}
    /\ a.runs \in Seq(Nat)
    /\ Len(a.runs) <= Len(a.pay) /\ (a.ok => Len(a.runs) = Len(a.pay))
    /\ \A j \in 1..Len(a.runs) :
          /\ a.runs[j] \in Runs
          /\ suites[runs[a.runs[j]].suite] = a.pay[j].suite
          /\ a.ok \/ j < Len(a.runs) => runs[a.runs[j]].summary # NoSummary

InOrder ==
    /\ \A p \in Procs : Taken(req[p])
    /\ \A a \in answers : Answered(a)

-----------------------------------------------------------------------------
(* Sequences of anything.                                                  *)
LEMMA SeqOwn == ASSUME NEW S, NEW s \in Seq(S) PROVE IsSeq(s)
<1>1. Len(s) \in Nat /\ s \in [1..Len(s) -> S] /\ DOMAIN s = 1..Len(s)
  BY LenProperties
<1>2. s \in [1..Len(s) -> ToSet(s)]
  BY <1>1 DEF ToSet
<1>3. QED  BY <1>1, <1>2 DEF IsSeq

LEMMA SeqFacts ==
    ASSUME NEW s, IsSeq(s)
    PROVE  Len(s) \in Nat /\ DOMAIN s = 1..Len(s) /\ s \in [1..Len(s) -> ToSet(s)]
  BY LenProperties DEF IsSeq

LEMMA SeqAppend ==
    ASSUME NEW s, IsSeq(s), NEW x
    PROVE  /\ IsSeq(Append(s, x)) /\ Len(Append(s, x)) = Len(s) + 1
           /\ \A i \in 1..Len(s) : Append(s, x)[i] = s[i]
           /\ Append(s, x)[Len(s) + 1] = x
<1> DEFINE S == ToSet(s) \cup {x}
<1>1. s \in Seq(S) /\ x \in S
  <2>1. Len(s) \in Nat /\ s \in [1..Len(s) -> ToSet(s)]
    BY LenProperties DEF IsSeq
  <2>2. s \in [1..Len(s) -> S]
    BY <2>1
  <2>3. QED  BY <2>1, <2>2
<1> HIDE DEF S
<1>2. /\ Append(s, x) \in Seq(S) /\ Len(Append(s, x)) = Len(s) + 1
      /\ \A i \in 1..Len(s) : Append(s, x)[i] = s[i]
      /\ Append(s, x)[Len(s) + 1] = x
  BY <1>1, AppendProperties
<1>3. QED  BY <1>2, SeqOwn

LEMMA SeqOfFunction ==
    ASSUME NEW S, NEW n \in Nat, NEW t \in [1..n -> S]
    PROVE  IsSeq(t) /\ Len(t) = n
<1>1. t \in Seq(S) /\ Len(t) = n
  OBVIOUS
<1>2. QED  BY <1>1, SeqOwn

(* The greatest of some numbers that are not above b, and 0.               *)
LEMMA MaxFacts ==
    ASSUME NEW T, NEW b \in Nat, T \subseteq 0..b
    PROVE  /\ Max(T \cup {0}) \in T \cup {0} /\ Max(T \cup {0}) \in 0..b
           /\ \A n \in T : n <= Max(T \cup {0})
<1> DEFINE S == T \cup {0}
           D == {b - n : n \in S}
           R == OpToRel(<, Nat)
<1>1. D \subseteq Nat /\ D # {} /\ S \subseteq 0..b
  OBVIOUS
<1>2. PICK m \in D : \A n \in D : ~(<<n, m>> \in R)
  <2> HIDE DEF D, R
  <2>1. IsWellFoundedOn(R, Nat)
    BY NatLessThanWellFounded DEF R
  <2>2. QED  BY <1>1, <2>1, WFMin
<1>3. \A n \in D : ~(n < m)
  BY <1>1, <1>2 DEF OpToRel
<1>4. PICK g \in S : m = b - g
  OBVIOUS
<1>5. \A n \in S : g >= n
  <2>1. ASSUME NEW n \in S PROVE g >= n
    <3>1. b - n \in D /\ ~(b - n < m)
      BY <1>3
    <3>2. QED  BY <1>1, <1>4, <3>1
  <2>2. QED  BY <2>1
<1> HIDE DEF S
<1>6. Max(S) \in S /\ \A n \in S : Max(S) >= n
  BY <1>5 DEF Max
<1>7. QED  BY <1>1, <1>6 DEF S

-----------------------------------------------------------------------------
(* Rows are added, never taken away, and what a row is about stays.        *)
Grows ==
    /\ \A s \in DOMAIN suites : s \in DOMAIN suites' /\ suites'[s] = suites[s]
    /\ Len(runs) <= Len(runs')
    /\ \A r \in Runs :
          /\ r \in DOMAIN runs'
          /\ runs'[r].suite = runs[r].suite /\ runs'[r].number = runs[r].number
          /\ runs'[r].commit = runs[r].commit
          /\ runs[r].summary # NoSummary => runs'[r].summary # NoSummary
          /\ from'[r].job = from[r].job
          /\ from[r].job # 0 => from'[r] = from[r]

Indexed ==
    /\ Len(runs) \in Nat /\ Runs = 1..Len(runs) /\ Len(suites) \in Nat
    /\ DOMAIN suites = 1..Len(suites) /\ DOMAIN from = Runs /\ DOMAIN groups = Runs
    /\ DOMAIN cases = Runs /\ \A s \in DOMAIN suites : suites[s] \in Names

LEMMA Indices == Tables => Indexed
<1> SUFFICES ASSUME Tables PROVE Indexed
  OBVIOUS
<1>1. suites \in Seq(Names)
  BY DEF Tables
<1>2. Len(suites) \in Nat /\ suites \in [1..Len(suites) -> Names] /\ DOMAIN suites = 1..Len(suites)
  BY <1>1, LenProperties
<1>3. IsSeq(runs) /\ IsSeq(from) /\ IsSeq(groups) /\ IsSeq(cases)
  BY DEF Tables
<1>4. QED  BY <1>2, <1>3, SeqFacts DEF Tables, Runs, Indexed

LEMMA IndicesNext == Tables' => Indexed'
  BY Indices, PTL

LEMMA SoundStays ==
    ASSUME Tables, Tables', Grows, NEW r \in Request, Sound(r)
    PROVE  Sound(r)'
<1>1. /\ Len(runs) \in Nat /\ Runs = 1..Len(runs) /\ DOMAIN suites = 1..Len(suites)
      /\ Len(runs') \in Nat /\ Runs' = 1..Len(runs')
  BY Indices, IndicesNext DEF Indexed
<1>2. /\ r.suite \in DOMAIN suites \cup {0} => r.suite \in DOMAIN suites' \cup {0}
      /\ r.run \in Runs \cup {0} => r.run \in Runs' \cup {0}
      /\ \A i \in 1..Len(r.rest) : r.rest[i] \in DOMAIN suites => r.rest[i] \in DOMAIN suites'
  BY <1>1 DEF Grows
<1>3. ASSUME r.at = "create"
      PROVE  /\ r.number \in 1..(Len(runs') + 1) /\ r.saw \subseteq Runs'
             /\ \A x \in r.saw : runs'[x].suite = r.suite => runs'[x].number < r.number
  BY <1>1, <1>3 DEF Grows, Sound
<1>4. ASSUME r.at = "push" \/ r.op \in {"callback", "completion"}
      PROVE  r.run # 0 /\ from'[r.run].job = 0
  BY <1>1, <1>4 DEF Grows, Sound
<1>5. Looked(r) => Looked(r)'
  BY DEF Looked, Grows
<1>6. Unseen(r) => Unseen(r)'
  BY DEF Unseen, Grows, Runs
<1>7. QED  BY <1>2, <1>3, <1>4, <1>5, <1>6 DEF Sound

LEMMA OneRequest ==
    ASSUME Typed, NEW p \in Procs, NEW r \in Request, req' = [req EXCEPT ![p] = r]
    PROVE  /\ req' \in [Procs -> Request] /\ req'[p] = r
           /\ \A q \in Procs : req'[q] = IF q = p THEN r ELSE req[q]
  BY DEF Typed

(* One request goes on, the others find what they had.                     *)
LEMMA TypedByRequest ==
    ASSUME Typed, Tables', Counted', Grows, NEW p \in Procs, NEW r \in Request,
           req' = [req EXCEPT ![p] = r], Route(r), Sound(r)'
    PROVE  Typed'
<1>1. /\ req' \in [Procs -> Request]
      /\ \A q \in Procs : req'[q] = IF q = p THEN r ELSE req[q]
  BY OneRequest
<1>2. ASSUME NEW q \in Procs PROVE Route(req'[q]) /\ Sound(req[q])'
  <2>1. PICK g \in Request : g = req'[q]
    BY <1>1
  <2>2. CASE q = p
    <3>1. g = r
      BY <1>1, <2>1, <2>2
    <3>2. Route(g) /\ Sound(g)'
      BY <3>1
    <3>3. QED  BY <2>1, <3>2
  <2>3. CASE q # p
    <3>1. g = req[q]
      BY <1>1, <2>1, <2>3
    <3>2. Route(req[q]) /\ Sound(req[q])
      BY DEF Typed
    <3>3. Route(g) /\ Sound(g)
      BY <3>1, <3>2
    <3>4. Sound(g)'
      BY <3>3, SoundStays DEF Typed
    <3>5. QED  BY <2>1, <3>3, <3>4
  <2>4. QED  BY <2>2, <2>3
<1>3. QED  BY <1>1, <1>2 DEF Typed

LEMMA IdleFacts ==
    /\ Idle \in Request /\ Route(Idle) /\ Idle.at = "idle" /\ Idle.op = "none"
    /\ Idle.suite = 0 /\ Idle.run = 0 /\ Idle.rest = <<>> /\ Idle.job = 0 /\ Idle.made = <<>>
    /\ Idle.pay = NoReport
<1>1. Idle \in Request
  BY DEF Idle, Request, NoReport
<1>2. QED  BY <1>1 DEF Idle, Route, Taking

LEMMA IdleIsSound == Sound(Idle)
<1>1. Len(Idle.rest) = 0
  BY IdleFacts
<1>2. QED  BY <1>1, IdleFacts DEF Sound, Taking

-----------------------------------------------------------------------------
(* What a step does to the tables.                                         *)
LEMMA SameTables ==
    ASSUME Tables, UNCHANGED tables, from' = from, jobs' \subseteq jobs, hurt' \subseteq Runs
    PROVE  Tables' /\ Grows
<1>1. Tables'
  BY DEF Tables, tables, Runs, IsSeq
<1>2. Grows
  BY Indices DEF Indexed, Grows, tables, Runs
<1>3. QED  BY <1>1, <1>2

(* A run that is dispatched, not made from a report.                       *)
HasWorkflow(r) == r \in Runs /\ from[r].job = 0

LEMMA ReportedTables ==
    ASSUME Tables, UNCHANGED tables, jobs' = jobs, hurt' = hurt, NEW r, HasWorkflow(r), NEW pay,
           Reported(r, pay)
    PROVE  Tables' /\ Grows /\ from'[r].job = 0
<1>1. /\ r \in Runs /\ from[r].job = 0 /\ r \in 1..Len(from) /\ IsSeq(from)
      /\ from' = [from EXCEPT ![r] = [pay |-> pay, job |-> 0]]
  BY Indices DEF Indexed, Tables, Reported, HasWorkflow
<1>2. /\ IsSeq(from') /\ Len(from') = Len(from)
      /\ \A k \in 1..Len(from) : from'[k] = IF k = r THEN [pay |-> pay, job |-> 0] ELSE from[k]
  <2> DEFINE S == ToSet(from) \cup {[pay |-> pay, job |-> 0]}
  <2>1. Len(from) \in Nat /\ from \in [1..Len(from) -> ToSet(from)]
    BY <1>1, SeqFacts
  <2>2. /\ from' \in [1..Len(from) -> S]
        /\ \A k \in 1..Len(from) : from'[k] = IF k = r THEN [pay |-> pay, job |-> 0] ELSE from[k]
    BY <1>1, <2>1
  <2> HIDE DEF S
  <2>3. QED  BY <2>1, <2>2, SeqOfFunction
<1>3. \A k \in Runs : from'[k].job = from[k].job /\ (from[k].job # 0 => from'[k] = from[k])
  BY <1>1, <1>2, Indices DEF Indexed, Tables
<1>4. Tables'
  BY <1>1, <1>2, <1>3 DEF Tables, tables, Runs, IsSeq
<1>5. Grows
  BY <1>3, Indices DEF Indexed, Grows, tables, Runs
<1>6. QED  BY <1>1, <1>3, <1>4, <1>5

(* A row of a run is written anew.                                         *)
LEMMA RowTables ==
    ASSUME Tables, NEW r \in Runs, NEW row, runs' = [runs EXCEPT ![r] = row],
           DOMAIN row = Columns, row.suite = runs[r].suite, row.commit = runs[r].commit,
           row.number = runs[r].number, row.status \in Statuses,
           runs[r].summary # NoSummary => row.summary # NoSummary,
           UNCHANGED <<suites, groups, cases, from>>, jobs' \subseteq jobs, hurt' = hurt
    PROVE  /\ Tables' /\ Grows /\ Runs' = Runs
           /\ \A k \in Runs : runs'[k] = IF k = r THEN row ELSE runs[k]
<1>1. IsSeq(runs) /\ r \in 1..Len(runs) /\ Runs = 1..Len(runs) /\ Len(runs) \in Nat
  BY Indices DEF Indexed, Tables
<1>2. /\ IsSeq(runs') /\ Len(runs') = Len(runs)
      /\ \A k \in 1..Len(runs) : runs'[k] = IF k = r THEN row ELSE runs[k]
  <2> DEFINE S == ToSet(runs) \cup {row}
  <2>1. Len(runs) \in Nat /\ runs \in [1..Len(runs) -> ToSet(runs)]
    BY <1>1, SeqFacts
  <2>2. /\ runs' \in [1..Len(runs) -> S]
        /\ \A k \in 1..Len(runs) : runs'[k] = IF k = r THEN row ELSE runs[k]
    BY <1>1, <2>1
  <2> HIDE DEF S
  <2>3. QED  BY <2>1, <2>2, SeqOfFunction
<1>3. Runs' = Runs
  BY <1>1, <1>2, SeqFacts DEF Runs
<1>4. \A k \in Runs : /\ DOMAIN runs'[k] = Columns
                      /\ runs'[k].suite = runs[k].suite /\ runs'[k].commit = runs[k].commit
                      /\ runs'[k].number = runs[k].number /\ runs'[k].status \in Statuses
                      /\ runs[k].summary # NoSummary => runs'[k].summary # NoSummary
  BY <1>1, <1>2 DEF Tables
<1>5. Tables'
  BY <1>2, <1>3, <1>4 DEF Tables, IsSeq
<1>6. Grows
  BY <1>1, <1>2, <1>3, <1>4 DEF Grows, Runs
<1>7. QED  BY <1>1, <1>2, <1>3, <1>5, <1>6

LEMMA GroupsTables ==
    ASSUME Tables, NEW r \in Runs, NEW rows,
           \/ groups' = [groups EXCEPT ![r] = rows] /\ UNCHANGED cases
           \/ cases' = [cases EXCEPT ![r] = rows] /\ UNCHANGED groups,
           UNCHANGED <<suites, runs, from, jobs, hurt>>
    PROVE  Tables' /\ Grows
<1>1. /\ IsSeq(groups) /\ r \in 1..Len(groups) /\ IsSeq(cases) /\ r \in 1..Len(cases)
  BY Indices DEF Indexed, Tables
<1>2. IsSeq(groups') /\ Len(groups') = Len(groups) /\ IsSeq(cases') /\ Len(cases') = Len(cases)
  <2>1. ASSUME NEW s, IsSeq(s), NEW t, t = [s EXCEPT ![r] = rows]
        PROVE  IsSeq(t) /\ Len(t) = Len(s)
    <3>1. Len(s) \in Nat /\ s \in [1..Len(s) -> ToSet(s)]
      BY <2>1, SeqFacts
    <3>2. t \in [1..Len(s) -> ToSet(s) \cup {rows}]
      BY <2>1, <3>1
    <3>3. QED  BY <3>1, <3>2, SeqOfFunction
  <2>2. CASE groups' = [groups EXCEPT ![r] = rows] /\ cases' = cases
    <3>1. IsSeq(groups') /\ Len(groups') = Len(groups)
      BY <1>1, <2>1, <2>2
    <3>2. QED  BY <1>1, <2>2, <3>1
  <2>3. CASE cases' = [cases EXCEPT ![r] = rows] /\ groups' = groups
    <3>1. IsSeq(cases') /\ Len(cases') = Len(cases)
      BY <1>1, <2>1, <2>3
    <3>2. QED  BY <1>1, <2>3, <3>1
  <2>4. QED  BY <2>2, <2>3
<1>3. Tables'
  BY <1>2 DEF Tables, Runs, IsSeq
<1>4. Grows
  BY Indices DEF Indexed, Grows, Runs
<1>5. QED  BY <1>3, <1>4

(* A row is inserted.                                                      *)
LEMMA CreateTables ==
    ASSUME Tables, NEW row, NEW origin, Len(runs) + 1 <= MaxRuns,
           runs' = Append(runs, row), groups' = Append(groups, <<>>), cases' = Append(cases, <<>>),
           from' = Append(from, origin),
           DOMAIN row = Columns, row.suite \in DOMAIN suites, row.commit \in Commits,
           row.number \in 1..(Len(runs) + 1), row.status \in Statuses,
           UNCHANGED <<suites, jobs, hurt>>
    PROVE  /\ Tables' /\ Grows
           /\ Len(runs') = Len(runs) + 1 /\ Len(runs) + 1 \in Runs'
           /\ \A k \in Runs' : runs'[k] = IF k \in Runs THEN runs[k] ELSE row
           /\ \A k \in Runs' : from'[k] = IF k \in Runs THEN from[k] ELSE origin
           /\ \A k \in Runs' : groups'[k] = IF k \in Runs THEN groups[k] ELSE <<>>
           /\ \A k \in Runs' : cases'[k] = IF k \in Runs THEN cases[k] ELSE <<>>
           /\ Runs' = Runs \cup {Len(runs) + 1} /\ Len(runs) + 1 \notin Runs
<1>1. /\ IsSeq(runs) /\ IsSeq(groups) /\ IsSeq(cases) /\ IsSeq(from)
      /\ Runs = 1..Len(runs) /\ Len(runs) \in Nat
      /\ Len(groups) = Len(runs) /\ Len(cases) = Len(runs) /\ Len(from) = Len(runs)
  BY Indices DEF Indexed, Tables
<1>2. /\ IsSeq(runs') /\ IsSeq(groups') /\ IsSeq(cases') /\ IsSeq(from')
      /\ Len(runs') = Len(runs) + 1 /\ Len(groups') = Len(runs) + 1
      /\ Len(cases') = Len(runs) + 1 /\ Len(from') = Len(runs) + 1
  BY <1>1, SeqAppend
<1>3. /\ \A k \in 1..Len(runs) : /\ runs'[k] = runs[k] /\ from'[k] = from[k]
                                  /\ groups'[k] = groups[k] /\ cases'[k] = cases[k]
      /\ runs'[Len(runs) + 1] = row /\ from'[Len(runs) + 1] = origin
      /\ groups'[Len(runs) + 1] = <<>> /\ cases'[Len(runs) + 1] = <<>>
  BY <1>1, SeqAppend
<1>4. Runs' = 1..(Len(runs) + 1)
  BY <1>2, SeqFacts DEF Runs
<1>5. /\ \A k \in Runs' : runs'[k] = IF k \in Runs THEN runs[k] ELSE row
      /\ \A k \in Runs' : from'[k] = IF k \in Runs THEN from[k] ELSE origin
      /\ \A k \in Runs' : groups'[k] = IF k \in Runs THEN groups[k] ELSE <<>>
      /\ \A k \in Runs' : cases'[k] = IF k \in Runs THEN cases[k] ELSE <<>>
      /\ Runs' = Runs \cup {Len(runs) + 1} /\ Len(runs) + 1 \notin Runs
  BY <1>1, <1>3, <1>4
<1>6. \A k \in Runs' : /\ DOMAIN runs'[k] = Columns /\ runs'[k].suite \in DOMAIN suites
                       /\ runs'[k].commit \in Commits /\ runs'[k].number \in 1..k
                       /\ runs'[k].status \in Statuses
  <2>1. \A k \in Runs : /\ DOMAIN runs[k] = Columns /\ runs[k].suite \in DOMAIN suites
                        /\ runs[k].commit \in Commits /\ runs[k].number \in 1..k
                        /\ runs[k].status \in Statuses
    BY DEF Tables
  <2>2. QED  BY <1>1, <1>4, <1>5, <2>1
<1>7. \A k \in jobs : from'[k].job = 0
  BY <1>1, <1>3 DEF Tables
<1>8. jobs \subseteq Runs' /\ hurt \subseteq Runs'
  BY <1>5 DEF Tables
<1>9. suites \in Seq(Names)
  BY DEF Tables
<1>10. Tables'
  BY <1>1, <1>2, <1>6, <1>7, <1>8, <1>9 DEF Tables
<1>11. Grows
  BY <1>1, <1>2, <1>3, <1>4 DEF Grows, Runs
<1>12. QED  BY <1>2, <1>4, <1>5, <1>10, <1>11

-----------------------------------------------------------------------------
(* How a request goes on: to something it may be in the state it leaves.   *)
Moves(p) == \E r \in Request : req' = [req EXCEPT ![p] = r] /\ Route(r) /\ Sound(r)

LEMMA TypedByMove ==
    ASSUME Typed, Tables', Counted', Grows, NEW p \in Procs, Moves(p)
    PROVE  Typed'
<1>1. PICK r \in Request : req' = [req EXCEPT ![p] = r] /\ Route(r) /\ Sound(r)
  BY DEF Moves
<1>2. Sound(r)'
  BY <1>1, SoundStays DEF Typed
<1>3. QED  BY <1>1, <1>2, TypedByRequest

LEMMA FinishMoves == ASSUME NEW p \in Procs, Finish(p) PROVE Moves(p)
  BY IdleFacts, IdleIsSound DEF Finish, Moves

LEMMA RequestOf ==
    ASSUME Typed, NEW p \in Procs
    PROVE  \E r \in Request : r = req[p] /\ Route(r) /\ Sound(r)
                              /\ \A new : [req EXCEPT ![p] = new][p] = new
  BY DEF Typed

(* To another place with the same things in hand.                          *)
LEMMA GotoFacts ==
    ASSUME NEW r \in Request, NEW at,
           at \in {"find", "number", "create", "push", "suite", "conclude"} \cup Taking
    PROVE  LET s == [r EXCEPT !.at = at] IN
           /\ s \in Request /\ s.at = at /\ s.op = r.op /\ s.suite = r.suite /\ s.rest = r.rest
           /\ s.commit = r.commit /\ s.number = r.number /\ s.run = r.run /\ s.pay = r.pay
           /\ s.job = r.job /\ s.known = r.known /\ s.made = r.made /\ s.verdict = r.verdict
           /\ s.open = r.open /\ s.saw = r.saw
  BY DEF Request, Taking

LEMMA GotoIsMove ==
    ASSUME Typed, NEW p \in Procs, NEW at, Goto(p, at),
           \/ req[p].op = "completion" /\ req[p].run # 0 /\ at = "conclude"
           \/ req[p].at \in Taking /\ at \in {"cases", "finish"}
    PROVE  Moves(p)
<1>1. PICK r \in Request : r = req[p] /\ Route(r) /\ Sound(r)
  BY RequestOf
<1>2. PICK s : s = [r EXCEPT !.at = at]
  OBVIOUS
<1>3. /\ s \in Request /\ s.at = at /\ s.op = r.op /\ s.suite = r.suite /\ s.rest = r.rest
      /\ s.commit = r.commit /\ s.number = r.number /\ s.run = r.run /\ s.pay = r.pay
      /\ s.job = r.job /\ s.known = r.known /\ s.made = r.made /\ s.verdict = r.verdict
      /\ s.open = r.open /\ s.saw = r.saw
  BY <1>1, <1>2, GotoFacts DEF Taking
<1>4. req' = [req EXCEPT ![p] = s]
  BY <1>1, <1>2 DEF Goto, Typed
<1>5. Route(s)
  BY <1>1, <1>3 DEF Route, Taking
<1>6. Sound(s)
  BY <1>1, <1>3 DEF Sound, Taking, Looked
<1>7. QED  BY <1>3, <1>4, <1>5, <1>6 DEF Moves

LEMMA NextSuiteMoves ==
    ASSUME Typed, NEW p \in Procs, NextSuite(p), req[p].op \in {"trigger", "runAll", "rerun"}
    PROVE  Moves(p)
<1>1. PICK r \in Request : r = req[p] /\ Route(r) /\ Sound(r)
  BY RequestOf
<1>2. CASE r.rest = <<>>
  BY <1>1, <1>2, FinishMoves DEF NextSuite
<1>3. CASE r.rest # <<>>
  <2>1. r.rest \in Seq(Nat) /\ r.op = "runAll" /\ r.commit \in Commits
    BY <1>1, <1>3 DEF Request, Route
  <2>2. /\ Head(r.rest) \in Nat /\ Tail(r.rest) \in Seq(Nat) /\ Len(r.rest) \in Nat \ {0}
        /\ Head(r.rest) = r.rest[1]
        /\ Len(Tail(r.rest)) = Len(r.rest) - 1
        /\ \A i \in 1..Len(Tail(r.rest)) : Tail(r.rest)[i] = r.rest[i + 1]
    BY <1>3, <2>1, HeadTailProperties, EmptySeq, LenProperties
  <2>3. PICK h, t : h = Head(r.rest) /\ t = Tail(r.rest)
    OBVIOUS
  <2>4. PICK s : s = [r EXCEPT !.at = "find", !.suite = h, !.rest = t, !.number = 0, !.run = 0,
                               !.open = {}, !.saw = {}]
    OBVIOUS
  <2>5. h \in Nat /\ t \in Seq(Nat)
    BY <2>2, <2>3
  <2>6. /\ s \in Request /\ s.at = "find" /\ s.op = r.op /\ s.suite = h /\ s.rest = t
        /\ s.commit = r.commit /\ s.run = 0 /\ s.job = r.job /\ s.verdict = r.verdict
        /\ s.pay = r.pay /\ s.known = r.known /\ s.open = {}
    BY <2>4, <2>5 DEF Request
  <2>7. req' = [req EXCEPT ![p] = s]
    BY <1>1, <1>3, <2>3, <2>4 DEF NextSuite, Typed
  <2>8. Route(s)
    BY <1>1, <2>1, <2>6 DEF Route, Taking
  <2>9. h \in DOMAIN suites /\ \A i \in 1..Len(t) : t[i] \in DOMAIN suites
    BY <1>1, <2>2, <2>3 DEF Sound
  <2>10. h # 0
    BY <2>9, Indices DEF Indexed, Typed
  <2>11. Sound(s)
    BY <2>1, <2>6, <2>9, <2>10 DEF Sound, Taking
  <2>12. QED  BY <2>6, <2>7, <2>8, <2>11 DEF Moves
<1>4. QED  BY <1>2, <1>3

LEMMA FailMoves ==
    ASSUME Typed, NEW p \in Procs, Fail(p)
    PROVE  Moves(p) /\ jobs' \subseteq jobs
<1>1. PICK r \in Request : r = req[p] /\ Route(r) /\ Sound(r)
  BY RequestOf
<1>2. jobs' \subseteq jobs
  BY DEF Fail
<1>3. CASE req[p].op = "runAll" /\ NextSuite(p)
  BY <1>2, <1>3, NextSuiteMoves
<1>4. CASE req[p].op = "completion" /\ Goto(p, "conclude")
  BY <1>1, <1>2, <1>4, GotoIsMove DEF Sound
<1>5. CASE Finish(p)
  BY <1>2, <1>5, FinishMoves
<1>6. QED  BY <1>2, <1>3, <1>4, <1>5 DEF Fail

-----------------------------------------------------------------------------
(* The steps.                                                              *)
LEMMA BeginTyped ==
    ASSUME Typed, NEW p \in Procs, NEW r \in Request, Begin(p, r), Route(r), Sound(r),
           Tables', Grows
    PROVE  Typed'
<1>1. Counted'
  BY RecordAssumption DEF Begin, Typed, Counted
<1>2. Moves(p)
  BY DEF Begin, Moves
<1>3. QED  BY <1>1, <1>2, TypedByMove

LEMMA TypedStartTrigger ==
    ASSUME Typed, NEW p \in Procs, StartTrigger(p)
    PROVE  Typed'
<1>1. PICK s \in DOMAIN suites, c \in Commits :
        Begin(p, [Idle EXCEPT !.op = "trigger", !.at = "find", !.suite = s, !.commit = c])
  BY DEF StartTrigger
<1>2. PICK r : r = [Idle EXCEPT !.op = "trigger", !.at = "find", !.suite = s, !.commit = c]
  OBVIOUS
<1>3. s \in Nat \ {0}
  BY Indices DEF Indexed, Typed
<1>4. /\ r \in Request /\ r.op = "trigger" /\ r.at = "find" /\ r.suite = s /\ r.commit = c
      /\ r.rest = <<>> /\ r.run = 0 /\ r.job = 0 /\ r.open = {} /\ r.pay = NoReport
  BY <1>2, <1>3, IdleFacts DEF Request, Idle, NoReport
<1>5. Route(r)
  BY <1>4 DEF Route, Taking
<1>6. Sound(r)
  <2>1. Len(r.rest) = 0
    BY <1>4
  <2>2. QED  BY <1>3, <1>4, <2>1 DEF Sound, Taking
<1>7. Tables' /\ Grows
  BY <1>1, SameTables DEF StartTrigger, Begin, Typed, Tables, tables
<1>8. QED  BY <1>1, <1>2, <1>4, <1>5, <1>6, <1>7, BeginTyped

LEMMA TypedStartRunAll ==
    ASSUME Typed, NEW p \in Procs, StartRunAll(p)
    PROVE  Typed'
<1> DEFINE rest == [i \in 1..(Len(suites) - 1) |-> i + 1]
<1>1. PICK c \in Commits :
        Begin(p, [Idle EXCEPT !.op = "runAll", !.at = "find", !.suite = 1, !.commit = c,
                              !.rest = rest])
  BY DEF StartRunAll
<1>2. Len(suites) \in Nat \ {0} /\ DOMAIN suites = 1..Len(suites)
  <2>1. suites \in Seq(Names) /\ suites # <<>>
    BY DEF StartRunAll, Typed, Tables
  <2>2. QED  BY <2>1, EmptySeq, LenProperties
<1>3. PICK t : t = rest
  OBVIOUS
<1>4. /\ t \in Seq(Nat) /\ Len(t) = Len(suites) - 1
      /\ \A i \in 1..Len(t) : t[i] \in DOMAIN suites
  <2> Len(suites) - 1 \in Nat
    BY <1>2
  <2>1. PICK n \in Nat : n = Len(suites) - 1
    OBVIOUS
  <2>2. t = [i \in 1..n |-> i + 1]
    BY <1>3, <2>1
  <2>3. t \in Seq(Nat) /\ Len(t) = n /\ \A i \in 1..n : t[i] = i + 1
    BY <2>2
  <2>4. QED  BY <1>2, <2>1, <2>3
<1> HIDE DEF rest
<1>5. PICK r : r = [Idle EXCEPT !.op = "runAll", !.at = "find", !.suite = 1, !.commit = c,
                                !.rest = t]
  OBVIOUS
<1>6. /\ r \in Request /\ r.op = "runAll" /\ r.at = "find" /\ r.suite = 1 /\ r.commit = c
      /\ r.rest = t /\ r.run = 0 /\ r.job = 0 /\ r.open = {} /\ r.pay = NoReport
  BY <1>4, <1>5, IdleFacts DEF Request, Idle, NoReport
<1>7. Route(r)
  BY <1>6 DEF Route, Taking
<1>8. Sound(r)
  BY <1>2, <1>4, <1>6 DEF Sound, Taking
<1>9. Tables' /\ Grows
  BY <1>1, SameTables DEF StartRunAll, Begin, Typed, Tables, tables
<1>10. QED  BY <1>1, <1>3, <1>5, <1>6, <1>7, <1>8, <1>9, BeginTyped

LEMMA TypedStartRerun ==
    ASSUME Typed, NEW p \in Procs, StartRerun(p)
    PROVE  Typed'
<1>1. PICK k \in Runs :
        Begin(p, [Idle EXCEPT !.op = "rerun", !.at = "number", !.suite = runs[k].suite,
                              !.commit = runs[k].commit])
  BY DEF StartRerun
<1>2. PICK r : r = [Idle EXCEPT !.op = "rerun", !.at = "number", !.suite = runs[k].suite,
                                !.commit = runs[k].commit]
  OBVIOUS
<1>3. runs[k].suite \in DOMAIN suites /\ runs[k].suite \in Nat \ {0} /\ runs[k].commit \in Commits
  BY Indices DEF Indexed, Typed, Tables
<1>4. /\ r \in Request /\ r.op = "rerun" /\ r.at = "number" /\ r.suite = runs[k].suite
      /\ r.commit = runs[k].commit /\ r.rest = <<>> /\ r.run = 0 /\ r.job = 0 /\ r.open = {}
      /\ r.pay = NoReport
  BY <1>2, <1>3, IdleFacts DEF Request, Idle, NoReport
<1>5. Route(r)
  BY <1>3, <1>4 DEF Route, Taking
<1>6. Sound(r)
  <2>1. Len(r.rest) = 0
    BY <1>4
  <2>2. QED  BY <1>3, <1>4, <2>1 DEF Sound, Taking
<1>7. Tables' /\ Grows
  BY <1>1, SameTables DEF StartRerun, Begin, Typed, Tables, tables
<1>8. QED  BY <1>1, <1>2, <1>4, <1>5, <1>6, <1>7, BeginTyped

(* The suites of a report are looked up by name: a suite of that name, or  *)
(* none.                                                                   *)
SuiteNamed == [n \in Names |-> Max({s \in DOMAIN suites : suites[s] = n} \cup {0})]

LEMMA SuiteNamedFacts ==
    ASSUME Tables
    PROVE  /\ SuiteNamed \in [Names -> Nat]
           /\ \A n \in Names : SuiteNamed[n] # 0 =>
                 SuiteNamed[n] \in DOMAIN suites /\ suites[SuiteNamed[n]] = n
<1>1. Len(suites) \in Nat /\ DOMAIN suites = 1..Len(suites)
  BY Indices DEF Indexed
<1>2. ASSUME NEW n \in Names
      PROVE  /\ SuiteNamed[n] \in Nat
             /\ SuiteNamed[n] # 0 => SuiteNamed[n] \in DOMAIN suites /\ suites[SuiteNamed[n]] = n
  <2> DEFINE T == {s \in DOMAIN suites : suites[s] = n}
  <2>1. T \subseteq 0..Len(suites)
    BY <1>1
  <2>2. SuiteNamed[n] = Max(T \cup {0})
    BY DEF SuiteNamed
  <2> HIDE DEF T
  <2>3. Max(T \cup {0}) \in T \cup {0} /\ Max(T \cup {0}) \in 0..Len(suites)
    BY <1>1, <2>1, MaxFacts
  <2>4. QED  BY <2>2, <2>3 DEF T
<1>3. SuiteNamed \in [Names -> Nat]
  BY <1>2 DEF SuiteNamed
<1>4. QED  BY <1>2, <1>3

LEMMA ReportIsLong ==
    ASSUME NEW pay \in Payloads
    PROVE  Len(pay) \in Nat /\ DOMAIN pay = 1..Len(pay) /\ (pay # NoReport => 1 \in 1..Len(pay))
<1> DEFINE S == [id : STRING, suite : STRING, tests : Seq(TestData)]
<1>1. pay \in Seq(S)
  BY RecordAssumption
<1> HIDE DEF S
<1>2. Len(pay) \in Nat /\ DOMAIN pay = 1..Len(pay)
  BY <1>1, LenProperties
<1>3. pay # <<>> => Len(pay) \in Nat \ {0}
  BY <1>1, EmptySeq
<1>4. QED  BY <1>2, <1>3 DEF NoReport

(* The request with which a report begins.                                 *)
LEMMA StartReportFacts ==
    ASSUME Typed, NEW p \in Procs, StartReport(p)
    PROVE  \E r \in Request :
              /\ Begin(p, r) /\ Route(r) /\ Sound(r) /\ from' = from
              /\ r.op = "report" /\ r.at = "suite" /\ r.job = 1 /\ r.made = <<>>
              /\ r.known = SuiteNamed
<1>1. PICK pay \in Payloads, c \in Commits :
        /\ pay # NoReport
        /\ Begin(p, [Idle EXCEPT !.op = "report", !.at = "suite", !.commit = c, !.pay = pay,
                                 !.job = 1, !.known = SuiteNamed])
  BY DEF StartReport, SuiteNamed
<1>2. PICK k \in [Names -> Nat] : k = SuiteNamed
  BY SuiteNamedFacts DEF Typed
<1>3. PICK r : r = [Idle EXCEPT !.op = "report", !.at = "suite", !.commit = c, !.pay = pay,
                                !.job = 1, !.known = k]
  OBVIOUS
<1>4. /\ r \in Request /\ r.op = "report" /\ r.at = "suite" /\ r.suite = 0
      /\ r.commit = c /\ r.rest = <<>> /\ r.run = 0 /\ r.job = 1 /\ r.open = {}
      /\ r.known = k /\ r.pay = pay /\ r.made = <<>>
  BY <1>3, IdleFacts DEF Request, Idle, NoReport
<1>5. Route(r)
  BY <1>1, <1>4, ReportIsLong DEF Route, Taking
<1>6. Sound(r)
  <2>1. Len(r.rest) = 0
    BY <1>4
  <2>2. Looked(r)
    BY <1>2, <1>4, SuiteNamedFacts DEF Typed, Looked
  <2>3. QED  BY <1>4, <2>1, <2>2 DEF Sound, Taking
<1>7. Begin(p, r) /\ from' = from
  BY <1>1, <1>2, <1>3 DEF StartReport
<1>8. QED  BY <1>2, <1>4, <1>5, <1>6, <1>7

LEMMA TypedStartReport ==
    ASSUME Typed, NEW p \in Procs, StartReport(p)
    PROVE  Typed'
<1>1. PICK r \in Request : Begin(p, r) /\ Route(r) /\ Sound(r) /\ from' = from
  BY StartReportFacts
<1>2. Tables' /\ Grows
  BY <1>1, SameTables DEF Begin, Typed, Tables, tables
<1>3. QED  BY <1>1, <1>2, BeginTyped

(* A callback or a completion is about a run that has a workflow.          *)
LEMMA StartVerdictFacts ==
    ASSUME Typed, NEW p \in Procs, StartCallback(p) \/ StartCompletion(p)
    PROVE  \E r \in Request :
              /\ Begin(p, r) /\ Route(r) /\ Sound(r) /\ HasWorkflow(r.run)
              /\ r.op \in {"callback", "completion"}
              /\ from' = from \/ Reported(r.run, r.pay)
<1>1. PICK k \in Runs, pay \in Payloads \cup {NoReport}, verdict \in {"passed", "failed"},
           op \in {"callback", "completion"}, at \in {"conclude", "groups"} :
        /\ HasWorkflow(k)
        /\ Begin(p, [Idle EXCEPT !.op = op, !.run = k, !.pay = pay, !.verdict = verdict, !.at = at])
        /\ from' = from \/ Reported(k, pay)
  <2>1. \A k \in jobs : k \in Runs /\ HasWorkflow(k)
    BY DEF Typed, Tables, HasWorkflow
  <2>2. CASE StartCallback(p)
    <3>1. PICK k \in Runs, pay \in Payloads \cup {NoReport},
               verdict \in {"passed", "failed"} :
            /\ Begin(p, [Idle EXCEPT !.op = "callback", !.run = k, !.pay = pay,
                                     !.verdict = verdict,
                                     !.at = IF pay = NoReport THEN "conclude" ELSE "groups"])
            /\ from' = from \/ Reported(k, pay)
            /\ HasWorkflow(k)
      BY <2>2 DEF StartCallback, HasWorkflow
    <3>2. CASE pay = NoReport
      BY <3>1, <3>2
    <3>3. CASE pay # NoReport
      BY <3>1, <3>3
    <3>4. QED  BY <3>2, <3>3
  <2>3. CASE StartCompletion(p)
    <3>1. PICK k \in jobs, pay \in Payloads \cup {NoReport},
               verdict \in {"passed", "failed"} :
            /\ Begin(p, [Idle EXCEPT !.op = "completion", !.run = k, !.pay = pay,
                                     !.verdict = verdict,
                                     !.at = IF pay = NoReport THEN "conclude" ELSE "groups"])
            /\ from' = from \/ Reported(k, pay)
      BY <2>3 DEF StartCompletion
    <3>2. CASE pay = NoReport
      BY <2>1, <3>1, <3>2
    <3>3. CASE pay # NoReport
      BY <2>1, <3>1, <3>3
    <3>4. QED  BY <3>2, <3>3
  <2>4. QED  BY <2>2, <2>3
<1>2. PICK r : r = [Idle EXCEPT !.op = op, !.run = k, !.pay = pay, !.verdict = verdict, !.at = at]
  OBVIOUS
<1>3. k \in Nat \ {0} /\ from[k].job = 0
  BY <1>1, Indices DEF Indexed, Typed, Tables, HasWorkflow
<1>4. /\ r \in Request /\ r.op = op /\ r.at = at /\ r.suite = 0 /\ r.verdict = verdict
      /\ r.rest = <<>> /\ r.run = k /\ r.job = 0 /\ r.open = {} /\ r.pay = pay
  <2> DEFINE Ats == {"idle", "find", "number", "create", "push", "suite", "conclude"} \cup Taking
             Operations == {"none", "trigger", "runAll", "rerun", "report", "callback", "completion"}
             Pays == Payloads \cup {NoReport}
             Verdicts == {"", "passed", "failed"}
  <2>1. at \in Ats /\ op \in Operations /\ verdict \in Verdicts /\ pay \in Pays /\ k \in Nat
    BY <1>3 DEF Taking
  <2>2. r = [op |-> op, at |-> at, suite |-> 0, rest |-> <<>>, commit |-> "", number |-> 0,
             run |-> k, pay |-> pay, job |-> 0, known |-> <<>>, made |-> <<>>,
             verdict |-> verdict, open |-> {}, saw |-> {}]
    BY <1>2 DEF Idle
  <2>3. Request = [op : Operations, at : Ats, suite : Nat, rest : Seq(Nat),
                   commit : Commits \cup {""}, number : Nat, run : Nat, pay : Pays, job : Nat,
                   known : [Names -> Nat] \cup {<<>>}, made : Seq(Nat), verdict : Verdicts,
                   open : SUBSET Nat, saw : SUBSET Nat]
    BY DEF Request
  <2> HIDE DEF Ats, Operations, Pays, Verdicts
  <2>5. r \in Request
    BY <1>2, <2>1, <2>3, IdleFacts
  <2>6. /\ r.op = op /\ r.at = at /\ r.suite = 0 /\ r.verdict = verdict
        /\ r.rest = <<>> /\ r.run = k /\ r.job = 0 /\ r.open = {} /\ r.pay = pay
    BY <2>2
  <2>7. QED  BY <2>5, <2>6
<1>5. Route(r)
  BY <1>4 DEF Route, Taking
<1>6. Sound(r)
  <2>1. Len(r.rest) = 0
    BY <1>4
  <2>2. QED  BY <1>1, <1>3, <1>4, <2>1 DEF Sound, Taking
<1>7. QED  BY <1>1, <1>2, <1>4, <1>5, <1>6

LEMMA TypedStartVerdict ==
    ASSUME Typed, NEW p \in Procs, StartCallback(p) \/ StartCompletion(p)
    PROVE  Typed'
<1>1. PICK r \in Request : /\ Begin(p, r) /\ Route(r) /\ Sound(r) /\ HasWorkflow(r.run)
                           /\ from' = from \/ Reported(r.run, r.pay)
  BY StartVerdictFacts
<1>2. UNCHANGED tables /\ jobs' = jobs /\ hurt' = hurt
  BY <1>1 DEF Begin
<1>3. CASE from' = from
  <2>1. Tables' /\ Grows
    BY <1>2, <1>3, SameTables DEF Typed, Tables
  <2>2. QED  BY <1>1, <2>1, BeginTyped
<1>4. CASE Reported(r.run, r.pay)
  <2>1. Tables' /\ Grows
    BY <1>1, <1>2, <1>4, ReportedTables DEF Typed
  <2>2. QED  BY <1>1, <2>1, BeginTyped
<1>5. QED  BY <1>1, <1>3, <1>4

-----------------------------------------------------------------------------
(* A run on its way to a row, a number and a job.                          *)
Pending == {k \in 1..MaxRuns : k \in Runs => ~Terminal(k)}

LEMMA GoOnFacts ==
    ASSUME Typed, NEW p \in Procs, GoOn(p)
    PROVE  \E r \in Request, s \in Request :
              /\ r = req[p] /\ Route(r) /\ Sound(r)
              /\ req' = [req EXCEPT ![p] = s] /\ s.at = "number" /\ s.open = Pending
              /\ s.op = r.op /\ s.suite = r.suite /\ s.rest = r.rest /\ s.commit = r.commit
              /\ s.run = r.run /\ s.pay = r.pay /\ s.job = r.job
<1>1. PICK r \in Request : r = req[p] /\ Route(r) /\ Sound(r)
  BY RequestOf
<1>2. PICK open : open = Pending
  OBVIOUS
<1>3. open \in SUBSET Nat
  BY <1>2, RecordAssumption DEF Pending
<1>4. PICK s : s = [r EXCEPT !.at = "number", !.open = open]
  OBVIOUS
<1>5. /\ s \in Request /\ s.at = "number" /\ s.open = open
      /\ s.op = r.op /\ s.suite = r.suite /\ s.rest = r.rest /\ s.commit = r.commit
      /\ s.run = r.run /\ s.pay = r.pay /\ s.job = r.job
  BY <1>3, <1>4 DEF Request
<1>6. req' = [req EXCEPT ![p] = s]
  BY <1>1, <1>2, <1>4 DEF GoOn, Typed, Pending
<1>7. QED  BY <1>1, <1>2, <1>5, <1>6

LEMMA TypedFind ==
    ASSUME Typed, NEW p \in Procs, FindStep(p)
    PROVE  Typed'
<1>1. PICK r \in Request : r = req[p] /\ Route(r) /\ Sound(r)
  BY RequestOf
<1>2. r.at = "find" /\ r.op \in {"trigger", "runAll"}
  BY <1>1 DEF FindStep, Route
<1>3. CASE NextSuite(p)
  <2>1. Moves(p)
    BY <1>1, <1>2, <1>3, NextSuiteMoves
  <2>2. Tables' /\ Grows /\ Counted'
    BY SameTables DEF FindStep, Typed, Tables, Counted
  <2>3. QED  BY <2>1, <2>2, TypedByMove
<1>4. CASE GoOn(p)
  <2>1. PICK s \in Request :
          /\ req' = [req EXCEPT ![p] = s] /\ s.at = "number" /\ s.open = Pending
          /\ s.op = r.op /\ s.suite = r.suite /\ s.rest = r.rest /\ s.commit = r.commit
          /\ s.run = r.run /\ s.pay = r.pay /\ s.job = r.job
    BY <1>1, <1>4, GoOnFacts
  <2>2. TerminalOf(r.suite, r.commit) = {} \/ NextSuite(p)
    BY <1>1 DEF FindStep
  <2>3. CASE NextSuite(p)
    BY <1>3, <2>3
  <2>4. CASE TerminalOf(r.suite, r.commit) = {}
    <3>1. Route(s)
      BY <1>1, <1>2, <2>1 DEF Route, Taking
    <3>2. Unseen(s)
      BY <2>1, <2>4 DEF Unseen, Pending, TerminalOf
    <3>3. Sound(s)
      BY <1>1, <1>2, <2>1, <3>2 DEF Sound, Taking
    <3>4. Tables' /\ Grows /\ Counted'
      BY SameTables DEF FindStep, Typed, Tables, Counted
    <3>5. QED  BY <2>1, <3>1, <3>3, <3>4, TypedByMove DEF Moves
  <2>5. QED  BY <2>2, <2>3, <2>4
<1>5. QED  BY <1>3, <1>4 DEF FindStep

(* The number it gets exceeds that of every row of its suite, all of which *)
(* it has seen.                                                            *)
LEMMA NumberFacts ==
    ASSUME Typed, NEW p \in Procs, NumberStep(p)
    PROVE  \E r \in Request, s \in Request :
              /\ r = req[p] /\ Route(r) /\ Sound(r) /\ r.at = "number"
              /\ req' = [req EXCEPT ![p] = s] /\ s.at = "create" /\ s.saw = Runs
              /\ s.number \in 1..(Len(runs) + 1)
              /\ \A x \in Runs : runs[x].suite = r.suite => runs[x].number < s.number
              /\ s.op = r.op /\ s.suite = r.suite /\ s.rest = r.rest /\ s.commit = r.commit
              /\ s.run = r.run /\ s.pay = r.pay /\ s.job = r.job /\ s.known = r.known
              /\ s.made = r.made /\ s.verdict = r.verdict /\ s.open = r.open
<1>1. PICK r \in Request : r = req[p] /\ Route(r) /\ Sound(r)
  BY RequestOf
<1> DEFINE T == {runs[k].number : k \in {k \in Runs : runs[k].suite = r.suite}}
<1>2. Len(runs) \in Nat /\ Runs = 1..Len(runs) /\ \A k \in Runs : runs[k].number \in 1..k
  BY Indices DEF Indexed, Typed, Tables
<1>3. T \subseteq 0..Len(runs)
  BY <1>2
<1>4. /\ r.at = "number"
      /\ req' = [req EXCEPT ![p].at = "create", ![p].saw = Runs, ![p].number = 1 + Max(T \cup {0})]
  BY <1>1 DEF NumberStep, Numbered
<1>5. \A x \in Runs : runs[x].suite = r.suite => runs[x].number \in T
  OBVIOUS
<1> HIDE DEF T
<1>6. Max(T \cup {0}) \in 0..Len(runs) /\ \A n \in T : n <= Max(T \cup {0})
  BY <1>2, <1>3, MaxFacts
<1>m. PICK m \in 0..Len(runs) : m = Max(T \cup {0})
  BY <1>6
<1>7. PICK n \in 1..(Len(runs) + 1) : n = 1 + Max(T \cup {0}) /\ n = 1 + m
  BY <1>2, <1>m
<1>8. ASSUME NEW x \in Runs, runs[x].suite = r.suite PROVE runs[x].number < n
  <2>1. runs[x].number \in T
    BY <1>5, <1>8
  <2>2. runs[x].number <= m
    BY <1>6, <1>m, <2>1
  <2>3. runs[x].number \in 1..x /\ x \in Nat
    BY <1>2
  <2>4. QED  BY <1>7, <2>2, <2>3
<1>9. PICK s : s = [r EXCEPT !.at = "create", !.saw = Runs, !.number = n]
  OBVIOUS
<1>10. Runs \in SUBSET Nat /\ n \in Nat
  BY <1>2
<1>11. /\ s \in Request /\ s.at = "create" /\ s.saw = Runs /\ s.number = n
       /\ s.op = r.op /\ s.suite = r.suite /\ s.rest = r.rest /\ s.commit = r.commit
       /\ s.run = r.run /\ s.pay = r.pay /\ s.job = r.job /\ s.known = r.known
       /\ s.made = r.made /\ s.verdict = r.verdict /\ s.open = r.open
  BY <1>9, <1>10 DEF Request
<1>12. req' = [req EXCEPT ![p] = s]
  BY <1>1, <1>4, <1>7, <1>9 DEF Typed
<1>13. QED  BY <1>1, <1>4, <1>8, <1>11, <1>12

LEMMA TypedNumber ==
    ASSUME Typed, NEW p \in Procs, NumberStep(p)
    PROVE  Typed'
<1>1. PICK r \in Request, s \in Request :
        /\ r = req[p] /\ Route(r) /\ Sound(r) /\ r.at = "number"
        /\ req' = [req EXCEPT ![p] = s] /\ s.at = "create" /\ s.saw = Runs
        /\ s.number \in 1..(Len(runs) + 1)
        /\ \A x \in Runs : runs[x].suite = r.suite => runs[x].number < s.number
        /\ s.op = r.op /\ s.suite = r.suite /\ s.rest = r.rest /\ s.commit = r.commit
        /\ s.run = r.run /\ s.pay = r.pay /\ s.job = r.job /\ s.known = r.known
        /\ s.made = r.made /\ s.verdict = r.verdict /\ s.open = r.open
  BY NumberFacts
<1>2. Route(s)
  BY <1>1 DEF Route, Taking
<1>3. Sound(s)
  <2>1. Looked(r) => Looked(s)
    BY <1>1 DEF Looked
  <2>2. Unseen(r) => Unseen(s)
    BY <1>1 DEF Unseen
  <2>3. QED  BY <1>1, <2>1, <2>2 DEF Sound, Route, Taking
<1>4. Tables' /\ Grows /\ Counted'
  BY SameTables DEF NumberStep, Numbered, Typed, Tables, Counted
<1>5. QED  BY <1>1, <1>2, <1>3, <1>4, TypedByMove DEF Moves

(* The new row, and what its request has in hand then.                     *)
NewRow(r) ==
    [suite |-> r.suite, commit |-> r.commit, number |-> r.number,
     status |-> IF r.op = "report" THEN "running" ELSE "queued",
     summary |-> NoSummary, report |-> FALSE]

Created(p, r, s, n) ==
    /\ r = req[p] /\ Route(r) /\ Sound(r) /\ r.at = "create"
    /\ n = Len(runs) + 1 /\ n \in Runs' /\ n \notin Runs /\ Runs' = Runs \cup {n}
    /\ Len(runs') = n
    /\ \A k \in Runs' : runs'[k] = IF k \in Runs THEN runs[k] ELSE NewRow(r)
    /\ \A k \in Runs' : from'[k] = IF k \in Runs THEN from[k]
                                   ELSE [pay |-> r.pay, job |-> r.job]
    /\ \A k \in Runs' : groups'[k] = IF k \in Runs THEN groups[k] ELSE <<>>
    /\ \A k \in Runs' : cases'[k] = IF k \in Runs THEN cases[k] ELSE <<>>
    /\ Tables' /\ Grows /\ Counted'
    /\ req' = [req EXCEPT ![p] = s]
    /\ s.at = IF r.op = "report" THEN "groups" ELSE "push"
    /\ s.run = n /\ s.made = IF r.op = "report" THEN Append(r.made, n) ELSE r.made
    /\ s.op = r.op /\ s.suite = r.suite /\ s.rest = r.rest /\ s.commit = r.commit
    /\ s.pay = r.pay /\ s.job = r.job /\ s.known = r.known
    /\ s.verdict = r.verdict /\ s.open = r.open /\ s.saw = r.saw

LEMMA CreateFacts ==
    ASSUME Typed, NEW p \in Procs, CreateStep(p)
    PROVE  \E r \in Request, s \in Request, n \in Nat : Created(p, r, s, n)
<1>1. PICK r \in Request : r = req[p] /\ Route(r) /\ Sound(r)
  BY RequestOf
<1>2. /\ r.at = "create" /\ Len(runs) + 1 <= MaxRuns
      /\ runs' = Append(runs, NewRow(r)) /\ groups' = Append(groups, <<>>)
      /\ cases' = Append(cases, <<>>) /\ from' = Append(from, [pay |-> r.pay, job |-> r.job])
      /\ UNCHANGED <<suites, jobs, hurt>>
      /\ UNCHANGED <<started, faults>>
  BY <1>1 DEF CreateStep, NewRow
<1>3. PICK row : row = NewRow(r)
  OBVIOUS
<1>4. /\ DOMAIN row = Columns /\ row.suite = r.suite /\ row.commit = r.commit
      /\ row.number = r.number /\ row.status \in Statuses
  BY <1>3 DEF NewRow, Columns, Statuses
<1>5. r.suite \in DOMAIN suites /\ r.commit \in Commits /\ r.number \in 1..(Len(runs) + 1)
  BY <1>1, <1>2 DEF Sound, Route
<1>6. PICK n \in Nat : n = Len(runs) + 1
  BY Indices DEF Indexed, Typed
<1>7. PICK origin : origin = [pay |-> r.pay, job |-> r.job]
  OBVIOUS
<1>8. /\ Tables' /\ Grows /\ Len(runs') = Len(runs) + 1 /\ Len(runs) + 1 \in Runs'
      /\ \A k \in Runs' : runs'[k] = IF k \in Runs THEN runs[k] ELSE row
      /\ \A k \in Runs' : from'[k] = IF k \in Runs THEN from[k] ELSE origin
      /\ \A k \in Runs' : groups'[k] = IF k \in Runs THEN groups[k] ELSE <<>>
      /\ \A k \in Runs' : cases'[k] = IF k \in Runs THEN cases[k] ELSE <<>>
      /\ Runs' = Runs \cup {Len(runs) + 1} /\ Len(runs) + 1 \notin Runs
  <2>1. Tables
    BY DEF Typed
  <2>2. runs' = Append(runs, row) /\ from' = Append(from, origin)
    BY <1>2, <1>3, <1>7
  <2>3. row.suite \in DOMAIN suites /\ row.commit \in Commits /\ row.number \in 1..(Len(runs) + 1)
    BY <1>4, <1>5
  <2>4. QED  BY <1>2, <1>4, <2>1, <2>2, <2>3, CreateTables
<1>9. Counted'
  BY <1>2 DEF Typed, Counted
<1>10. PICK made \in Seq(Nat) : made = IF r.op = "report" THEN Append(r.made, n) ELSE r.made
  <2>1. r.made \in Seq(Nat)
    BY DEF Request
  <2>2. Append(r.made, n) \in Seq(Nat)
    BY <2>1, AppendProperties
  <2>3. QED  BY <2>1, <2>2
<1>11. PICK at \in {"groups", "push"} : at = IF r.op = "report" THEN "groups" ELSE "push"
  OBVIOUS
<1>12. PICK s : s = [r EXCEPT !.at = at, !.run = n, !.made = made]
  OBVIOUS
<1>13. /\ s \in Request /\ s.at = at /\ s.run = n /\ s.made = made
       /\ s.op = r.op /\ s.suite = r.suite /\ s.rest = r.rest /\ s.commit = r.commit
       /\ s.pay = r.pay /\ s.job = r.job /\ s.known = r.known
       /\ s.verdict = r.verdict /\ s.open = r.open /\ s.saw = r.saw
  BY <1>11, <1>12 DEF Request, Taking
<1>14. req' = [req EXCEPT ![p] = s]
  <2>1. CASE r.op = "report"
    BY <1>1, <1>6, <1>10, <1>11, <1>12, <2>1 DEF CreateStep, Typed
  <2>2. CASE r.op # "report"
    BY <1>1, <1>6, <1>10, <1>11, <1>12, <2>2 DEF CreateStep, Typed
  <2>3. QED  BY <2>1, <2>2
<1> HIDE DEF NewRow
<1>15. /\ n = Len(runs) + 1 /\ n \in Runs' /\ n \notin Runs /\ Runs' = Runs \cup {n}
       /\ Len(runs') = n
       /\ \A k \in Runs' : runs'[k] = IF k \in Runs THEN runs[k] ELSE NewRow(r)
       /\ \A k \in Runs' : from'[k] = IF k \in Runs THEN from[k]
                                       ELSE [pay |-> r.pay, job |-> r.job]
       /\ \A k \in Runs' : groups'[k] = IF k \in Runs THEN groups[k] ELSE <<>>
       /\ \A k \in Runs' : cases'[k] = IF k \in Runs THEN cases[k] ELSE <<>>
  BY <1>3, <1>6, <1>7, <1>8
<1>16. /\ s.at = IF r.op = "report" THEN "groups" ELSE "push"
       /\ s.run = n /\ s.made = IF r.op = "report" THEN Append(r.made, n) ELSE r.made
  BY <1>10, <1>11, <1>13
<1>17. Created(p, r, s, n)
  <2>1. /\ r = req[p] /\ Route(r) /\ Sound(r) /\ r.at = "create"
        /\ Tables' /\ Grows /\ Counted'
    BY <1>1, <1>2, <1>8, <1>9
  <2>2. /\ s.op = r.op /\ s.suite = r.suite /\ s.rest = r.rest /\ s.commit = r.commit
        /\ s.pay = r.pay /\ s.job = r.job /\ s.known = r.known
        /\ s.verdict = r.verdict /\ s.open = r.open /\ s.saw = r.saw
    BY <1>13
  <2>3. QED  BY <1>14, <1>15, <1>16, <2>1, <2>2 DEF Created
<1>18. QED  BY <1>13, <1>17

LEMMA TypedCreate ==
    ASSUME Typed, NEW p \in Procs, CreateStep(p)
    PROVE  Typed'
<1>0. PICK r \in Request, s \in Request, n \in Nat : Created(p, r, s, n)
  BY CreateFacts
<1>1. /\ Route(r) /\ Sound(r) /\ r.at = "create"
      /\ n = Len(runs) + 1 /\ n \in Runs' /\ n \notin Runs
      /\ \A k \in Runs' : from'[k] = IF k \in Runs THEN from[k]
                                     ELSE [pay |-> r.pay, job |-> r.job]
      /\ Tables' /\ Grows /\ Counted'
      /\ req' = [req EXCEPT ![p] = s]
      /\ s.at = IF r.op = "report" THEN "groups" ELSE "push"
      /\ s.run = n /\ s.op = r.op /\ s.suite = r.suite /\ s.rest = r.rest /\ s.commit = r.commit
      /\ s.pay = r.pay /\ s.job = r.job /\ s.known = r.known
      /\ s.verdict = r.verdict /\ s.open = r.open
  BY <1>0 DEF Created
<1>2. Route(s)
  BY <1>1 DEF Route, Taking
<1>3. n # 0 /\ from'[n] = [pay |-> r.pay, job |-> r.job]
  BY <1>1, Indices DEF Indexed, Typed
<1>4. suites' = suites
  BY DEF CreateStep
<1>5. ASSUME s.op # "report" PROVE from'[n].job = 0
  <2>1. r.job = 0
    BY <1>1, <1>5 DEF Route
  <2>2. QED  BY <1>3, <2>1
<1>6. Sound(s)'
  BY <1>1, <1>3, <1>4, <1>5 DEF Sound, Route, Taking, Looked
<1>7. QED  BY <1>1, <1>2, <1>6, TypedByRequest

LEMMA TypedPush ==
    ASSUME Typed, NEW p \in Procs, PushStep(p)
    PROVE  Typed'
<1>1. PICK r \in Request : r = req[p] /\ Route(r) /\ Sound(r)
  BY RequestOf
<1>2. r.at = "push" /\ r.op \in {"trigger", "runAll", "rerun"} /\ NextSuite(p)
      /\ jobs' = jobs \cup {r.run}
  BY <1>1 DEF PushStep, Route
<1>3. Moves(p)
  BY <1>1, <1>2, NextSuiteMoves
<1>4. r.run \in Runs /\ from[r.run].job = 0
  BY <1>1, <1>2 DEF Sound
<1>5. UNCHANGED <<tables, from, hurt, started, faults>>
  BY DEF PushStep
<1>6. Tables'
  BY <1>2, <1>4, <1>5 DEF Typed, Tables, tables, Runs, IsSeq
<1>7. Grows
  BY <1>5, Indices DEF Indexed, Grows, tables, Runs, Typed
<1>8. Counted'
  BY <1>5 DEF Typed, Counted
<1>9. QED  BY <1>3, <1>6, <1>7, <1>8, TypedByMove

(* Steps of nobody's request.                                              *)
LEMMA TypedOthers ==
    ASSUME Typed, Tables', Counted', Grows, req' = req
    PROVE  Typed'
<1>1. ASSUME NEW q \in Procs PROVE Sound(req[q])'
  <2>1. PICK g \in Request : g = req[q] /\ Sound(g)
    BY RequestOf
  <2>2. Sound(g)'
    BY <2>1, SoundStays DEF Typed
  <2>3. g = req[q]'
    BY <2>1
  <2>4. QED  BY <2>2, <2>3
<1>2. QED  BY <1>1 DEF Typed, Route

(* A status of a run is written.                                           *)
LEMMA StatusTables ==
    ASSUME Tables, NEW r \in Runs, NEW status \in Statuses,
           runs' = [runs EXCEPT ![r].status = status],
           UNCHANGED <<suites, groups, cases, from>>, jobs' \subseteq jobs, hurt' = hurt
    PROVE  /\ Tables' /\ Grows /\ Runs' = Runs
           /\ \A k \in Runs : /\ runs'[k].status = IF k = r THEN status ELSE runs[k].status
                              /\ runs'[k].suite = runs[k].suite
                              /\ runs'[k].commit = runs[k].commit
                              /\ runs'[k].summary = runs[k].summary
<1>1. PICK row : row = [runs[r] EXCEPT !.status = status]
  OBVIOUS
<1>2. DOMAIN runs[r] = Columns
  BY DEF Tables
<1>3. /\ DOMAIN row = Columns /\ row.suite = runs[r].suite /\ row.commit = runs[r].commit
      /\ row.number = runs[r].number /\ row.status = status /\ row.summary = runs[r].summary
  BY <1>1, <1>2 DEF Columns
<1>4. runs' = [runs EXCEPT ![r] = row]
  BY <1>1
<1>5. row.status \in Statuses
  BY <1>3
<1>6. runs[r].summary # NoSummary => row.summary # NoSummary
  BY <1>3
<1>7. /\ Tables' /\ Grows /\ Runs' = Runs
      /\ \A k \in Runs : runs'[k] = IF k = r THEN row ELSE runs[k]
  BY <1>3, <1>4, <1>5, <1>6, RowTables
<1>8. QED  BY <1>3, <1>7

LEMMA TypedJobs ==
    ASSUME Typed, NEW r \in Runs, Dispatch(r) \/ Cancel(r) \/ Forget(r)
    PROVE  Typed'
<1>1. "running" \in Statuses /\ "cancelled" \in Statuses
  BY DEF Statuses
<1>2. CASE Dispatch(r)
  <2>1. Tables' /\ Grows /\ Counted'
    BY <1>1, <1>2, StatusTables DEF Dispatch, Typed, Counted
  <2>2. QED  BY <1>2, <2>1, TypedOthers DEF Dispatch
<1>3. CASE Cancel(r)
  <2>1. Tables' /\ Grows /\ Counted'
    BY <1>1, <1>3, StatusTables DEF Cancel, Typed, Counted
  <2>2. QED  BY <1>3, <2>1, TypedOthers DEF Cancel
<1>4. CASE Forget(r)
  <2>1. Tables' /\ Grows /\ Counted'
    BY <1>4, SameTables DEF Forget, Typed, Counted, Tables
  <2>2. QED  BY <1>4, <2>1, TypedOthers DEF Forget
<1>5. QED  BY <1>2, <1>3, <1>4

-----------------------------------------------------------------------------
(* A report on its way into the tables.                                    *)
LEMMA SuiteFacts ==
    ASSUME Typed, NEW p \in Procs, SuiteStep(p)
    PROVE  \E r \in Request, s \in Request, name \in Names, n \in Nat \ {0} :
              /\ r = req[p] /\ Route(r) /\ Sound(r) /\ r.at = "suite" /\ r.op = "report"
              /\ name = r.pay[r.job].suite
              /\ n = IF r.known[name] # 0 THEN r.known[name] ELSE Len(suites) + 1
              /\ suites' = IF r.known[name] # 0 THEN suites ELSE Append(suites, name)
              /\ suites' \in Seq(Names)
              /\ \A k \in DOMAIN suites : k \in DOMAIN suites' /\ suites'[k] = suites[k]
              /\ r.known[name] = 0 => n \in DOMAIN suites' /\ suites'[n] = name
              /\ req' = [req EXCEPT ![p] = s] /\ s.at = "number" /\ s.suite = n
              /\ s.known \in [Names -> Nat]
              /\ \A m \in Names : s.known[m] = IF m = name THEN n ELSE r.known[m]
              /\ s.op = r.op /\ s.rest = r.rest /\ s.commit = r.commit
              /\ s.run = r.run /\ s.pay = r.pay /\ s.job = r.job /\ s.made = r.made
              /\ s.verdict = r.verdict /\ s.open = r.open
<1>1. PICK r \in Request : r = req[p] /\ Route(r) /\ Sound(r)
  BY RequestOf
<1>2. r.at = "suite" /\ r.op = "report" /\ r.pay \in Payloads /\ r.job \in 1..Len(r.pay)
      /\ r.known \in [Names -> Nat]
  BY <1>1 DEF SuiteStep, Route
<1>3. r.pay[r.job].suite \in Names
  BY <1>2, ReportIsLong DEF Names
<1>4. PICK name \in Names : name = r.pay[r.job].suite
  BY <1>3
<1>5. suites \in Seq(Names) /\ Len(suites) \in Nat /\ DOMAIN suites = 1..Len(suites)
  BY Indices DEF Indexed, Typed, Tables
<1>6. PICK n \in Nat \ {0} : n = IF r.known[name] # 0 THEN r.known[name] ELSE Len(suites) + 1
  BY <1>2, <1>5
<1>7. suites' = IF r.known[name] # 0 THEN suites ELSE Append(suites, name)
  BY <1>1, <1>4 DEF SuiteStep
<1>8. /\ suites' \in Seq(Names)
      /\ \A k \in DOMAIN suites : k \in DOMAIN suites' /\ suites'[k] = suites[k]
      /\ r.known[name] = 0 => n \in DOMAIN suites' /\ suites'[n] = name
  <2>1. CASE r.known[name] # 0
    BY <1>5, <1>7, <2>1
  <2>2. CASE r.known[name] = 0
    <3>1. suites' = Append(suites, name) /\ n = Len(suites) + 1
      BY <1>6, <1>7, <2>2
    <3>2. /\ suites' \in Seq(Names) /\ Len(suites') = Len(suites) + 1
          /\ \A k \in 1..Len(suites) : suites'[k] = suites[k]
          /\ suites'[Len(suites) + 1] = name
      BY <1>5, <3>1, AppendProperties
    <3>3. DOMAIN suites' = 1..(Len(suites) + 1)
      BY <3>2, LenProperties
    <3>4. QED  BY <1>5, <3>1, <3>2, <3>3
  <2>3. QED  BY <2>1, <2>2
<1>9. PICK known \in [Names -> Nat] : known = [r.known EXCEPT ![name] = n]
  BY <1>2
<1>10. \A m \in Names : known[m] = IF m = name THEN n ELSE r.known[m]
  BY <1>2, <1>9
<1>11. PICK s : s = [r EXCEPT !.at = "number", !.suite = n, !.known = known]
  OBVIOUS
<1>12. /\ s \in Request /\ s.at = "number" /\ s.suite = n /\ s.known = known
       /\ s.op = r.op /\ s.rest = r.rest /\ s.commit = r.commit
       /\ s.run = r.run /\ s.pay = r.pay /\ s.job = r.job /\ s.made = r.made
       /\ s.verdict = r.verdict /\ s.open = r.open
  BY <1>11 DEF Request
<1>13. req' = [req EXCEPT ![p] = s]
  <2>1. req' = [req EXCEPT ![p].at = "number", ![p].suite = n, ![p].known[name] = n]
    BY <1>1, <1>4, <1>6 DEF SuiteStep
  <2>2. req' = [req EXCEPT ![p] = [req[p] EXCEPT !.at = "number", !.suite = n,
                                                 !.known = [req[p].known EXCEPT ![name] = n]]]
    BY <2>1
  <2>3. s = [req[p] EXCEPT !.at = "number", !.suite = n,
                           !.known = [req[p].known EXCEPT ![name] = n]]
    BY <1>1, <1>9, <1>11
  <2>4. QED  BY <2>2, <2>3, Zenon
<1>14. /\ s.known \in [Names -> Nat]
       /\ \A m \in Names : s.known[m] = IF m = name THEN n ELSE r.known[m]
  BY <1>9, <1>10, <1>12
<1>15. QED  BY <1>1, <1>2, <1>4, <1>6, <1>7, <1>8, <1>12, <1>13, <1>14

LEMMA TypedSuite ==
    ASSUME Typed, NEW p \in Procs, SuiteStep(p)
    PROVE  Typed'
<1>1. PICK r \in Request, s \in Request, name \in Names, n \in Nat \ {0} :
        /\ r = req[p] /\ Route(r) /\ Sound(r) /\ r.at = "suite" /\ r.op = "report"
        /\ n = IF r.known[name] # 0 THEN r.known[name] ELSE Len(suites) + 1
        /\ suites' \in Seq(Names)
        /\ \A k \in DOMAIN suites : k \in DOMAIN suites' /\ suites'[k] = suites[k]
        /\ r.known[name] = 0 => n \in DOMAIN suites' /\ suites'[n] = name
        /\ req' = [req EXCEPT ![p] = s] /\ s.at = "number" /\ s.suite = n
        /\ s.known \in [Names -> Nat]
        /\ \A m \in Names : s.known[m] = IF m = name THEN n ELSE r.known[m]
        /\ s.op = r.op /\ s.rest = r.rest /\ s.commit = r.commit
        /\ s.run = r.run /\ s.pay = r.pay /\ s.job = r.job
        /\ s.verdict = r.verdict /\ s.open = r.open
  BY SuiteFacts
<1>2. UNCHANGED <<runs, groups, cases, jobs, from, hurt, started, faults>>
  BY DEF SuiteStep
<1>3. Tables'
  BY <1>1, <1>2 DEF Typed, Tables, Runs, IsSeq
<1>4. Grows
  BY <1>1, <1>2, Indices DEF Indexed, Typed, Grows, Runs
<1>5. Route(s)
  BY <1>1 DEF Route, Taking
<1>6. \A m \in Names : r.known[m] # 0 =>
        r.known[m] \in DOMAIN suites' /\ suites'[r.known[m]] = m
  BY <1>1 DEF Sound, Looked
<1>7. n \in DOMAIN suites' /\ suites'[n] = name
  BY <1>1, <1>6
<1>8. Looked(s)'
  BY <1>1, <1>6, <1>7 DEF Looked
<1>9. \A i \in 1..Len(r.rest) : r.rest[i] \in DOMAIN suites'
  BY <1>1 DEF Sound
<1>10. Sound(s)'
  BY <1>1, <1>2, <1>7, <1>8, <1>9 DEF Sound, Taking, Runs
<1>11. Counted'
  BY <1>2 DEF Typed, Counted
<1>12. QED  BY <1>1, <1>3, <1>4, <1>5, <1>10, <1>11, TypedByRequest

LEMMA TypedGroups ==
    ASSUME Typed, NEW p \in Procs, GroupsStep(p)
    PROVE  Typed'
<1>1. PICK r \in Request : r = req[p] /\ Route(r) /\ Sound(r)
  BY RequestOf
<1>2. r.at = "groups" /\ r.run \in Runs /\ Counted'
  BY <1>1 DEF GroupsStep, Sound, Taking, Typed, Counted
<1>3. UNCHANGED <<suites, runs, cases, from, hurt>>
  BY DEF GroupsStep
<1>4. CASE Fail(p) /\ groups' = groups
  <2>1. Moves(p) /\ jobs' \subseteq jobs
    BY <1>4, FailMoves
  <2>2. Tables' /\ Grows
    BY <1>3, <1>4, <2>1, SameTables DEF tables, Typed, Tables
  <2>3. QED  BY <1>2, <2>1, <2>2, TypedByMove
<1>5. CASE groups' = [groups EXCEPT ![req[p].run] = @ \o Batch(p)] /\ Goto(p, "cases") /\ jobs' = jobs
  <2>1. PICK rows : rows = groups[r.run] \o Batch(p)
    OBVIOUS
  <2>2. groups' = [groups EXCEPT ![r.run] = rows] /\ UNCHANGED cases
    BY <1>1, <1>3, <1>5, <2>1
  <2>3. Tables' /\ Grows
    BY <1>2, <1>3, <1>5, <2>2, GroupsTables DEF Typed
  <2>4. Moves(p)
    BY <1>1, <1>2, <1>5, GotoIsMove DEF Taking
  <2>5. QED  BY <1>2, <2>3, <2>4, TypedByMove
<1>6. QED  BY <1>4, <1>5 DEF GroupsStep

LEMMA TypedCases ==
    ASSUME Typed, NEW p \in Procs, CasesStep(p)
    PROVE  Typed'
<1>1. PICK r \in Request : r = req[p] /\ Route(r) /\ Sound(r)
  BY RequestOf
<1>2. r.at = "cases" /\ r.run \in Runs /\ Counted'
  BY <1>1 DEF CasesStep, Sound, Taking, Typed, Counted
<1>3. PICK rows : rows = cases[r.run] \o CasesOf(r.pay, r.job)
  OBVIOUS
<1>4. cases' = [cases EXCEPT ![r.run] = rows] /\ UNCHANGED groups
  BY <1>1, <1>3 DEF CasesStep
<1>5. UNCHANGED <<suites, runs, from, jobs, hurt>>
  BY DEF CasesStep
<1>6. Tables' /\ Grows
  BY <1>2, <1>4, <1>5, GroupsTables DEF Typed
<1>7. Moves(p)
  BY <1>1, <1>2, GotoIsMove DEF CasesStep, Taking
<1>8. QED  BY <1>2, <1>6, <1>7, TypedByMove

(* A stored summary is a summary.                                          *)
LEMMA SummaryIsStored == ASSUME NEW pay, NEW job PROVE SummaryOf(pay, job) # NoSummary
<1>1. PICK s : s = SummaryOf(pay, job)
  OBVIOUS
<1>2. "cases" \in DOMAIN s
  BY <1>1 DEF SummaryOf, Summary
<1>3. DOMAIN NoSummary = {}
  BY DEF NoSummary
<1>4. QED  BY <1>1, <1>2, <1>3

LEMMA FinishFacts ==
    ASSUME Typed, NEW p \in Procs, FinishStep(p)
    PROVE  \E r \in Request :
              /\ r = req[p] /\ Route(r) /\ Sound(r) /\ r.at = "finish" /\ r.run \in Runs
              /\ Tables' /\ Grows /\ Counted' /\ Runs' = Runs
              /\ runs'[r.run].status \in {"passed", "failed"}
              /\ runs'[r.run].summary = SummaryOf(r.pay, r.job)
              /\ runs'[r.run].summary # NoSummary
              /\ \A k \in Runs : /\ k # r.run => runs'[k] = runs[k]
                                 /\ runs'[k].suite = runs[k].suite
                                 /\ runs'[k].commit = runs[k].commit
              /\ UNCHANGED <<suites, groups, cases, from, hurt>>
              /\ jobs' = jobs \/ (r.op = "completion" /\ jobs' = jobs \ {r.run})
              /\ \/ Finish(p)
                 \/ \E s \in Request :
                       /\ r.op = "report" /\ r.job < Len(r.pay)
                       /\ req' = [req EXCEPT ![p] = s] /\ s.at = "suite" /\ s.job = r.job + 1
                       /\ s.op = r.op /\ s.rest = r.rest /\ s.commit = r.commit
                       /\ s.run = r.run /\ s.pay = r.pay /\ s.suite = r.suite /\ s.made = r.made
                       /\ s.known = r.known /\ s.verdict = r.verdict /\ s.open = r.open
<1>1. PICK r \in Request : r = req[p] /\ Route(r) /\ Sound(r)
  BY RequestOf
<1>2. r.at = "finish" /\ r.run \in Runs /\ Counted'
  BY <1>1 DEF FinishStep, Sound, Taking, Typed, Counted
<1>3. PICK summary : summary = SummaryOf(r.pay, r.job)
  OBVIOUS
<1>4. PICK status \in {"passed", "failed"} : status = Verdict(summary)
  BY DEF Verdict
<1>5. PICK row : row = [runs[r.run] EXCEPT !.summary = summary, !.status = status]
  OBVIOUS
<1>6. DOMAIN runs[r.run] = Columns
  BY <1>2 DEF Typed, Tables
<1>7. /\ DOMAIN row = Columns /\ row.suite = runs[r.run].suite /\ row.commit = runs[r.run].commit
      /\ row.number = runs[r.run].number /\ row.status = status /\ row.summary = summary
  BY <1>5, <1>6 DEF Columns
<1>8. runs' = [runs EXCEPT ![r.run] = row]
  <2>1. runs' = [runs EXCEPT ![r.run].summary = summary, ![r.run].status = status]
    BY <1>1, <1>3, <1>4 DEF FinishStep
  <2>2. QED  BY <1>5, <2>1
<1>9. row.status \in Statuses /\ (runs[r.run].summary # NoSummary => row.summary # NoSummary)
  BY <1>3, <1>7, SummaryIsStored DEF Statuses
<1>10. UNCHANGED <<suites, groups, cases, from>> /\ hurt' = hurt
  BY DEF FinishStep
<1>11. jobs' = jobs \/ (r.op = "completion" /\ jobs' = jobs \ {r.run})
  BY <1>1 DEF FinishStep
<1>12. jobs' \subseteq jobs
  BY <1>11
<1>13. /\ Tables' /\ Grows /\ Runs' = Runs
       /\ \A k \in Runs : runs'[k] = IF k = r.run THEN row ELSE runs[k]
  <2>1. Tables
    BY DEF Typed
  <2>2. QED  BY <1>2, <1>7, <1>8, <1>9, <1>10, <1>12, <2>1, RowTables
<1>14. /\ runs'[r.run].status \in {"passed", "failed"} /\ runs'[r.run].summary # NoSummary
       /\ runs'[r.run].summary = SummaryOf(r.pay, r.job)
       /\ \A k \in Runs : /\ k # r.run => runs'[k] = runs[k]
                          /\ runs'[k].suite = runs[k].suite /\ runs'[k].commit = runs[k].commit
  BY <1>2, <1>3, <1>7, <1>13, SummaryIsStored
<1>15. ASSUME ~Finish(p)
       PROVE  \E s \in Request :
                 /\ r.op = "report" /\ r.job < Len(r.pay)
                 /\ req' = [req EXCEPT ![p] = s] /\ s.at = "suite" /\ s.job = r.job + 1
                 /\ s.op = r.op /\ s.rest = r.rest /\ s.commit = r.commit
                 /\ s.run = r.run /\ s.pay = r.pay /\ s.suite = r.suite /\ s.made = r.made
                 /\ s.known = r.known /\ s.verdict = r.verdict /\ s.open = r.open
  <2>1. /\ r.op = "report" /\ r.job < Len(r.pay)
        /\ req' = [req EXCEPT ![p].at = "suite", ![p].job = @ + 1]
    BY <1>1, <1>15 DEF FinishStep
  <2> r.job \in Nat
    BY DEF Request
  <2> PICK j \in Nat : j = r.job + 1
    OBVIOUS
  <2>2. PICK s : s = [r EXCEPT !.at = "suite", !.job = j]
    OBVIOUS
  <2>3. /\ s \in Request /\ s.at = "suite" /\ s.job = r.job + 1
        /\ s.op = r.op /\ s.rest = r.rest /\ s.commit = r.commit
        /\ s.run = r.run /\ s.pay = r.pay /\ s.suite = r.suite /\ s.made = r.made
        /\ s.known = r.known /\ s.verdict = r.verdict /\ s.open = r.open
    BY <2>2 DEF Request
  <2>4. req' = [req EXCEPT ![p] = s]
    BY <1>1, <2>1, <2>2 DEF Typed
  <2>5. QED  BY <2>1, <2>3, <2>4
<1>16. QED  BY <1>1, <1>2, <1>10, <1>11, <1>13, <1>14, <1>15

LEMMA TypedFinish ==
    ASSUME Typed, NEW p \in Procs, FinishStep(p)
    PROVE  Typed'
<1>1. PICK r \in Request :
        /\ r = req[p] /\ Route(r) /\ Sound(r) /\ r.at = "finish"
        /\ Tables' /\ Grows /\ Counted'
        /\ \/ Finish(p)
           \/ \E s \in Request :
                 /\ r.op = "report" /\ r.job < Len(r.pay)
                 /\ req' = [req EXCEPT ![p] = s] /\ s.at = "suite" /\ s.job = r.job + 1
                 /\ s.op = r.op /\ s.rest = r.rest /\ s.commit = r.commit
                 /\ s.run = r.run /\ s.pay = r.pay /\ s.suite = r.suite /\ s.made = r.made
                 /\ s.known = r.known /\ s.verdict = r.verdict /\ s.open = r.open
  BY FinishFacts
<1>2. CASE Finish(p)
  BY <1>1, <1>2, FinishMoves, TypedByMove
<1>3. ASSUME NEW s \in Request,
             r.op = "report", r.job < Len(r.pay), req' = [req EXCEPT ![p] = s], s.at = "suite",
             s.job = r.job + 1, s.op = r.op, s.rest = r.rest, s.commit = r.commit,
             s.run = r.run, s.pay = r.pay, s.suite = r.suite, s.known = r.known,
             s.verdict = r.verdict, s.open = r.open
      PROVE  Typed'
  <2>1. r.pay \in Payloads /\ r.job \in 1..Len(r.pay) /\ r.known \in [Names -> Nat]
    BY <1>1, <1>3 DEF Route
  <2>2. s.job \in 1..Len(s.pay)
    BY <1>3, <2>1, ReportIsLong
  <2>3. Route(s)
    BY <1>1, <1>3, <2>1, <2>2 DEF Route, Taking
  <2>4. Looked(r) => Looked(s)
    BY <1>3 DEF Looked
  <2>5. Sound(s)
    BY <1>1, <1>3, <2>4 DEF Sound, Taking
  <2>6. QED  BY <1>1, <1>3, <2>3, <2>5, TypedByMove DEF Moves
<1>4. QED  BY <1>1, <1>2, <1>3

LEMMA ConcludeFacts ==
    ASSUME Typed, NEW p \in Procs, ConcludeStep(p)
    PROVE  /\ req[p].run \in Runs /\ req[p].op \in {"callback", "completion"}
           /\ Finish(p) /\ Tables' /\ Grows /\ Counted' /\ Runs' = Runs
           /\ \A k \in Runs : /\ k # req[p].run => runs'[k].status = runs[k].status
                              /\ runs'[k].suite = runs[k].suite
                              /\ runs'[k].commit = runs[k].commit
                              /\ runs'[k].summary = runs[k].summary
           /\ runs'[req[p].run].status \in {"passed", "failed"}
           /\ UNCHANGED <<suites, groups, cases, from, hurt>>
           /\ jobs' = jobs \/ jobs' = jobs \ {req[p].run}
<1>1. PICK r \in Request : r = req[p] /\ Route(r) /\ Sound(r)
  BY RequestOf
<1>2. r.at = "conclude" /\ r.op \in {"callback", "completion"} /\ r.run \in Runs
  BY <1>1 DEF ConcludeStep, Route, Sound
<1>3. r.verdict \in {"passed", "failed"}
  BY <1>1, <1>2 DEF Request, Route
<1>4. PICK status \in Statuses : status = r.verdict
  BY <1>3 DEF Statuses
<1>5. runs' = [runs EXCEPT ![r.run].status = status]
  BY <1>1, <1>4 DEF ConcludeStep
<1>6. UNCHANGED <<suites, groups, cases, from>> /\ hurt' = hurt /\ Counted'
      /\ (jobs' = jobs \/ jobs' = jobs \ {r.run})
  BY <1>1 DEF ConcludeStep, Typed, Counted
<1>7. /\ Tables' /\ Grows /\ Runs' = Runs
      /\ \A k \in Runs : /\ runs'[k].status = IF k = r.run THEN status ELSE runs[k].status
                         /\ runs'[k].suite = runs[k].suite
                         /\ runs'[k].commit = runs[k].commit
                         /\ runs'[k].summary = runs[k].summary
  <2>1. Tables /\ jobs' \subseteq jobs
    BY <1>6 DEF Typed
  <2>2. QED  BY <1>2, <1>5, <1>6, <2>1, StatusTables
<1>8. Finish(p)
  BY DEF ConcludeStep
<1>9. QED  BY <1>1, <1>2, <1>3, <1>4, <1>6, <1>7, <1>8

LEMMA TypedFault ==
    ASSUME Typed, NEW p \in Procs, Fault(p)
    PROVE  Typed'
<1>1. Moves(p) /\ jobs' \subseteq jobs
  BY FailMoves DEF Fault
<1>2. Counted'
  BY RecordAssumption DEF Fault, Typed, Counted
<1>3. hurt' \subseteq Runs /\ UNCHANGED tables /\ from' = from
  BY DEF Fault, Typed, Tables, Sound
<1>4. Tables' /\ Grows
  BY <1>1, <1>3, SameTables DEF Typed
<1>5. QED  BY <1>1, <1>2, <1>4, TypedByMove

LEMMA TypedCrash ==
    ASSUME Typed, Crash
    PROVE  Typed'
<1>1. Counted'
  BY RecordAssumption DEF Crash, Typed, Counted
<1>2. hurt' \subseteq Runs /\ UNCHANGED tables /\ from' = from /\ jobs' = jobs
  BY DEF Crash, Typed, Tables, Sound
<1>3. Tables' /\ Grows
  BY <1>2, SameTables DEF Typed
<1>4. req' = [p \in Procs |-> Idle] /\ Idle \in Request /\ Route(Idle) /\ Sound(Idle)
  BY IdleFacts, IdleIsSound DEF Crash
<1>5. PICK i \in Request : i = Idle /\ Route(i) /\ Sound(i)
  BY <1>4
<1>6. Sound(i)'
  BY <1>3, <1>5, SoundStays DEF Typed
<1>7. req' \in [Procs -> Request] /\ \A q \in Procs : req'[q] = i
  BY <1>4, <1>5
<1>8. \A q \in Procs : Route(req'[q]) /\ Sound(req[q])'
  BY <1>5, <1>6, <1>7
<1>9. QED  BY <1>1, <1>3, <1>7, <1>8 DEF Typed

LEMMA TypedStep ==
    ASSUME Typed, [RecordNext]_vars
    PROVE  Typed'
<1>1. ASSUME NEW p \in Procs, Step(p) PROVE Typed'
  <2>1. CASE ConcludeStep(p)
    BY <2>1, ConcludeFacts, FinishMoves, TypedByMove
  <2>2. QED  BY <1>1, <2>1, TypedStartTrigger, TypedStartRunAll, TypedStartRerun,
                TypedStartReport, TypedStartVerdict, TypedFind, TypedNumber, TypedCreate,
                TypedPush, TypedSuite, TypedGroups, TypedCases, TypedFinish, TypedFault DEF Step
<1>2. ASSUME NEW r \in Runs, Dispatch(r) \/ Cancel(r) \/ Forget(r) PROVE Typed'
  BY <1>2, TypedJobs
<1>3. CASE UNCHANGED vars
  <2>1. Tables' /\ Grows /\ Counted'
    BY <1>3, SameTables DEF vars, tables, Typed, Counted, Tables
  <2>2. QED  BY <1>3, <2>1, TypedOthers DEF vars
<1>4. QED  BY <1>1, <1>2, <1>3, TypedCrash DEF RecordNext

LEMMA TypedInit == RecordInit => Typed
<1> SUFFICES ASSUME RecordInit PROVE Typed
  OBVIOUS
<1>1. suites \in Seq(Names)
  <2>1. FirstSuites \in Seq(STRING)
    BY RecordAssumption
  <2>2. Len(FirstSuites) \in Nat /\ DOMAIN FirstSuites = 1..Len(FirstSuites)
        /\ FirstSuites \in [1..Len(FirstSuites) -> STRING]
    BY <2>1, LenProperties
  <2>3. FirstSuites \in [1..Len(FirstSuites) -> Names]
    BY <2>2 DEF Names, ToSet
  <2>4. PICK n \in Nat : n = Len(FirstSuites)
    BY <2>2
  <2>5. FirstSuites \in Seq(Names)
    BY <2>3, <2>4
  <2>6. QED  BY <2>5 DEF RecordInit
<1>2. IsSeq(<<>>) /\ Len(<<>>) = 0 /\ DOMAIN <<>> = {}
  BY DEF IsSeq, ToSet
<1>3. Tables
  BY <1>1, <1>2, RecordAssumption DEF RecordInit, Tables, Runs
<1>4. Counted
  BY RecordAssumption DEF RecordInit, Counted
<1>5. req \in [Procs -> Request] /\ \A p \in Procs : req[p] = Idle
  BY IdleFacts DEF RecordInit
<1>6. \A p \in Procs : Route(req[p]) /\ Sound(req[p])
  BY <1>5, IdleFacts, IdleIsSound
<1>7. QED  BY <1>3, <1>4, <1>5, <1>6 DEF Typed

LEMMA TypedAlways == RecordSpec => []Typed
<1>1. QED  BY TypedInit, TypedStep, PTL DEF RecordSpec

(* Every row, job and request keeps its type, for any reports and any      *)
(* number of requests: a run belongs to a suite there is, has a number and *)
(* a status of a run, and the tables have rows of the same runs.           *)
THEOREM RecordTypes == RecordSpec => []RecordTypeOK
<1>1. ASSUME Typed PROVE RecordTypeOK
  <2>1. Len(runs) \in Nat /\ Runs = 1..Len(runs) /\ Len(runs) <= MaxRuns
    BY <1>1, Indices DEF Indexed, Typed, Tables
  <2>2. \A r \in Runs : runs[r].number \in 1..MaxRuns
    <3>1. ASSUME NEW r \in Runs PROVE runs[r].number \in 1..MaxRuns
      <4>1. runs[r].number \in 1..r /\ r \in 1..Len(runs)
        BY <1>1, <2>1 DEF Typed, Tables
      <4>2. QED  BY <2>1, <4>1, RecordAssumption
    <3>2. QED  BY <3>1
  <2>3. DOMAIN groups = Runs /\ DOMAIN cases = Runs /\ DOMAIN from = Runs
    BY <1>1, Indices DEF Indexed, Typed
  <2>4. \A p \in Procs : req[p].run \in Runs \cup {0} /\ req[p].suite \in DOMAIN suites \cup {0}
    BY <1>1 DEF Typed, Sound
  <2>5. QED  BY <1>1, <2>2, <2>3, <2>4 DEF Typed, Tables, Counted, RecordTypeOK, Statuses
<1>2. QED  BY <1>1, TypedAlways, PTL

-----------------------------------------------------------------------------
(* What is in a row when it is inserted.                                   *)
LEMMA OnlyCreateInserts ==
    ASSUME Typed, Typed', [RecordNext]_vars, Len(runs') > Len(runs)
    PROVE  \E p \in Procs : CreateStep(p)
<1>1. /\ Len(runs) \in Nat /\ Runs = 1..Len(runs) /\ Len(runs') \in Nat /\ Runs' = 1..Len(runs')
  BY Indices, IndicesNext DEF Typed, Indexed
<1>2. Runs' # Runs /\ runs' # runs
  BY <1>1
<1>3. ASSUME NEW p \in Procs, Step(p) PROVE CreateStep(p)
  <2>1. ~FinishStep(p) /\ ~ConcludeStep(p)
    BY <1>2, FinishFacts, ConcludeFacts
  <2>2. QED
    BY <1>2, <1>3, <2>1
       DEF Step, StartTrigger, StartRunAll, StartRerun, StartReport, StartCallback,
           StartCompletion, Begin, FindStep, NumberStep, Numbered, PushStep, SuiteStep,
           GroupsStep, CasesStep, Fault, tables
<1>4. ASSUME NEW r \in Runs, Dispatch(r) \/ Cancel(r) \/ Forget(r) PROVE FALSE
  <2>1. "running" \in Statuses /\ "cancelled" \in Statuses
    BY DEF Statuses
  <2>2. Runs' = Runs
    BY <1>4, <2>1, StatusTables DEF Dispatch, Cancel, Forget, Typed, tables, Runs
  <2>3. QED  BY <1>2, <2>2
<1>5. ~Crash /\ vars' # vars
  BY <1>2 DEF Crash, vars, tables
<1>6. QED  BY <1>3, <1>4, <1>5 DEF RecordNext

LEMMA InsertIsCreate ==
    ASSUME Typed, Typed', [RecordNext]_vars, NEW p \in Procs, Inserts(p)
    PROVE  CreateStep(p)
<1>1. PICK q \in Procs : CreateStep(q)
  BY OnlyCreateInserts DEF Inserts
<1>2. PICK r \in Request, s \in Request, n \in Nat : Created(q, r, s, n)
  BY <1>1, CreateFacts
<1>3. q = p
  BY <1>2, OneRequest DEF Inserts, Created
<1>4. QED  BY <1>1, <1>3

(* Two runs of a suite have one number, or a later one a smaller number,   *)
(* only if the earlier was inserted after the number of the later had been *)
(* read: whoever has been seen has a smaller number.                       *)
THEOREM NumbersAreFresh == RecordSpec => NumberIsFresh
<1> DEFINE Fresh ==
      \A p \in Procs : Inserts(p) =>
          LET new == Last(runs') IN
          \A r \in Runs : (runs[r].suite = new.suite /\ runs[r].number >= new.number)
                          => r \notin req[p].saw
<1>1. ASSUME Typed, Typed', [RecordNext]_vars PROVE Fresh
  <2>1. ASSUME NEW p \in Procs, Inserts(p), NEW x \in Runs,
               runs[x].suite = Last(runs').suite, runs[x].number >= Last(runs').number,
               x \in req[p].saw
        PROVE  FALSE
    <3>1. CreateStep(p)
      BY <1>1, <2>1, InsertIsCreate
    <3>0. PICK r \in Request, s \in Request, n \in Nat : Created(p, r, s, n)
      BY <1>1, <3>1, CreateFacts
    <3>2. /\ r = req[p] /\ Sound(r) /\ r.at = "create"
          /\ n \in Runs' /\ n \notin Runs /\ Len(runs') = n
          /\ \A k \in Runs' : runs'[k] = IF k \in Runs THEN runs[k] ELSE NewRow(r)
      BY <3>0 DEF Created
    <3>3. Last(runs') = NewRow(r)
      BY <3>2 DEF Last
    <3>4. Last(runs').suite = r.suite /\ Last(runs').number = r.number
      BY <3>3 DEF NewRow
    <3>5. runs[x].number < r.number /\ r.number \in Nat
      BY <2>1, <3>2, <3>4 DEF Sound, Request
    <3>6. runs[x].number \in 1..x /\ x \in Nat
      BY <1>1, <2>1, Indices DEF Indexed, Typed, Tables
    <3>7. QED  BY <2>1, <3>4, <3>5, <3>6
  <2>2. QED  BY <2>1
<1>2. Typed /\ Typed' /\ [RecordNext]_vars => [Fresh]_vars
  BY <1>1
<1>3. QED  BY <1>2, TypedAlways, PTL DEF RecordSpec, NumberIsFresh

(* A trigger inserts a run beside a verdict of its suite and commit only   *)
(* if the verdict came after it had looked: the runs it saw had none, and  *)
(* the others were not there.                                              *)
THEOREM CommitsAreCached == RecordSpec => CommitIsCached
<1> DEFINE Cached ==
      \A p \in Procs : (Inserts(p) /\ req[p].op \in {"trigger", "runAll"}) =>
          TerminalOf(req[p].suite, req[p].commit) \subseteq req[p].open
<1>1. ASSUME Typed, Typed', [RecordNext]_vars PROVE Cached
  <2>1. ASSUME NEW p \in Procs, Inserts(p), req[p].op \in {"trigger", "runAll"},
               NEW x \in TerminalOf(req[p].suite, req[p].commit)
        PROVE  x \in req[p].open
    <3>1. CreateStep(p)
      BY <1>1, <2>1, InsertIsCreate
    <3>2. PICK r \in Request : r = req[p] /\ Sound(r)
      BY <1>1, RequestOf
    <3>3. Unseen(r)
      BY <2>1, <3>1, <3>2 DEF CreateStep, Sound
    <3>4. x \in Runs /\ runs[x].suite = r.suite /\ runs[x].commit = r.commit
      BY <3>2 DEF TerminalOf
    <3>5. x \in 1..MaxRuns
      BY <1>1, <3>4, RecordAssumption, Indices DEF Indexed, Typed, Tables
    <3>6. QED  BY <3>2, <3>3, <3>4, <3>5 DEF Unseen
  <2>2. QED  BY <2>1
<1>2. Typed /\ Typed' /\ [RecordNext]_vars => [Cached]_vars
  BY <1>1
<1>3. QED  BY <1>2, TypedAlways, PTL DEF RecordSpec, CommitIsCached

-----------------------------------------------------------------------------
(* What a report has made stays what it is while the tables grow.          *)
LEMMA RowStays ==
    ASSUME Tables, Grows, NEW r \in Runs
    PROVE  /\ r \in Runs' /\ suites'[runs'[r].suite] = suites[runs[r].suite]
           /\ runs[r].summary # NoSummary => runs'[r].summary # NoSummary
  BY DEF Tables, Grows, Runs

LEMMA TakenStays ==
    ASSUME Tables, Grows, NEW r \in Request, Route(r), Sound(r), Taken(r)
    PROVE  Taken(r)'
<1> SUFFICES ASSUME r.op = "report" PROVE Taken(r)'
  BY DEF Taken
<1>1. r.at \in {"number", "create"} => suites'[r.suite] = r.pay[r.job].suite
  BY DEF Taken, Sound, Grows
<1>2. r.at \in {"suite", "number", "create"} => Len(r.made) = r.job - 1
  BY DEF Taken
<1>3. r.at \in Taking => /\ Len(r.made) = r.job /\ r.run = r.made[r.job]
                         /\ from'[r.run] = [pay |-> r.pay, job |-> r.job]
  <2>1. r.job # 0
    BY DEF Route
  <2>2. r.at \in Taking => r.run \in Runs
    BY DEF Sound
  <2>3. QED  BY <2>1, <2>2 DEF Taken, Grows
<1>4. \A j \in 1..Len(r.made) :
        /\ r.made[j] \in Runs'
        /\ suites'[runs'[r.made[j]].suite] = r.pay[j].suite
        /\ j < r.job => runs'[r.made[j]].summary # NoSummary
  BY RowStays DEF Taken
<1>5. QED  BY <1>1, <1>2, <1>3, <1>4 DEF Taken

LEMMA AnsweredStays ==
    ASSUME Tables, Grows, NEW a, Answered(a)
    PROVE  Answered(a)'
  BY RowStays DEF Answered

(* The answers to the reports after a step: those there were, and new ones *)
(* that are true.                                                          *)
Answers == \A a \in answers' : a \in answers \/ Answered(a)'

LEMMA InOrderByRequest ==
    ASSUME Typed, InOrder, Grows, Answers, NEW p \in Procs, NEW s \in Request,
           req' = [req EXCEPT ![p] = s], Taken(s)'
    PROVE  InOrder'
<1>1. /\ req' \in [Procs -> Request]
      /\ \A q \in Procs : req'[q] = IF q = p THEN s ELSE req[q]
  BY OneRequest
<1>2. ASSUME NEW q \in Procs PROVE Taken(req[q])'
  <2>1. PICK g \in Request : g = req'[q]
    BY <1>1
  <2>2. CASE q = p
    <3>1. g = s
      BY <1>1, <2>1, <2>2
    <3>2. Taken(g)'
      BY <3>1
    <3>3. QED  BY <2>1, <3>2
  <2>3. CASE q # p
    <3>1. g = req[q]
      BY <1>1, <2>1, <2>3
    <3>2. Route(g) /\ Sound(g) /\ Taken(g)
      BY <3>1 DEF Typed, InOrder
    <3>3. Taken(g)'
      BY <3>2, TakenStays DEF Typed
    <3>4. QED  BY <2>1, <3>3
  <2>4. QED  BY <2>2, <2>3
<1>3. ASSUME NEW a \in answers' PROVE Answered(a)'
  BY <1>3, AnsweredStays DEF Answers, InOrder, Typed
<1>4. QED  BY <1>2, <1>3 DEF InOrder

(* A request that is not, or no longer, a report.                          *)
LEMMA InOrderByOther ==
    ASSUME Typed, InOrder, Grows, Answers, NEW p \in Procs, NEW s \in Request,
           req' = [req EXCEPT ![p] = s], s.op # "report"
    PROVE  InOrder'
<1>1. Taken(s)'
  BY DEF Taken
<1>2. QED  BY <1>1, InOrderByRequest

LEMMA InOrderByFinish ==
    ASSUME Typed, InOrder, Grows, Answers, NEW p \in Procs, Finish(p)
    PROVE  InOrder'
  BY IdleFacts, InOrderByOther DEF Finish

LEMMA InOrderByNone ==
    ASSUME Typed, InOrder, Grows, Answers, req' = req
    PROVE  InOrder'
<1>1. ASSUME NEW q \in Procs PROVE Taken(req[q])'
  <2>1. PICK g \in Request : g = req[q] /\ Route(g) /\ Sound(g)
    BY RequestOf
  <2>2. Taken(g)
    BY <2>1 DEF InOrder
  <2>3. Taken(g)'
    BY <2>1, <2>2, TakenStays DEF Typed
  <2>4. g = req[q]'
    BY <2>1
  <2>5. QED  BY <2>3, <2>4
<1>2. ASSUME NEW a \in answers' PROVE Answered(a)'
  BY <1>2, AnsweredStays DEF Answers, InOrder, Typed
<1>3. QED  BY <1>1, <1>2 DEF InOrder

(* The answer to a report that is given up is true, wherever it stands.    *)
LEMMA AnswerIsTrue ==
    ASSUME Typed, InOrder, Grows, NEW p \in Procs, req[p].op = "report"
    PROVE  Answered(Answer(p, FALSE)) /\ \A a : a = Answer(p, FALSE) => Answered(a)'
<1>1. PICK r \in Request : r = req[p] /\ Route(r) /\ Sound(r)
  BY RequestOf
<1>2. Taken(r) /\ r.op = "report"
  BY <1>1 DEF InOrder
<1>3. r.at \in {"suite", "number", "create"} \cup Taking
  BY <1>1, <1>2 DEF Route, Request
<1>4. r.made \in Seq(Nat) /\ Len(r.made) \in Nat /\ r.job \in 1..Len(r.pay) /\ Len(r.pay) \in Nat
  <2>1. r.made \in Seq(Nat) /\ r.pay \in Payloads /\ r.job \in 1..Len(r.pay)
    BY <1>1, <1>2 DEF Route, Request
  <2>2. QED  BY <2>1, ReportIsLong, LenProperties
<1>5. Len(r.made) \in {r.job - 1, r.job}
  BY <1>2, <1>3 DEF Taken
<1>6. PICK a : a = Answer(p, FALSE)
  OBVIOUS
<1>7. DOMAIN a = {"pay", "runs", "ok"} /\ a.pay = r.pay /\ a.runs = r.made /\ a.ok = FALSE
  BY <1>1, <1>6 DEF Answer
<1>8. \A j \in 1..Len(r.made) :
        /\ r.made[j] \in Runs /\ suites[runs[r.made[j]].suite] = r.pay[j].suite
        /\ j < r.job => runs[r.made[j]].summary # NoSummary
  BY <1>2 DEF Taken
<1>9. Answered(a)
  BY <1>4, <1>5, <1>7, <1>8 DEF Answered
<1>10. Answered(a)'
  BY <1>9, AnsweredStays DEF Typed
<1>11. QED  BY <1>6, <1>9, <1>10

LEMMA SameGrows ==
    ASSUME Typed, UNCHANGED <<suites, runs, from>>
    PROVE  Grows
  BY Indices DEF Indexed, Typed, Grows, Runs

LEMMA InOrderByPush ==
    ASSUME Typed, InOrder, Grows, Answers, NEW p \in Procs, NextSuite(p),
           req[p].op \in {"trigger", "runAll", "rerun"}
    PROVE  InOrder'
<1>1. PICK r \in Request : r = req[p]
  BY RequestOf
<1>2. PICK s \in Request : req' = [req EXCEPT ![p] = s]
  BY NextSuiteMoves DEF Moves
<1>3. s = req'[p]
  BY <1>2, OneRequest
<1>4. CASE Finish(p)
  BY <1>4, InOrderByFinish
<1>5. CASE ~Finish(p)
  <2>1. PICK h, t : h = Head(r.rest) /\ t = Tail(r.rest)
    OBVIOUS
  <2>2. s = [r EXCEPT !.at = "find", !.suite = h, !.rest = t, !.number = 0, !.run = 0,
                      !.open = {}, !.saw = {}]
    BY <1>1, <1>3, <1>5, <2>1 DEF NextSuite, Typed
  <2>3. s.op = r.op
    BY <2>2 DEF Request
  <2>4. QED  BY <1>1, <1>2, <2>3, InOrderByOther
<1>6. QED  BY <1>4, <1>5

LEMMA InOrderByFail ==
    ASSUME Typed, InOrder, Grows, NEW p \in Procs, Fail(p)
    PROVE  InOrder'
<1>1. PICK r \in Request : r = req[p] /\ Route(r) /\ Sound(r)
  BY RequestOf
<1>2. Answers
  BY AnswerIsTrue DEF Fail, Answers
<1>3. CASE Finish(p)
  BY <1>2, <1>3, InOrderByFinish
<1>4. CASE r.op # "report"
  <2>1. Moves(p)
    BY FailMoves
  <2>2. PICK s \in Request : req' = [req EXCEPT ![p] = s]
    BY <2>1 DEF Moves
  <2>3. s = req'[p]
    BY <2>2, OneRequest
  <2>4. CASE r.op = "runAll" /\ NextSuite(p)
    BY <1>1, <1>2, <2>4, InOrderByPush
  <2>5. CASE Goto(p, "conclude")
    <3>1. s.op = r.op
      BY <1>1, <2>3, <2>5 DEF Goto, Typed, Request
    <3>2. QED  BY <1>2, <1>4, <2>2, <3>1, InOrderByOther
  <2>6. QED  BY <1>1, <1>3, <1>4, <2>4, <2>5 DEF Fail
<1>5. QED  BY <1>1, <1>3, <1>4 DEF Fail

(* The request of a user who wants a run.                                  *)
LEMMA StartRunFacts ==
    ASSUME Typed, NEW p \in Procs, StartTrigger(p) \/ StartRunAll(p) \/ StartRerun(p)
    PROVE  \E s \in Request :
              /\ Begin(p, s) /\ s.op \in {"trigger", "runAll", "rerun"}
              /\ s.at \in {"find", "number"} /\ from' = from
<1>1. ASSUME StartTrigger(p)
    PROVE  \E s : Begin(p, s) /\ s.op = "trigger" /\ s.at = "find"
  <2>1. PICK k \in DOMAIN suites, c \in Commits : Begin(p,
          [Idle EXCEPT !.op = "trigger", !.at = "find", !.suite = k, !.commit = c])
    BY <1>1 DEF StartTrigger
  <2>2. PICK s : s = [Idle EXCEPT !.op = "trigger", !.at = "find", !.suite = k, !.commit = c]
    OBVIOUS
  <2>3. s.op = "trigger" /\ s.at = "find" /\ Begin(p, s)
    BY <2>1, <2>2 DEF Idle
  <2>4. QED  BY <2>3
<1>2. ASSUME StartRunAll(p)
    PROVE  \E s : Begin(p, s) /\ s.op = "runAll" /\ s.at = "find"
  <2>1. PICK c, rest : Begin(p,
          [Idle EXCEPT !.op = "runAll", !.at = "find", !.suite = 1, !.commit = c,
                       !.rest = rest])
    BY <1>2 DEF StartRunAll
  <2>2. PICK s : s = [Idle EXCEPT !.op = "runAll", !.at = "find", !.suite = 1, !.commit = c,
                                  !.rest = rest]
    OBVIOUS
  <2>3. s.op = "runAll" /\ s.at = "find" /\ Begin(p, s)
    BY <2>1, <2>2 DEF Idle
  <2>4. QED  BY <2>3
<1>3. ASSUME StartRerun(p)
    PROVE  \E s : Begin(p, s) /\ s.op = "rerun" /\ s.at = "number"
  <2>1. PICK suite, c : Begin(p,
          [Idle EXCEPT !.op = "rerun", !.at = "number", !.suite = suite, !.commit = c])
    BY <1>3 DEF StartRerun
  <2>2. PICK s : s = [Idle EXCEPT !.op = "rerun", !.at = "number", !.suite = suite,
                                  !.commit = c]
    OBVIOUS
  <2>3. s.op = "rerun" /\ s.at = "number" /\ Begin(p, s)
    BY <2>1, <2>2 DEF Idle
  <2>4. QED  BY <2>3
<1>4. PICK s : /\ Begin(p, s) /\ s.op \in {"trigger", "runAll", "rerun"}
             /\ s.at \in {"find", "number"}
  BY <1>1, <1>2, <1>3
<1>5. s \in Request
  <2>1. Typed'
    BY TypedStartTrigger, TypedStartRunAll, TypedStartRerun
  <2>2. s = req'[p]
    BY <1>4 DEF Begin, Typed
  <2>3. QED  BY <2>1, <2>2 DEF Typed
<1>6. from' = from
  BY DEF StartTrigger, StartRunAll, StartRerun
<1>7. QED  BY <1>4, <1>5, <1>6

(* A new request has made nothing.                                         *)
LEMMA InOrderStart ==
    ASSUME Typed, InOrder, NEW p \in Procs,
           \/ StartTrigger(p) \/ StartRunAll(p) \/ StartRerun(p) \/ StartReport(p)
           \/ StartCallback(p) \/ StartCompletion(p)
    PROVE  InOrder'
<1>1. Answers
  BY DEF Answers, StartTrigger, StartRunAll, StartRerun, StartReport, StartCallback,
         StartCompletion, Begin
<1>2. CASE StartReport(p)
  <2>1. PICK s \in Request : /\ Begin(p, s) /\ Route(s) /\ Sound(s) /\ from' = from
                             /\ s.op = "report" /\ s.at = "suite" /\ s.job = 1 /\ s.made = <<>>
    BY <1>2, StartReportFacts
  <2>2. Grows
    BY <2>1, SameGrows DEF Begin, tables
  <2>3. Len(s.made) = 0
    BY <2>1
  <2>4. Taken(s)'
    BY <2>1, <2>3 DEF Taken, Taking
  <2>5. QED  BY <1>1, <2>1, <2>2, <2>4, InOrderByRequest DEF Begin
<1>3. CASE StartCallback(p) \/ StartCompletion(p)
  <2>1. PICK s \in Request : /\ Begin(p, s) /\ s.op \in {"callback", "completion"}
                             /\ HasWorkflow(s.run) /\ (from' = from \/ Reported(s.run, s.pay))
    BY <1>3, StartVerdictFacts
  <2>2. UNCHANGED tables /\ jobs' = jobs /\ hurt' = hurt
    BY <2>1 DEF Begin
  <2>3. Grows
    BY <2>1, <2>2, SameGrows, ReportedTables DEF Typed, tables
  <2>4. QED  BY <1>1, <2>1, <2>3, InOrderByOther DEF Begin
<1>4. CASE StartTrigger(p) \/ StartRunAll(p) \/ StartRerun(p)
  <2>1. Grows
    BY <1>4, SameGrows DEF StartTrigger, StartRunAll, StartRerun, Begin, tables
  <2>2. PICK s \in Request : Begin(p, s) /\ s.op \in {"trigger", "runAll", "rerun"}
    BY <1>4, StartRunFacts
  <2>3. QED  BY <1>1, <2>1, <2>2, InOrderByOther DEF Begin
<1>5. QED  BY <1>2, <1>3, <1>4

(* A run on its way to its row.                                            *)
LEMMA InOrderCreate ==
    ASSUME Typed, InOrder, NEW p \in Procs, CreateStep(p)
    PROVE  InOrder'
<1>1. PICK r \in Request, s \in Request, n \in Nat : Created(p, r, s, n)
  BY CreateFacts
<1>2. /\ r = req[p] /\ Route(r) /\ Sound(r) /\ r.at = "create"
      /\ n \in Runs' /\ n \notin Runs
      /\ runs'[n] = NewRow(r) /\ from'[n] = [pay |-> r.pay, job |-> r.job]
      /\ Grows /\ req' = [req EXCEPT ![p] = s] /\ s.op = r.op /\ s.run = n
      /\ s.at = IF r.op = "report" THEN "groups" ELSE "push"
      /\ s.made = IF r.op = "report" THEN Append(r.made, n) ELSE r.made
      /\ s.pay = r.pay /\ s.job = r.job
  BY <1>1 DEF Created
<1>3. Answers
  BY DEF CreateStep, Answers
<1>4. CASE r.op # "report"
  BY <1>2, <1>3, <1>4, InOrderByOther
<1>5. CASE r.op = "report"
  <2>1. Taken(r)
    BY <1>2 DEF InOrder
  <2>2. /\ suites[r.suite] = r.pay[r.job].suite /\ Len(r.made) = r.job - 1
        /\ r.made \in Seq(Nat) /\ r.job \in Nat \ {0}
    <3>1. /\ suites[r.suite] = r.pay[r.job].suite /\ Len(r.made) = r.job - 1
          /\ r.made \in Seq(Nat) /\ r.job \in Nat
      BY <1>2, <1>5, <2>1 DEF Taken, Request
    <3>2. r.pay \in Payloads /\ r.job \in 1..Len(r.pay)
      BY <1>2, <1>5 DEF Route
    <3>3. QED  BY <3>1, <3>2, ReportIsLong
  <2>3. /\ Len(s.made) = r.job /\ s.made[r.job] = n
        /\ \A j \in 1..Len(r.made) : s.made[j] = r.made[j]
    BY <1>2, <1>5, <2>2, AppendProperties
  <2>4. suites' = suites /\ runs'[n].suite = r.suite
    <3>1. suites' = suites
      BY DEF CreateStep
    <3>2. QED  BY <1>2, <3>1 DEF NewRow
  <2>5. ASSUME NEW j \in 1..Len(s.made)
        PROVE  /\ s.made[j] \in Runs'
               /\ suites'[runs'[s.made[j]].suite] = s.pay[j].suite
               /\ j < s.job => runs'[s.made[j]].summary # NoSummary
    <3>1. CASE j = r.job
      BY <1>2, <2>2, <2>3, <2>4, <3>1
    <3>2. CASE j # r.job
      <4>1. j \in 1..Len(r.made) /\ j < r.job
        BY <2>2, <2>3, <2>5, <3>2
      <4>2. /\ r.made[j] \in Runs /\ suites[runs[r.made[j]].suite] = r.pay[j].suite
            /\ runs[r.made[j]].summary # NoSummary
        BY <1>5, <2>1, <4>1 DEF Taken
      <4>3. QED  BY <1>2, <2>3, <4>1, <4>2, RowStays DEF Typed
    <3>3. QED  BY <3>1, <3>2
  <2>6. Taken(s)'
    BY <1>2, <1>5, <2>3, <2>5 DEF Taken, Taking
  <2>7. QED  BY <1>2, <1>3, <2>6, InOrderByRequest
<1>6. QED  BY <1>4, <1>5

LEMMA InOrderTrigger ==
    ASSUME Typed, InOrder, NEW p \in Procs, FindStep(p) \/ NumberStep(p) \/ PushStep(p)
    PROVE  InOrder'
<1>1. PICK r \in Request : r = req[p] /\ Route(r) /\ Sound(r)
  BY RequestOf
<1>2. UNCHANGED tables /\ from' = from /\ answers' = answers
  BY DEF FindStep, NumberStep, Numbered, PushStep, tables
<1>3. Grows /\ Answers
  BY <1>2, SameGrows DEF Answers, tables
<1>4. CASE NextSuite(p) /\ r.at \in {"find", "push"}
  BY <1>1, <1>3, <1>4, InOrderByPush DEF Route
<1>5. CASE FindStep(p) /\ GoOn(p)
  <2>1. r.op # "report"
    BY <1>1, <1>5 DEF FindStep, Route
  <2>2. PICK s \in Request : req' = [req EXCEPT ![p] = s] /\ s.op = r.op
    BY <1>1, <1>5, GoOnFacts
  <2>3. QED  BY <1>3, <2>1, <2>2, InOrderByOther
<1>6. CASE NumberStep(p)
  <2>1. PICK s \in Request :
          /\ r.at = "number" /\ req' = [req EXCEPT ![p] = s] /\ s.at = "create"
          /\ s.op = r.op /\ s.suite = r.suite /\ s.pay = r.pay /\ s.job = r.job /\ s.made = r.made
    BY <1>1, <1>6, NumberFacts
  <2>2. Taken(r)'
    BY <1>1, <1>3, TakenStays DEF InOrder, Typed
  <2>3. Taken(s)'
    BY <2>1, <2>2 DEF Taken, Taking
  <2>4. QED  BY <1>3, <2>1, <2>3, InOrderByRequest
<1>7. QED  BY <1>1, <1>4, <1>5, <1>6 DEF FindStep, PushStep

(* A report on its way into the tables.                                    *)
LEMMA InOrderSuite ==
    ASSUME Typed, InOrder, NEW p \in Procs, SuiteStep(p)
    PROVE  InOrder'
<1>1. PICK r \in Request, s \in Request, name \in Names, n \in Nat \ {0} :
        /\ r = req[p] /\ Route(r) /\ Sound(r) /\ r.at = "suite" /\ r.op = "report"
        /\ name = r.pay[r.job].suite
        /\ n = IF r.known[name] # 0 THEN r.known[name] ELSE Len(suites) + 1
        /\ \A k \in DOMAIN suites : k \in DOMAIN suites' /\ suites'[k] = suites[k]
        /\ r.known[name] = 0 => n \in DOMAIN suites' /\ suites'[n] = name
        /\ req' = [req EXCEPT ![p] = s] /\ s.at = "number" /\ s.suite = n
        /\ s.op = r.op /\ s.pay = r.pay /\ s.job = r.job /\ s.made = r.made
  BY SuiteFacts
<1>2. UNCHANGED <<runs, from, answers>>
  BY DEF SuiteStep
<1>3. Grows /\ Answers
  <2>1. Grows
    <3>1. \A k \in DOMAIN suites : k \in DOMAIN suites' /\ suites'[k] = suites[k]
      BY <1>1
    <3>2. QED  BY <1>2, <3>1, Indices DEF Indexed, Typed, Grows, Runs
  <2>2. Answers
    BY <1>2 DEF Answers
  <2>3. QED  BY <2>1, <2>2
<1>4. suites'[n] = name
  <2>1. r.known[name] # 0 => r.known[name] \in DOMAIN suites /\ suites[r.known[name]] = name
    BY <1>1 DEF Sound, Looked
  <2>2. QED  BY <1>1, <2>1
<1>5. Taken(r)'
  BY <1>1, <1>3, TakenStays DEF InOrder, Typed
<1>6. Taken(s)'
  BY <1>1, <1>4, <1>5 DEF Taken, Taking
<1>7. QED  BY <1>1, <1>3, <1>6, InOrderByRequest

LEMMA InOrderRows ==
    ASSUME Typed, InOrder, NEW p \in Procs, GroupsStep(p) \/ CasesStep(p)
    PROVE  InOrder'
<1>1. PICK r \in Request : r = req[p] /\ Route(r) /\ Sound(r)
  BY RequestOf
<1>2. Grows
  BY SameGrows DEF GroupsStep, CasesStep
<1>3. ASSUME NEW at \in {"cases", "finish"}, Goto(p, at), r.at \in Taking, answers' = answers
      PROVE  InOrder'
  <2>1. PICK s : s = [r EXCEPT !.at = at]
    OBVIOUS
  <2>2. /\ s \in Request /\ s.at = at /\ s.op = r.op /\ s.suite = r.suite
        /\ s.run = r.run /\ s.pay = r.pay /\ s.job = r.job /\ s.made = r.made
    BY <1>3, <2>1, GotoFacts DEF Taking
  <2>3. req' = [req EXCEPT ![p] = s]
    BY <1>1, <1>3, <2>1 DEF Goto, Typed
  <2>4. Taken(r)'
    BY <1>1, <1>2, TakenStays DEF InOrder, Typed
  <2>5. Taken(s)'
    BY <1>3, <2>2, <2>4 DEF Taken, Taking
  <2>6. Answers
    BY <1>3 DEF Answers
  <2>7. QED  BY <1>2, <2>2, <2>3, <2>5, <2>6, InOrderByRequest
<1>4. CASE Fail(p)
  BY <1>2, <1>4, InOrderByFail
<1>5. QED  BY <1>1, <1>3, <1>4 DEF GroupsStep, CasesStep, Taking

(* The last job's run is finished: the report is answered.                 *)
LEMMA InOrderFinish ==
    ASSUME Typed, InOrder, NEW p \in Procs, FinishStep(p)
    PROVE  InOrder'
<1>1. PICK r \in Request :
        /\ r = req[p] /\ Route(r) /\ Sound(r) /\ r.at = "finish" /\ r.run \in Runs
        /\ Tables' /\ Grows /\ runs'[r.run].summary # NoSummary
        /\ \/ Finish(p)
           \/ \E s \in Request :
                 /\ r.op = "report" /\ req' = [req EXCEPT ![p] = s] /\ s.at = "suite"
                 /\ s.job = r.job + 1 /\ s.op = r.op /\ s.pay = r.pay /\ s.made = r.made
  BY FinishFacts
<1>2. Taken(r) /\ Taken(r)'
  BY <1>1, TakenStays DEF InOrder, Typed
<1>3. ASSUME r.op = "report"
      PROVE  /\ r.made \in Seq(Nat) /\ Len(r.made) = r.job /\ r.job \in Nat
             /\ \A j \in 1..r.job : /\ r.made[j] \in Runs'
                                    /\ suites'[runs'[r.made[j]].suite] = r.pay[j].suite
                                    /\ runs'[r.made[j]].summary # NoSummary
  <2>1. r.made \in Seq(Nat) /\ r.job \in Nat
    BY DEF Request
  <2>2. /\ Len(r.made) = r.job /\ r.run = r.made[r.job]
        /\ \A j \in 1..Len(r.made) : /\ r.made[j] \in Runs'
                                     /\ suites'[runs'[r.made[j]].suite] = r.pay[j].suite
                                     /\ j < r.job => runs'[r.made[j]].summary # NoSummary
    BY <1>1, <1>2, <1>3 DEF Taken, Taking
  <2>3. QED  BY <1>1, <2>1, <2>2
<1>4. ASSUME NEW a \in answers' PROVE a \in answers \/ Answered(a)'
  <2>1. CASE answers' = answers
    BY <1>4, <2>1
  <2>2. CASE /\ r.op = "report" /\ r.job = Len(r.pay)
             /\ answers' = answers \cup {Answer(p, TRUE)}
    <3>1. SUFFICES ASSUME a = Answer(p, TRUE) PROVE Answered(a)'
      BY <1>4, <2>2
    <3>2. DOMAIN a = {"pay", "runs", "ok"} /\ a.pay = r.pay /\ a.runs = r.made /\ a.ok = TRUE
      BY <1>1, <3>1 DEF Answer
    <3>3. QED  BY <1>3, <2>2, <3>2 DEF Answered
  <2>3. QED  BY <1>1, <2>1, <2>2 DEF FinishStep
<1>5. Answers
  BY <1>4 DEF Answers
<1>6. CASE Finish(p)
  BY <1>1, <1>5, <1>6, InOrderByFinish
<1>7. ASSUME NEW s \in Request, r.op = "report", req' = [req EXCEPT ![p] = s], s.at = "suite",
             s.job = r.job + 1, s.op = r.op, s.pay = r.pay, s.made = r.made
      PROVE  InOrder'
  <2>1. Taken(s)'
    BY <1>3, <1>7 DEF Taken, Taking
  <2>2. QED  BY <1>1, <1>5, <1>7, <2>1, InOrderByRequest
<1>8. QED  BY <1>1, <1>6, <1>7

LEMMA InOrderCrash ==
    ASSUME Typed, InOrder, Crash
    PROVE  InOrder'
<1>1. UNCHANGED tables /\ from' = from
  BY DEF Crash
<1>2. Grows
  BY <1>1, SameGrows DEF tables
<1>3. Answers
  BY <1>2, AnswerIsTrue DEF Crash, Answers
<1>4. ASSUME NEW a \in answers' PROVE Answered(a)'
  BY <1>2, <1>3, <1>4, AnsweredStays DEF Answers, InOrder, Typed
<1>5. ASSUME NEW q \in Procs PROVE Taken(req[q])'
  <2>1. PICK g \in Request : g = req'[q] /\ g = Idle
    BY IdleFacts DEF Crash
  <2>2. Taken(g)'
    BY <2>1, IdleFacts DEF Taken
  <2>3. QED  BY <2>1, <2>2
<1>6. QED  BY <1>4, <1>5 DEF InOrder

LEMMA InOrderStep ==
    ASSUME Typed, InOrder, [RecordNext]_vars
    PROVE  InOrder'
<1>1. ASSUME NEW p \in Procs, ConcludeStep(p) PROVE InOrder'
  <2>1. Grows /\ Finish(p)
    BY <1>1, ConcludeFacts
  <2>2. Answers
    BY <1>1 DEF ConcludeStep, Answers
  <2>3. QED  BY <2>1, <2>2, InOrderByFinish
<1>2. ASSUME NEW p \in Procs, Fault(p) PROVE InOrder'
  BY <1>2, SameGrows, InOrderByFail DEF Fault, tables
<1>3. ASSUME NEW p \in Procs, Step(p) PROVE InOrder'
  BY <1>1, <1>2, <1>3, InOrderStart, InOrderTrigger, InOrderCreate, InOrderSuite, InOrderRows,
     InOrderFinish DEF Step
<1>4. ASSUME NEW r \in Runs, Dispatch(r) \/ Cancel(r) \/ Forget(r) PROVE InOrder'
  <2>1. "running" \in Statuses /\ "cancelled" \in Statuses
    BY DEF Statuses
  <2>2. Grows
    BY <1>4, <2>1, StatusTables, SameGrows DEF Dispatch, Cancel, Forget, Typed, tables
  <2>3. req' = req /\ Answers
    BY <1>4 DEF Dispatch, Cancel, Forget, Answers
  <2>4. QED  BY <2>2, <2>3, InOrderByNone
<1>5. CASE UNCHANGED vars
  BY <1>5, SameGrows, InOrderByNone DEF vars, tables, Answers
<1>6. QED  BY <1>3, <1>4, <1>5, InOrderCrash DEF RecordNext

LEMMA InOrderInit == RecordInit => InOrder
<1> SUFFICES ASSUME RecordInit PROVE InOrder
  OBVIOUS
<1>1. ASSUME NEW q \in Procs PROVE Taken(req[q])
  <2>1. PICK g \in Request : g = req[q] /\ g = Idle
    BY IdleFacts DEF RecordInit
  <2>2. Taken(g)
    BY <2>1, IdleFacts DEF Taken
  <2>3. QED  BY <2>1, <2>2
<1>2. QED  BY <1>1 DEF RecordInit, InOrder

LEMMA InOrderAlways == RecordSpec => []InOrder
<1>1. Typed /\ InOrder /\ [RecordNext]_vars => InOrder'
  BY InOrderStep
<1>2. QED  BY <1>1, InOrderInit, TypedAlways, PTL DEF RecordSpec

(* A report is taken in from its first job on, whatever fails, stops or    *)
(* runs beside it: the runs of an answer belong to its first jobs and are  *)
(* finished but the last, and an answer that says the report was taken in  *)
(* has a finished run for every job.                                       *)
THEOREM ReportsArePrefixes == RecordSpec => []ReportIsPrefix
<1>1. InOrder => ReportIsPrefix
  BY DEF InOrder, Answered, ReportIsPrefix
<1>2. QED  BY <1>1, InOrderAlways, PTL

-----------------------------------------------------------------------------
(* A report has its run for itself until it is finished.                   *)
Reports(q) == req[q].op = "report" /\ req[q].at \in Taking

LEMMA RunOfReport ==
    ASSUME Typed, InOrder, NEW p \in Procs, Reports(p)
    PROVE  /\ req[p].run \in Runs /\ req[p].pay \in Payloads
           /\ req[p].job \in DOMAIN req[p].pay /\ req[p].job # 0
           /\ from[req[p].run] = [pay |-> req[p].pay, job |-> req[p].job]
<1>1. PICK r \in Request : r = req[p] /\ Route(r) /\ Sound(r)
  BY RequestOf
<1>2. Taken(r) /\ r.op = "report" /\ r.at \in Taking
  BY <1>1 DEF InOrder, Reports
<1>3. r.run \in Runs /\ r.pay \in Payloads /\ r.job \in 1..Len(r.pay) /\ r.job # 0
  BY <1>1, <1>2 DEF Route, Sound
<1>4. QED  BY <1>1, <1>2, <1>3, ReportIsLong DEF Taken

(* Nobody else's rows go to its run: the runs of the callback and of the   *)
(* poller are not those of a report.                                       *)
LEMMA RunIsOwn ==
    ASSUME Typed, InOrder, Apart, NEW p \in Procs, Reports(p), NEW q \in Procs, q # p,
           req[q].at \in Taking
    PROVE  req[q].run # req[p].run
<1>1. CASE req[q].op = "report"
  BY <1>1 DEF Apart, Reports
<1>2. CASE req[q].op # "report"
  <2>1. PICK r \in Request : r = req[q] /\ Route(r) /\ Sound(r)
    BY RequestOf
  <2>2. from[r.run].job = 0
    BY <1>2, <2>1 DEF Route, Sound
  <2>3. from[req[p].run].job # 0
    <3>1. from[req[p].run] = [pay |-> req[p].pay, job |-> req[p].job] /\ req[p].job # 0
      BY RunOfReport
    <3>2. QED  BY <3>1
  <2>4. QED  BY <2>1, <2>2, <2>3
<1>3. QED  BY <1>1, <1>2

(* The request that goes on keeps its run or has none.                     *)
LEMMA ApartByRequest ==
    ASSUME Typed, Apart, NEW p \in Procs, NEW s \in Request, req' = [req EXCEPT ![p] = s],
           (s.op = "report" /\ s.at \in Taking) =>
               Reports(p) /\ s.run = req[p].run /\ s.at # "groups",
           \A q \in Procs : (q # p /\ Reports(q)) => groups'[req[q].run] = groups[req[q].run]
    PROVE  Apart'
<1>1. \A q \in Procs : req'[q] = IF q = p THEN s ELSE req[q]
  BY OneRequest
<1>2. ASSUME NEW q \in Procs, req'[q].op = "report", req'[q].at \in Taking
      PROVE  Reports(q) /\ req'[q].run = req[q].run
  BY <1>1, <1>2 DEF Reports
<1>3. ASSUME NEW q \in Procs, req'[q].op = "report", req'[q].at = "groups"
      PROVE  groups'[req'[q].run] = <<>>
  <2>1. q # p /\ req'[q] = req[q]
    BY <1>1, <1>3 DEF Taking
  <2>2. groups[req[q].run] = <<>> /\ Reports(q)
    BY <1>3, <2>1 DEF Apart, Reports, Taking
  <2>3. QED  BY <2>1, <2>2
<1>4. ASSUME NEW q \in Procs, req'[q].op = "report", req'[q].at \in Taking,
             NEW x \in Procs, x # q, req'[x].op = "report", req'[x].at \in Taking
      PROVE  req'[x].run # req'[q].run
  BY <1>2, <1>4 DEF Apart, Reports
<1>5. QED  BY <1>3, <1>4 DEF Apart

LEMMA ApartByGroups ==
    ASSUME Typed, InOrder, Apart, NEW p \in Procs, GroupsStep(p)
    PROVE  Apart'
<1>1. PICK r \in Request : r = req[p] /\ Route(r) /\ Sound(r)
  BY RequestOf
<1>2. r.at = "groups" /\ r.at \in Taking /\ r.run \in Runs
  BY <1>1 DEF GroupsStep, Sound, Taking
<1>3. CASE Goto(p, "cases") /\ groups' = [groups EXCEPT ![req[p].run] = @ \o Batch(p)]
  <2>1. PICK s : s = [r EXCEPT !.at = "cases"]
    OBVIOUS
  <2>2. s \in Request /\ s.at = "cases" /\ s.op = r.op /\ s.run = r.run
    BY <2>1, GotoFacts DEF Taking
  <2>3. req' = [req EXCEPT ![p] = s]
    BY <1>1, <1>3, <2>1 DEF Goto, Typed
  <2>4. ASSUME NEW q \in Procs, q # p, Reports(q)
        PROVE  groups'[req[q].run] = groups[req[q].run]
    <3>1. req[p].run # req[q].run
      BY <1>1, <1>2, <2>4, RunIsOwn
    <3>2. QED  BY <1>3, <3>1
  <2>5. QED  BY <1>1, <1>2, <2>2, <2>3, <2>4, ApartByRequest DEF Reports
<1>4. CASE Fail(p) /\ groups' = groups
  <2>1. Finish(p) \/ (Goto(p, "conclude") /\ r.op # "report")
    <3>1. r.op \in {"report", "callback", "completion"}
      BY <1>1, <1>2 DEF Route
    <3>2. QED  BY <1>1, <1>2, <1>4, <3>1 DEF Fail
  <2>2. CASE Finish(p)
    BY <1>4, <2>2, IdleFacts, ApartByRequest DEF Finish
  <2>3. CASE Goto(p, "conclude") /\ r.op # "report"
    <3>1. PICK s : s = [r EXCEPT !.at = "conclude"]
      OBVIOUS
    <3>2. s \in Request /\ s.op = r.op
      BY <3>1, GotoFacts DEF Taking
    <3>3. req' = [req EXCEPT ![p] = s]
      BY <1>1, <2>3, <3>1 DEF Goto, Typed
    <3>4. QED  BY <1>4, <2>3, <3>2, <3>3, ApartByRequest
  <2>4. QED  BY <2>1, <2>2, <2>3
<1>5. QED  BY <1>3, <1>4 DEF GroupsStep

LEMMA ApartByCreate ==
    ASSUME Typed, InOrder, Apart, NEW p \in Procs, CreateStep(p)
    PROVE  Apart'
<1>1. PICK r \in Request, s \in Request, n \in Nat : Created(p, r, s, n)
  BY CreateFacts
<1>2. /\ r = req[p] /\ n \notin Runs /\ n \in Runs'
      /\ \A k \in Runs' : groups'[k] = IF k \in Runs THEN groups[k] ELSE <<>>
      /\ Grows /\ req' = [req EXCEPT ![p] = s] /\ s.run = n
  BY <1>1 DEF Created
<1>3. \A q \in Procs : req'[q] = IF q = p THEN s ELSE req[q]
  BY <1>2, OneRequest
<1>4. ASSUME NEW q \in Procs, q # p, req'[q].op = "report", req'[q].at \in Taking
      PROVE  /\ req'[q] = req[q] /\ Reports(q) /\ req'[q].run # n
             /\ groups'[req'[q].run] = groups[req[q].run]
  <2>1. req'[q] = req[q] /\ Reports(q)
    BY <1>3, <1>4 DEF Reports
  <2>2. req[q].run \in Runs /\ req[q].run \in Runs'
    BY <2>1, RunOfReport, <1>2 DEF Grows, Runs
  <2>3. QED  BY <1>2, <2>1, <2>2
<1>5. groups'[n] = <<>> /\ req'[p].run = n
  BY <1>2, <1>3
<1>6. ASSUME NEW q \in Procs, req'[q].op = "report", req'[q].at = "groups"
      PROVE  groups'[req'[q].run] = <<>>
  <2>1. CASE q = p
    BY <1>5, <2>1
  <2>2. CASE q # p
    BY <1>4, <1>6, <2>2 DEF Apart, Taking
  <2>3. QED  BY <2>1, <2>2
<1>7. ASSUME NEW q \in Procs, req'[q].op = "report", req'[q].at \in Taking,
             NEW x \in Procs, x # q, req'[x].op = "report", req'[x].at \in Taking
      PROVE  req'[x].run # req'[q].run
  <2>1. CASE q # p /\ x # p
    BY <1>4, <1>7, <2>1 DEF Apart, Reports
  <2>2. CASE q = p
    BY <1>4, <1>5, <1>7, <2>2
  <2>3. CASE x = p
    BY <1>4, <1>5, <1>7, <2>3
  <2>4. QED  BY <2>1, <2>2, <2>3
<1>8. QED  BY <1>6, <1>7 DEF Apart

(* A step that leaves the groups alone and lets one request go on.         *)
LEMMA ApartByMove ==
    ASSUME Typed, Typed', Apart, groups' = groups, NEW p \in Procs, NEW s,
           req' = [req EXCEPT ![p] = s],
           (s.op = "report" /\ s.at \in Taking) =>
               Reports(p) /\ s.run = req[p].run /\ s.at # "groups"
    PROVE  Apart'
<1>1. s = req'[p] /\ s \in Request
  BY DEF Typed
<1>2. QED  BY <1>1, ApartByRequest

(* Steps after which a request is not taking a report in.                  *)
LEMMA FailLeaves ==
    ASSUME Typed, Typed', NEW p \in Procs, Fail(p) \/ NextSuite(p)
    PROVE  \E s \in Request : req' = [req EXCEPT ![p] = s] /\ s.at \notin Taking
<1>1. PICK r \in Request : r = req[p]
  BY RequestOf
<1>2. CASE Finish(p)
  BY <1>2, IdleFacts DEF Finish, Taking
<1>3. CASE Goto(p, "conclude")
  <2>1. PICK s : s = [r EXCEPT !.at = "conclude"]
    OBVIOUS
  <2>2. s \in Request /\ s.at = "conclude"
    BY <2>1, GotoFacts DEF Taking
  <2>3. req' = [req EXCEPT ![p] = s]
    BY <1>1, <1>3, <2>1 DEF Goto, Typed
  <2>4. QED  BY <2>2, <2>3 DEF Taking
<1>4. CASE NextSuite(p) /\ ~Finish(p)
  <2>1. PICK h, t : h = Head(r.rest) /\ t = Tail(r.rest)
    OBVIOUS
  <2>2. PICK s : s = [r EXCEPT !.at = "find", !.suite = h, !.rest = t, !.number = 0, !.run = 0,
                               !.open = {}, !.saw = {}]
    OBVIOUS
  <2>3. s.at = "find"
    BY <2>2 DEF Request
  <2>4. req' = [req EXCEPT ![p] = s]
    BY <1>1, <1>4, <2>1, <2>2 DEF NextSuite, Typed
  <2>5. s = req'[p] /\ s \in Request
    BY <2>4 DEF Typed
  <2>6. QED  BY <2>3, <2>4, <2>5 DEF Taking
<1>5. QED  BY <1>2, <1>3, <1>4 DEF Fail

Quiet(p) ==
    \/ StartTrigger(p) \/ StartRunAll(p) \/ StartRerun(p) \/ StartReport(p)
    \/ FindStep(p) \/ NumberStep(p) \/ SuiteStep(p) \/ PushStep(p)
    \/ ConcludeStep(p) \/ Fault(p)

LEMMA QuietLeaves ==
    ASSUME Typed, Typed', NEW p \in Procs, Quiet(p)
    PROVE  /\ \E s \in Request : req' = [req EXCEPT ![p] = s] /\ s.at \notin Taking
           /\ UNCHANGED <<groups, cases, from>>
<1>1. CASE StartTrigger(p) \/ StartRunAll(p) \/ StartRerun(p)
  <2>1. PICK s \in Request : Begin(p, s) /\ s.op \in {"trigger", "runAll", "rerun"}
    BY <1>1, StartRunFacts
  <2>2. req' = [req EXCEPT ![p] = s] /\ s = req'[p]
    BY <2>1 DEF Begin, Typed
  <2>3. Route(req'[p])
    BY DEF Typed, Route
  <2>4. s.at \notin Taking
    BY <2>1, <2>2, <2>3 DEF Route
  <2>5. UNCHANGED <<groups, cases, from>>
    BY <1>1, <2>1 DEF StartTrigger, StartRunAll, StartRerun, Begin, tables
  <2>6. QED  BY <2>2, <2>4, <2>5
<1>2. CASE StartReport(p)
  <2>1. PICK s \in Request : Begin(p, s) /\ s.at = "suite" /\ from' = from
    BY <1>2, StartReportFacts
  <2>2. QED  BY <2>1 DEF Begin, tables, Taking
<1>3. CASE FindStep(p)
  <2>1. UNCHANGED <<groups, cases, from>>
    BY <1>3 DEF FindStep, tables
  <2>2. CASE GoOn(p)
    <3>1. PICK s \in Request : req' = [req EXCEPT ![p] = s] /\ s.at = "number"
      BY <2>2, GoOnFacts
    <3>2. QED  BY <2>1, <3>1 DEF Taking
  <2>3. QED  BY <1>3, <2>1, <2>2, FailLeaves DEF FindStep
<1>4. CASE NumberStep(p) \/ SuiteStep(p)
  <2>1. UNCHANGED <<groups, cases, from>>
    BY <1>4 DEF NumberStep, Numbered, SuiteStep, tables
  <2>2. PICK s \in Request : req' = [req EXCEPT ![p] = s] /\ s.at \in {"create", "number"}
    BY <1>4, NumberFacts, SuiteFacts
  <2>3. QED  BY <2>1, <2>2 DEF Taking
<1>5. CASE PushStep(p)
  BY <1>5, FailLeaves DEF PushStep, tables
<1>6. CASE ConcludeStep(p)
  BY <1>6, IdleFacts DEF ConcludeStep, Finish, Taking
<1>7. CASE Fault(p)
  BY <1>7, FailLeaves DEF Fault, tables
<1>8. QED  BY <1>1, <1>2, <1>3, <1>4, <1>5, <1>6, <1>7 DEF Quiet

LEMMA ApartStep ==
    ASSUME Typed, Typed', InOrder, Apart, [RecordNext]_vars
    PROVE  Apart'
<1>1. ASSUME NEW p \in Procs, Quiet(p) PROVE Apart'
  BY <1>1, QuietLeaves, ApartByMove
<1>2. ASSUME NEW p \in Procs, StartCallback(p) \/ StartCompletion(p) PROVE Apart'
  <2>1. PICK s \in Request : Begin(p, s) /\ s.op \in {"callback", "completion"}
    BY <1>2, StartVerdictFacts
  <2>2. groups' = groups /\ req' = [req EXCEPT ![p] = s]
    BY <2>1 DEF Begin, tables
  <2>3. QED  BY <2>1, <2>2, ApartByMove
<1>3. ASSUME NEW p \in Procs, CasesStep(p) PROVE Apart'
  <2>1. PICK r \in Request : r = req[p] /\ r.at = "cases"
    BY <1>3, RequestOf DEF CasesStep
  <2>2. PICK s : s = [r EXCEPT !.at = "finish"]
    OBVIOUS
  <2>3. s \in Request /\ s.at = "finish" /\ s.op = r.op /\ s.run = r.run
    BY <2>2, GotoFacts DEF Taking
  <2>4. req' = [req EXCEPT ![p] = s] /\ groups' = groups
    BY <1>3, <2>1, <2>2 DEF CasesStep, Goto, Typed
  <2>5. QED  BY <2>1, <2>3, <2>4, ApartByMove DEF Reports, Taking
<1>4. ASSUME NEW p \in Procs, FinishStep(p) PROVE Apart'
  <2>1. groups' = groups
    BY <1>4 DEF FinishStep
  <2>2. \/ Finish(p)
        \/ \E s \in Request : req' = [req EXCEPT ![p] = s] /\ s.at = "suite"
    BY <1>4, FinishFacts
  <2>3. QED  BY <2>1, <2>2, IdleFacts, ApartByMove DEF Finish, Taking
<1>5. ASSUME NEW p \in Procs, Step(p) PROVE Apart'
  BY <1>1, <1>2, <1>3, <1>4, <1>5, ApartByCreate, ApartByGroups DEF Step, Quiet
<1>6. CASE Crash
  <2>1. \A q \in Procs : req'[q].op = "none"
    BY <1>6, IdleFacts DEF Crash
  <2>2. QED  BY <2>1 DEF Apart
<1>7. ASSUME NEW r \in Runs, Dispatch(r) \/ Cancel(r) \/ Forget(r) PROVE Apart'
  BY <1>7 DEF Dispatch, Cancel, Forget, Apart, tables
<1>8. CASE UNCHANGED vars
  BY <1>8 DEF vars, tables, Apart
<1>9. QED  BY <1>5, <1>6, <1>7, <1>8 DEF RecordNext

LEMMA ApartAlways == RecordSpec => []Apart
<1>1. RecordInit => Apart
  BY IdleFacts DEF RecordInit, Apart
<1>2. Typed /\ Typed' /\ InOrder /\ Apart /\ [RecordNext]_vars => Apart'
  BY ApartStep
<1>3. QED  BY <1>1, <1>2, TypedAlways, InOrderAlways, PTL DEF RecordSpec

-----------------------------------------------------------------------------
(* Who owns a run.                                                         *)
Left(k) == k \notin jobs \cup hurt

(* One request goes on: it gives a run up only to jobs, hurt or a verdict. *)
LEMMA OwnedByRequest ==
    ASSUME Typed, Owned, NEW p \in Procs, NEW s \in Request, req' = [req EXCEPT ![p] = s],
           \A k \in Runs' :
              (k \notin jobs' \cup hurt' /\ runs'[k].status \in {"queued", "running"}) =>
                 /\ k \in Runs /\ Left(k) /\ runs'[k].status = runs[k].status
                 /\ Repeats(from[k]) => Repeats(from'[k])
                 /\ (runs[k].status = "queued" /\ Pushes(p, k)) => s.run = k /\ s.at = "push"
                 /\ (runs[k].status = "running" /\ Takes(p, k)) =>
                       \/ Repeats(from[k])
                       \/ s.op = "report" /\ s.run = k /\ s.at \in Taking
    PROVE  Owned'
<1>1. \A q \in Procs : req'[q] = IF q = p THEN s ELSE req[q]
  BY OneRequest
<1>2. ASSUME NEW k \in Runs', k \notin jobs' \cup hurt', runs'[k].status = "queued"
      PROVE  \E q \in Procs : req'[q].run = k /\ req'[q].at = "push"
  <2>1. /\ k \in Runs \ (jobs \cup hurt) /\ runs[k].status = "queued"
        /\ Pushes(p, k) => s.run = k /\ s.at = "push"
    BY <1>2 DEF Left
  <2>2. PICK q \in Procs : Pushes(q, k)
    BY <2>1 DEF Owned
  <2>3. CASE q = p
    BY <1>1, <2>1, <2>2, <2>3
  <2>4. CASE q # p
    BY <1>1, <2>2, <2>4 DEF Pushes
  <2>5. QED  BY <2>3, <2>4
<1>3. ASSUME NEW k \in Runs', k \notin jobs' \cup hurt', runs'[k].status = "running"
      PROVE  \/ Repeats(from'[k])
             \/ \E q \in Procs : req'[q].op = "report" /\ req'[q].run = k /\ req'[q].at \in Taking
  <2>1. /\ k \in Runs \ (jobs \cup hurt) /\ runs[k].status = "running"
        /\ Repeats(from[k]) => Repeats(from'[k])
        /\ Takes(p, k) => Repeats(from[k]) \/ (s.op = "report" /\ s.run = k /\ s.at \in Taking)
    BY <1>3 DEF Left
  <2>2. CASE Repeats(from[k])
    BY <2>1, <2>2
  <2>3. CASE ~Repeats(from[k])
    <3>1. PICK q \in Procs : Takes(q, k)
      BY <2>1, <2>3 DEF Owned
    <3>2. CASE q = p
      BY <1>1, <2>1, <2>3, <3>1, <3>2
    <3>3. CASE q # p
      BY <1>1, <3>1, <3>3 DEF Takes
    <3>4. QED  BY <3>2, <3>3
  <2>4. QED  BY <2>2, <2>3
<1>4. QED  BY <1>2, <1>3 DEF Owned, Pushes, Takes

(* A step of a request that owns no run, and leaves the runs alone.        *)
LEMMA OwnedByOther ==
    ASSUME Typed, Typed', Owned, NEW p \in Procs, NEW s, req' = [req EXCEPT ![p] = s],
           runs' = runs, hurt' = hurt, jobs \subseteq jobs',
           \A k \in Runs : Repeats(from[k]) => Repeats(from'[k]),
           req[p].at # "push", ~Reports(p)
    PROVE  Owned'
<1>1. s \in Request
  BY DEF Typed
<1>2. Runs' = Runs
  BY DEF Runs
<1>3. \A k \in Runs : ~Pushes(p, k) /\ ~Takes(p, k)
  BY DEF Pushes, Takes, Reports
<1>4. QED  BY <1>1, <1>2, <1>3, OwnedByRequest DEF Left

LEMMA NothingRepeats ==
    ASSUME NEW f, f.job = 0, f.pay = NoReport
    PROVE  ~Repeats(f)
  BY DEF Repeats, Jobs, NoReport

LEMMA SameRepeats ==
    ASSUME NEW f, NEW g, f.pay = g.pay, f.job = g.job, Repeats(f)
    PROVE  Repeats(g)
<1>1. Jobs(f) = Jobs(g)
  BY DEF Jobs
<1>2. Tests(f) = Tests(g)
  BY <1>1, Zenon DEF Tests
<1>3. PICK j \in Jobs(g), t \in Tests(g), u \in Tests(g) :
        t # u /\ t[1] = j /\ u[1] = j /\ f.pay[j].tests[t[2]].id = f.pay[j].tests[u[2]].id
  BY <1>1, <1>2, Zenon DEF Repeats
<1>4. QED  BY <1>3 DEF Repeats

LEMMA OwnedStart ==
    ASSUME Typed, Typed', Owned, NEW p \in Procs,
           \/ StartTrigger(p) \/ StartRunAll(p) \/ StartRerun(p) \/ StartReport(p)
           \/ StartCallback(p) \/ StartCompletion(p)
    PROVE  Owned'
<1>1. PICK s \in Request :
        /\ Begin(p, s)
        /\ from' = from \/ (HasWorkflow(s.run) /\ Reported(s.run, s.pay))
  BY StartRunFacts, StartReportFacts, StartVerdictFacts
<1>2. /\ runs' = runs /\ hurt' = hurt /\ jobs' = jobs /\ req' = [req EXCEPT ![p] = s]
      /\ req[p] = Idle
  BY <1>1 DEF Begin, tables
<1>3. req[p].at # "push" /\ ~Reports(p)
  BY <1>2, IdleFacts DEF Reports
<1>4. ASSUME NEW k \in Runs, Repeats(from[k]) PROVE Repeats(from'[k])
  <2>1. CASE Reported(s.run, s.pay) /\ HasWorkflow(s.run)
    <3>1. k \in DOMAIN from
      BY Indices DEF Indexed, Typed
    <3>2. CASE k # s.run
      BY <1>4, <2>1, <3>2 DEF Reported
    <3>3. CASE k = s.run
      <4>1. from[k].job = 0 /\ from[k].pay \in {NoReport, s.pay}
        BY <2>1, <3>3 DEF HasWorkflow, Reported
      <4>2. from[k].pay # NoReport
        BY <1>4, <4>1, NothingRepeats
      <4>3. from'[k] = [pay |-> s.pay, job |-> 0]
        BY <2>1, <3>1, <3>3 DEF Reported
      <4>4. from'[k].pay = from[k].pay /\ from'[k].job = from[k].job
        BY <4>1, <4>2, <4>3
      <4>5. QED  BY <1>4, <4>4, SameRepeats
    <3>4. QED  BY <3>2, <3>3
  <2>2. QED  BY <1>1, <1>4, <2>1
<1>5. QED  BY <1>2, <1>3, <1>4, OwnedByOther

(* A row is inserted by the request that owns it.                          *)
LEMMA OwnedByCreate ==
    ASSUME Typed, Owned, NEW p \in Procs, CreateStep(p)
    PROVE  Owned'
<1>1. PICK r \in Request, s \in Request, n \in Nat : Created(p, r, s, n)
  BY CreateFacts
<1>2. /\ r = req[p] /\ r.at = "create" /\ n \in Runs' /\ n \notin Runs /\ Runs' = Runs \cup {n}
      /\ \A k \in Runs : runs'[k] = runs[k] /\ from'[k] = from[k]
      /\ runs'[n] = NewRow(r)
      /\ req' = [req EXCEPT ![p] = s] /\ s.run = n
      /\ s.op = r.op /\ s.at = IF r.op = "report" THEN "groups" ELSE "push"
  BY <1>1 DEF Created
<1>3. jobs' = jobs /\ hurt' = hurt
  BY DEF CreateStep
<1>4. \A q \in Procs : req'[q] = IF q = p THEN s ELSE req[q]
  BY <1>2, OneRequest
<1>5. runs'[n].status = IF r.op = "report" THEN "running" ELSE "queued"
  BY <1>2 DEF NewRow
<1>6. \A k \in Runs : ~Pushes(p, k) /\ ~Takes(p, k)
  BY <1>2 DEF Pushes, Takes, Taking
<1>7. ASSUME NEW k \in Runs', k \notin jobs' \cup hurt'
      PROVE  /\ runs'[k].status = "queued" =>
                   \E q \in Procs : req'[q].run = k /\ req'[q].at = "push"
             /\ runs'[k].status = "running" =>
                   \/ Repeats(from'[k])
                   \/ \E q \in Procs : /\ req'[q].op = "report" /\ req'[q].run = k
                                       /\ req'[q].at \in Taking
  <2>1. CASE k = n
    BY <1>2, <1>4, <1>5, <2>1 DEF Taking
  <2>2. CASE k # n
    <3>1. k \in Runs \ (jobs \cup hurt) /\ runs'[k] = runs[k] /\ from'[k] = from[k]
      BY <1>2, <1>3, <1>7, <2>2
    <3>2. /\ runs[k].status = "queued" => \E q \in Procs : Pushes(q, k)
          /\ runs[k].status = "running" => Repeats(from[k]) \/ \E q \in Procs : Takes(q, k)
      BY <3>1 DEF Owned
    <3>3. \A q \in Procs : Pushes(q, k) \/ Takes(q, k) => req'[q] = req[q]
      BY <1>4, <1>6, <3>1
    <3>4. QED  BY <3>1, <3>2, <3>3 DEF Pushes, Takes
  <2>3. QED  BY <2>1, <2>2
<1>8. QED  BY <1>7 DEF Owned, Pushes, Takes

(* The groups of a report clash with none but each other: its run had no   *)
(* groups before, so the report names a test twice.                        *)
LEMMA ClashRepeats ==
    ASSUME Typed, InOrder, Apart, NEW p \in Procs, req[p].op = "report", req[p].at = "groups",
           Clash(req[p].run, Batch(p))
    PROVE  Repeats(from[req[p].run])
<1>1. Reports(p) /\ groups[req[p].run] = <<>>
  BY DEF Reports, Taking, Apart
<1>2. PICK pay, job : pay = req[p].pay /\ job = req[p].job
  OBVIOUS
<1>3. /\ job \in DOMAIN pay /\ job # 0
      /\ from[req[p].run] = [pay |-> pay, job |-> job]
  BY <1>1, <1>2, RunOfReport
<1>4. PICK f : f = [pay |-> pay, job |-> job]
  OBVIOUS
<1>5. f.pay = pay /\ f.job = job
  BY <1>4
<1>6. PICK rows : rows = JobGroups(pay, job)
  OBVIOUS
<1>7. Batch(p) = rows
  BY <1>2, <1>3, <1>6 DEF Batch, GroupsOf
<1>8. /\ DOMAIN rows = DOMAIN pay[job].tests
      /\ \A i \in DOMAIN rows : rows[i].id = <<pay[job].tests[i].id>>
  <2>1. \A id, test, order, ms : Group(id, test, order, ms).id = id
    BY DEF Group
  <2>2. QED  BY <1>6, <2>1 DEF JobGroups
<1>9. PICK i \in DOMAIN rows, j \in DOMAIN rows : i # j /\ rows[i].id = rows[j].id
  BY <1>1, <1>7 DEF Clash, ToSet
<1>10. pay[job].tests[i].id = pay[job].tests[j].id
  BY <1>8, <1>9
<1>11. job \in Jobs(f) /\ <<job, i>> \in Tests(f) /\ <<job, j>> \in Tests(f)
  BY <1>3, <1>5, <1>8, <1>9 DEF Jobs, Tests
<1>12. <<job, i>> # <<job, j>>
  BY <1>9
<1>13. PICK t \in Tests(f), u \in Tests(f) : t = <<job, i>> /\ u = <<job, j>>
  BY <1>11
<1>14. /\ t # u /\ t[1] = job /\ u[1] = job /\ t[2] = i /\ u[2] = j
  BY <1>12, <1>13
<1>15. Repeats(f)
  BY <1>5, <1>10, <1>11, <1>14 DEF Repeats
<1>16. QED  BY <1>3, <1>4, <1>15

(* The batch of groups goes in, or its request fails; only a report that   *)
(* repeats itself loses its run so.                                        *)
LEMMA OwnedByRows ==
    ASSUME Typed, Typed', InOrder, Apart, Owned, NEW p \in Procs, GroupsStep(p) \/ CasesStep(p)
    PROVE  Owned'
<1>1. PICK r \in Request : r = req[p] /\ Route(r) /\ Sound(r)
  BY RequestOf
<1>2. r.at \in {"groups", "cases"} /\ UNCHANGED <<runs, from, hurt>> /\ Runs' = Runs
  BY <1>1 DEF GroupsStep, CasesStep, Runs
<1>3. \A k \in Runs : ~Pushes(p, k)
  BY <1>1, <1>2 DEF Pushes
<1>4. ASSUME NEW at \in {"cases", "finish"}, Goto(p, at), jobs' = jobs
      PROVE  Owned'
  <2>1. PICK s : s = [r EXCEPT !.at = at]
    OBVIOUS
  <2>2. s \in Request /\ s.at = at /\ s.op = r.op /\ s.run = r.run
    BY <1>4, <2>1, GotoFacts DEF Taking
  <2>3. req' = [req EXCEPT ![p] = s]
    BY <1>1, <1>4, <2>1 DEF Goto, Typed
  <2>4. \A k \in Runs : Takes(p, k) => s.op = "report" /\ s.run = k /\ s.at \in Taking
    BY <1>1, <2>2 DEF Takes, Taking
  <2>5. QED  BY <1>2, <1>3, <1>4, <2>2, <2>3, <2>4, OwnedByRequest DEF Left
<1>5. CASE r.at = "groups" /\ Clash(req[p].run, Batch(p)) /\ Fail(p)
  <2>1. PICK s \in Request : req' = [req EXCEPT ![p] = s]
    BY <1>5, FailMoves DEF Moves
  <2>2. jobs' = jobs
    BY <1>1, <1>5 DEF Fail
  <2>3. \A k \in Runs : Takes(p, k) => Repeats(from[k])
    BY <1>1, <1>5, ClashRepeats DEF Takes
  <2>4. QED  BY <1>2, <1>3, <2>1, <2>2, <2>3, OwnedByRequest DEF Left
<1>6. CASE GroupsStep(p)
  BY <1>1, <1>4, <1>5, <1>6 DEF GroupsStep
<1>7. CASE CasesStep(p)
  BY <1>4, <1>7 DEF CasesStep
<1>8. QED  BY <1>6, <1>7

(* The run of the request has its verdict, and nobody needs to own it.     *)
LEMMA OwnedByVerdict ==
    ASSUME Typed, Owned, NEW p \in Procs, FinishStep(p) \/ ConcludeStep(p)
    PROVE  Owned'
<1>1. PICK s \in Request : req' = [req EXCEPT ![p] = s]
  BY FinishFacts, ConcludeFacts, IdleFacts DEF Finish
<1>2. /\ Runs' = Runs /\ from' = from /\ hurt' = hurt
      /\ runs'[req[p].run].status \in {"passed", "failed"}
      /\ \A k \in Runs : k # req[p].run => runs'[k].status = runs[k].status
      /\ jobs' = jobs \/ jobs' = jobs \ {req[p].run}
  <2>1. CASE FinishStep(p)
    BY <2>1, FinishFacts
  <2>2. CASE ConcludeStep(p)
    BY <2>2, ConcludeFacts
  <2>3. QED  BY <2>1, <2>2
<1>3. \A k \in Runs : (k \notin jobs' \cup hurt' /\ runs'[k].status \in {"queued", "running"})
                        => k # req[p].run /\ Left(k)
  BY <1>2 DEF Left
<1>4. \A k \in Runs : k # req[p].run => ~Pushes(p, k) /\ ~Takes(p, k)
  BY DEF Pushes, Takes
<1>5. QED  BY <1>1, <1>2, <1>3, <1>4, OwnedByRequest

LEMMA OwnedByPush ==
    ASSUME Typed, Owned, NEW p \in Procs, PushStep(p)
    PROVE  Owned'
<1>1. PICK r \in Request : r = req[p] /\ Route(r)
  BY RequestOf
<1>2. r.at = "push" /\ r.op \in {"trigger", "runAll", "rerun"} /\ NextSuite(p)
  BY <1>1 DEF PushStep, Route
<1>3. PICK s \in Request : req' = [req EXCEPT ![p] = s]
  BY <1>1, <1>2, NextSuiteMoves DEF Moves
<1>4. UNCHANGED <<runs, from, hurt>> /\ Runs' = Runs /\ jobs' = jobs \cup {req[p].run}
  BY DEF PushStep, tables, Runs
<1>5. \A k \in Runs : k \notin jobs' => ~Pushes(p, k) /\ ~Takes(p, k)
  BY <1>1, <1>2, <1>4 DEF Pushes, Takes, Taking
<1>6. QED  BY <1>3, <1>4, <1>5, OwnedByRequest DEF Left

(* What a fault or a crash leaves behind is hurt.                          *)
LEMMA OwnedByFault ==
    ASSUME Typed, Owned, NEW p \in Procs, Fault(p)
    PROVE  Owned'
<1>1. PICK r \in Request : r = req[p] /\ Route(r)
  BY RequestOf
<1>2. PICK s \in Request : req' = [req EXCEPT ![p] = s]
  BY FailMoves DEF Fault, Moves
<1>3. /\ UNCHANGED <<runs, from>> /\ Runs' = Runs /\ hurt' = hurt \cup ({r.run} \ {0})
      /\ jobs' = jobs \/ jobs' = jobs \ {r.run}
  BY <1>1 DEF Fault, Fail, tables, Runs
<1>4. 0 \notin Runs
  BY Indices DEF Indexed, Typed
<1>5. \A k \in Runs : k \notin jobs' \cup hurt' => Left(k) /\ ~Pushes(p, k) /\ ~Takes(p, k)
  BY <1>1, <1>3, <1>4 DEF Left, Pushes, Takes
<1>6. QED  BY <1>2, <1>3, <1>5, OwnedByRequest

LEMMA OwnedByCrash ==
    ASSUME Typed, Owned, Crash
    PROVE  Owned'
<1>1. UNCHANGED <<runs, from, jobs>> /\ Runs' = Runs
      /\ hurt' = hurt \cup ({req[q].run : q \in Procs} \ {0})
  BY DEF Crash, tables, Runs
<1>2. 0 \notin Runs
  BY Indices DEF Indexed, Typed
<1>3. \A k \in Runs, q \in Procs : k \notin hurt' => ~Pushes(q, k) /\ ~Takes(q, k)
  BY <1>1, <1>2 DEF Pushes, Takes
<1>4. QED  BY <1>1, <1>3 DEF Owned

LEMMA OwnedByJobs ==
    ASSUME Typed, Owned, NEW r \in Runs, Dispatch(r) \/ Cancel(r) \/ Forget(r)
    PROVE  Owned'
<1>1. "running" \in Statuses /\ "cancelled" \in Statuses
  BY DEF Statuses
<1>2. /\ Runs' = Runs /\ UNCHANGED <<from, hurt, req>>
      /\ \A k \in Runs : k # r => runs'[k].status = runs[k].status
      /\ \/ jobs' = jobs /\ r \in jobs
         \/ jobs' = jobs \ {r} /\ runs'[r].status \notin {"queued", "running"}
  <2>1. CASE Dispatch(r)
    <3>1. /\ Runs' = Runs
          /\ \A k \in Runs : runs'[k].status = IF k = r THEN "running" ELSE runs[k].status
      BY <1>1, <2>1, StatusTables DEF Dispatch, Typed
    <3>2. r \in jobs /\ UNCHANGED <<from, hurt, req, jobs>>
      BY <2>1 DEF Dispatch
    <3>3. QED  BY <3>1, <3>2
  <2>2. CASE Cancel(r)
    <3>1. /\ Runs' = Runs
          /\ \A k \in Runs : runs'[k].status = IF k = r THEN "cancelled" ELSE runs[k].status
      BY <1>1, <2>2, StatusTables DEF Cancel, Typed
    <3>2. jobs' = jobs \ {r} /\ UNCHANGED <<from, hurt, req>>
      BY <2>2 DEF Cancel
    <3>3. QED  BY <3>1, <3>2
  <2>3. CASE Forget(r)
    BY <2>3 DEF Forget, Terminal, tables, Runs
  <2>4. QED  BY <2>1, <2>2, <2>3
<1>3. QED  BY <1>2 DEF Owned, Pushes, Takes

LEMMA OwnedStep ==
    ASSUME Typed, Typed', InOrder, Apart, Owned, [RecordNext]_vars
    PROVE  Owned'
<1>1. ASSUME NEW p \in Procs, FindStep(p) \/ NumberStep(p) \/ SuiteStep(p) PROVE Owned'
  <2>1. UNCHANGED <<runs, from, hurt, jobs>> /\ req[p].at \in {"find", "number", "suite"}
    BY <1>1 DEF FindStep, NumberStep, Numbered, SuiteStep, tables
  <2>2. PICK s : req' = [req EXCEPT ![p] = s]
    <3>1. CASE FindStep(p) /\ NextSuite(p)
      <4>1. PICK r \in Request : r = req[p] /\ Route(r)
        BY RequestOf
      <4>2. r.op \in {"trigger", "runAll"}
        BY <3>1, <4>1 DEF FindStep, Route
      <4>3. QED  BY <3>1, <4>1, <4>2, NextSuiteMoves DEF Moves
    <3>2. CASE FindStep(p) /\ GoOn(p)
      BY <3>2, GoOnFacts
    <3>3. CASE NumberStep(p) \/ SuiteStep(p)
      BY <3>3, NumberFacts, SuiteFacts
    <3>4. QED  BY <1>1, <3>1, <3>2, <3>3 DEF FindStep
  <2>3. QED  BY <2>1, <2>2, OwnedByOther DEF Reports, Taking
<1>2. ASSUME NEW p \in Procs, Step(p) PROVE Owned'
  BY <1>1, <1>2, OwnedStart, OwnedByCreate, OwnedByPush, OwnedByRows, OwnedByVerdict,
     OwnedByFault DEF Step
<1>3. CASE UNCHANGED vars
  BY <1>3 DEF vars, tables, Owned, Pushes, Takes, Runs
<1>4. QED  BY <1>2, <1>3, OwnedByJobs, OwnedByCrash DEF RecordNext

LEMMA OwnedAlways == RecordSpec => []Owned
<1>1. RecordInit => Owned
  BY DEF RecordInit, Owned, Runs
<1>2. Typed /\ Typed' /\ InOrder /\ Apart /\ Owned /\ [RecordNext]_vars => Owned'
  BY OwnedStep
<1>3. QED  BY <1>1, <1>2, TypedAlways, InOrderAlways, ApartAlways, PTL DEF RecordSpec

(* No run is left behind, however the requests, the callback and the       *)
(* poller interleave: a queued run has a job or a request about to push    *)
(* it, a running one a job or the report that makes it, unless a statement *)
(* failed under it, the process stopped, or its report names a test twice. *)
THEOREM RunsHaveOwner == RecordSpec => []RunsAreOwned
<1>1. Owned => RunsAreOwned
  BY DEF Owned, Pushes, Takes, RunsAreOwned
<1>2. QED  BY <1>1, OwnedAlways, PTL
=============================================================================
