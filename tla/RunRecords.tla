----------------------------- MODULE RunRecords -----------------------------
(***************************************************************************)
(* The rows of the runs of one repository: how a run gets its row and its  *)
(* number (TriggerRun, RerunRun, RunAll, IngestHierarchical), and how a    *)
(* report becomes groups, cases and a summary (IngestionService).  Every   *)
(* request is a process and every SQL statement a step; BatchCreate is a   *)
(* transaction, so it is one step.  Between its dispatch and its report a  *)
(* run is in JobQueue and RunLifecycle; here it only has a job.            *)
(***************************************************************************)
EXTENDS Integers, FiniteSets, SequencesExt, FiniteSetsExt

CONSTANTS
    Procs,        \* the requests and the poller
    Commits,
    FirstSuites,  \* the names of the suites there are at first
    Payloads,     \* the hierarchical reports that arrive
    MaxRequests,  \* bound: requests started
    MaxRuns,      \* bound: rows in test_runs
    MaxFaults     \* bound: statements that fail, and crashes

\* The cases and tests of a report, as far as they are stored.
CaseData == [status : STRING, ms : Int]
TestData == [id : STRING, status : STRING, stats : Int, cases : Seq(CaseData)]

ASSUME RecordAssumption ==
    /\ FirstSuites \in Seq(STRING)
    /\ Payloads \subseteq Seq([id : STRING, suite : STRING, tests : Seq(TestData)])
    /\ MaxRequests \in Nat /\ MaxRuns \in Nat /\ MaxFaults \in Nat

VARIABLES
    suites,   \* the rows of test_suites: their names
    runs,     \* the rows of test_runs, in the order they were inserted
    groups,   \* groups[r]: the rows of test_groups of run r
    cases,    \* cases[r]: the rows of test_cases of run r
    jobs,     \* the runs whose job was pushed and has not come to an end
    req,      \* req[p]: the request p is executing
    from,     \* history: from[r]: the report of run r
    answers,  \* history: the reports received, and how far each came
    hurt,     \* history: the runs whose request failed or died half-way
    started, faults

tables == <<suites, runs, groups, cases>>
vars == <<tables, jobs, req, from, answers, hurt, started, faults>>

Runs == DOMAIN runs
NoReport == <<>>
NoSummary == <<>>
Names == ToSet(FirstSuites) \cup UNION {{pay[j].suite : j \in DOMAIN pay} : pay \in Payloads}

Terminal(r) == runs[r].status \in {"passed", "failed"}

Idle == [op |-> "none", at |-> "idle", suite |-> 0, rest |-> <<>>, commit |-> "", number |-> 0,
         run |-> 0, pay |-> NoReport, job |-> 0, known |-> <<>>, made |-> <<>>,
         verdict |-> "", open |-> {}, saw |-> {}]

RecordTypeOK ==
    /\ suites \in Seq(Names)
    /\ \A r \in Runs : /\ runs[r].suite \in DOMAIN suites
                       /\ runs[r].number \in 1..MaxRuns
                       /\ runs[r].status \in {"queued", "running", "passed", "failed", "cancelled"}
    /\ DOMAIN groups = Runs /\ DOMAIN cases = Runs /\ DOMAIN from = Runs
    /\ jobs \subseteq Runs /\ hurt \subseteq Runs
    /\ \A p \in Procs : req[p].run \in Runs \cup {0} /\ req[p].suite \in DOMAIN suites \cup {0}
    /\ started \in 0..MaxRequests /\ faults \in 0..MaxFaults

RecordInit ==
    /\ suites = FirstSuites
    /\ runs = <<>> /\ groups = <<>> /\ cases = <<>> /\ from = <<>>
    /\ jobs = {} /\ hurt = {} /\ answers = {}
    /\ req = [p \in Procs |-> Idle]
    /\ started = 0 /\ faults = 0

-----------------------------------------------------------------------------
\* From a report to rows: pure functions.

\* mapStatus
MapStatus(word) ==
    CASE word \in {"passed", "pass"} -> "pass"
      [] word \in {"failed", "fail"} -> "fail"
      [] word \in {"skipped", "skip"} -> "skip"
      [] word \in {"error", "running"} -> word
      [] OTHER -> "unknown"

Count(list, status) == Cardinality({i \in DOMAIN list : list[i].status = status})
Plus(a, b) == a + b
Total(numbers) == FoldLeft(Plus, 0, numbers)

\* The cases of a test as the rows that its group gets.
CaseRows(id, test) ==
    [i \in DOMAIN test.cases |-> [group |-> id, status |-> MapStatus(test.cases[i].status)]]

\* The status of a test is counted from its cases when the report gives none.
GroupStatus(given, failed, all) ==
    CASE given # "unknown" -> given
      [] failed > 0 -> "fail"
      [] failed = 0 /\ all -> "pass"
      [] OTHER -> given

\* The row of a test: its numbers are counted from its cases.
Group(id, test, order, ms) ==
    LET rows == CaseRows(id, test)
        passed == Count(rows, "pass")
        failed == Count(rows, "fail")
        skipped == Count(rows, "skip")
    IN  [id |-> id, total |-> Len(rows), passed |-> passed, failed |-> failed,
         skipped |-> skipped, ms |-> ms, order |-> order,
         status |-> GroupStatus(MapStatus(test.status), failed, Len(rows) = passed + skipped)]

Duration(test) == Total([i \in DOMAIN test.cases |-> test.cases[i].ms])

\* ingestJobResults: one job is one run, and its tests are the groups.
JobGroups(pay, job) ==
    [i \in DOMAIN pay[job].tests |->
        LET test == pay[job].tests[i]
        IN  Group(<<test.id>>, test, (job - 1) * 1000 + i - 1, Duration(test))]

\* buildGroupAndCases and the loop of IngestForRun: all the jobs are one run;
\* the duration the report states is preferred to the sum over the cases.
FlatTests(pay) ==
    FlattenSeq([j \in DOMAIN pay |->
        [i \in DOMAIN pay[j].tests |-> [job |-> pay[j].id, test |-> pay[j].tests[i]]]])

RunGroups(pay) ==
    LET flat == FlatTests(pay) IN
    [i \in DOMAIN flat |->
        LET test == flat[i].test
        IN  Group(<<flat[i].job, test.id>>, test, i - 1,
                  IF test.stats > 0 THEN test.stats ELSE Duration(test))]

GroupsOf(pay, job) == IF job = 0 THEN RunGroups(pay) ELSE JobGroups(pay, job)

CasesOf(pay, job) ==
    IF job = 0
    THEN LET flat == FlatTests(pay) IN
         FlattenSeq([i \in DOMAIN flat |-> CaseRows(<<flat[i].job, flat[i].test.id>>, flat[i].test)])
    ELSE LET tests == pay[job].tests IN
         FlattenSeq([i \in DOMAIN tests |-> CaseRows(<<tests[i].id>>, tests[i])])

\* Adding up the groups, as if the jobs ran one after the other.
WallClockOfAll(rows, counts) == Total([i \in DOMAIN rows |-> rows[i].ms])

\* computeRunSummary. The jobs of one run are consecutive pieces of its list
\* of groups; they ran in parallel, so the run took as long as the longest.
WallClock(rows, counts) ==
    LET before(j) == Total([k \in 1..(j - 1) |-> counts[k]])
        took(j) == Total([i \in 1..counts[j] |-> rows[before(j) + i].ms])
    IN  IF counts = <<>> THEN Total([i \in DOMAIN rows |-> rows[i].ms])
        ELSE Max({took(j) : j \in DOMAIN counts})

Summary(rows, caseRows, counts) ==
    [cases |-> Len(caseRows), passed |-> Count(caseRows, "pass"),
     failed |-> Count(caseRows, "fail"), skipped |-> Count(caseRows, "skip"),
     groups |-> Len(rows), ms |-> WallClock(rows, counts)]

SummaryOf(pay, job) ==
    Summary(GroupsOf(pay, job), CasesOf(pay, job),
            IF job = 0 THEN [j \in DOMAIN pay |-> Len(pay[j].tests)] ELSE <<>>)

\* Without the index.
ClashNever(r, rows) == FALSE

\* The unique index of test_groups: a batch is refused as a whole.
Clash(r, rows) ==
    \/ \E i, j \in DOMAIN rows : i # j /\ rows[i].id = rows[j].id
    \/ \E g \in ToSet(groups[r]), h \in ToSet(rows) : g.id = h.id

-----------------------------------------------------------------------------
\* Requests.

Begin(p, record) ==
    /\ req[p] = Idle
    /\ started < MaxRequests
    /\ started' = started + 1
    /\ req' = [req EXCEPT ![p] = record]
    /\ UNCHANGED <<tables, jobs, answers, hurt, faults>>

Finish(p) == req' = [req EXCEPT ![p] = Idle]
Goto(p, at) == req' = [req EXCEPT ![p].at = at]

\* One request of a user whose role allows it, on a repository whose fork is ready.
StartTrigger(p) ==
    /\ \E s \in DOMAIN suites, c \in Commits :
          Begin(p, [Idle EXCEPT !.op = "trigger", !.at = "find", !.suite = s, !.commit = c])
    /\ UNCHANGED from

\* All the suites, one after the other, in the order of ListByRepositoryID.
StartRunAll(p) ==
    /\ \E c \in Commits :
          Begin(p, [Idle EXCEPT !.op = "runAll", !.at = "find", !.suite = 1, !.commit = c,
                                !.rest = [i \in 1..(Len(suites) - 1) |-> i + 1]])
    /\ suites # <<>>
    /\ UNCHANGED from

\* A failed or cancelled run, whatever became of the commit since.
StartRerun(p) ==
    /\ \E r \in Runs :
          /\ runs[r].status \in {"failed", "cancelled"}
          /\ Begin(p, [Idle EXCEPT !.op = "rerun", !.at = "number", !.suite = runs[r].suite,
                                   !.commit = runs[r].commit])
    /\ UNCHANGED from

\* POST /webhooks/ingest. The suites are listed once; of two with one name the
\* later wins.
StartReport(p) ==
    /\ \E pay \in Payloads, c \in Commits :
          /\ pay # NoReport
          /\ Begin(p, [Idle EXCEPT !.op = "report", !.at = "suite", !.commit = c,
                                   !.pay = pay, !.job = 1,
                                   !.known = [n \in Names |->
                                       Max({s \in DOMAIN suites : suites[s] = n} \cup {0})]])
    /\ UNCHANGED from

\* What the workflow of run r reports: the same payload to the callback and in
\* the artifact.
Reported(r, pay) ==
    /\ from[r].pay \in {NoReport, pay}
    /\ from' = [from EXCEPT ![r] = [pay |-> pay, job |-> 0]]

\* GHACallback, of a run that has a workflow and is not terminal, whether or
\* not the poller still knows it: with jobs they are ingested, without them
\* the status it states is taken over.
StartCallback(p) ==
    \E r \in Runs, pay \in Payloads \cup {NoReport}, verdict \in {"passed", "failed"} :
        /\ from[r].job = 0
        /\ runs[r].status = "running" \/ (r \in jobs /\ runs[r].status = "queued")
        /\ Begin(p, [Idle EXCEPT !.op = "callback", !.run = r, !.pay = pay, !.verdict = verdict,
                                 !.at = IF pay = NoReport THEN "conclude" ELSE "groups"])
        /\ IF pay = NoReport THEN UNCHANGED from ELSE verdict = "passed" /\ Reported(r, pay)

\* handleCompletion, called by the one polling goroutine; a run that it finds
\* terminal is only forgotten (Forget).
StartCompletion(p) ==
    \E r \in jobs, pay \in Payloads \cup {NoReport}, verdict \in {"passed", "failed"} :
        /\ \A q \in Procs : req[q].op # "completion"
        /\ runs[r].status = "running"
        /\ Begin(p, [Idle EXCEPT !.op = "completion", !.run = r, !.pay = pay, !.verdict = verdict,
                                 !.at = IF pay = NoReport THEN "conclude" ELSE "groups"])
        /\ IF pay = NoReport THEN UNCHANGED from ELSE Reported(r, pay)

-----------------------------------------------------------------------------
\* Triggering a run.

\* RunAll logs the error of a suite, or its answer from the cache, and goes on.
NextSuite(p) ==
    IF req[p].rest = <<>> THEN Finish(p)
    ELSE req' = [req EXCEPT ![p].at = "find", ![p].suite = Head(req[p].rest),
                            ![p].rest = Tail(req[p].rest), ![p].number = 0, ![p].run = 0,
                            ![p].open = {}, ![p].saw = {}]

TerminalOf(suite, commit) ==
    {r \in Runs : runs[r].suite = suite /\ runs[r].commit = commit /\ Terminal(r)}

\* A trigger goes on to a row of its own. History: the runs that had no verdict
\* when it looked, those that were not there yet among them.
GoOn(p) ==
    req' = [req EXCEPT ![p].at = "number",
                       ![p].open = {r \in 1..MaxRuns : r \in Runs => ~Terminal(r)}]

\* FindTerminalRun forgets about the failed runs.
FindStepPassedOnly(p) ==
    /\ req[p].at = "find"
    /\ LET found == TerminalOf(req[p].suite, req[p].commit) IN
       IF \E r \in found : runs[r].status = "passed" THEN NextSuite(p) ELSE GoOn(p)
    /\ UNCHANGED <<tables, jobs, from, answers, hurt, started, faults>>

\* FindTerminalRun: a commit that was tested already is answered from its run.
FindStep(p) ==
    /\ req[p].at = "find"
    /\ IF TerminalOf(req[p].suite, req[p].commit) # {} THEN NextSuite(p) ELSE GoOn(p)
    /\ UNCHANGED <<tables, jobs, from, answers, hurt, started, faults>>

Numbered(p, counted) ==
    /\ req[p].at = "number"
    /\ req' = [req EXCEPT ![p].at = "create", ![p].saw = Runs,
                          ![p].number = 1 + Max({runs[r].number : r \in counted} \cup {0})]
    /\ UNCHANGED <<tables, jobs, from, answers, hurt, started, faults>>

\* NextRunNumber counts per suite and commit.
NumberStepPerCommit(p) ==
    Numbered(p, {r \in Runs : runs[r].suite = req[p].suite /\ runs[r].commit = req[p].commit})

\* NextRunNumber
NumberStep(p) == Numbered(p, {r \in Runs : runs[r].suite = req[p].suite})

\* Create does not write report_id, whatever the row it is given says.
CreateStep(p) ==
    LET reports == req[p].op = "report"
        r == Len(runs) + 1
        row == [suite |-> req[p].suite, commit |-> req[p].commit, number |-> req[p].number,
                status |-> IF reports THEN "running" ELSE "queued",
                summary |-> NoSummary, report |-> FALSE]
    IN  /\ req[p].at = "create"
        /\ r <= MaxRuns
        /\ runs' = Append(runs, row)
        /\ groups' = Append(groups, <<>>) /\ cases' = Append(cases, <<>>)
        /\ from' = Append(from, [pay |-> req[p].pay, job |-> req[p].job])
        /\ req' = [req EXCEPT ![p].at = IF reports THEN "groups" ELSE "push", ![p].run = r,
                              ![p].made = IF reports THEN Append(@, r) ELSE @]
        /\ UNCHANGED <<suites, jobs, answers, hurt, started, faults>>

\* The push is left out.
PushStepForgets(p) ==
    /\ req[p].at = "push"
    /\ NextSuite(p)
    /\ UNCHANGED <<tables, jobs, from, answers, hurt, started, faults>>

PushStep(p) ==
    /\ req[p].at = "push"
    /\ jobs' = jobs \cup {req[p].run}
    /\ NextSuite(p)
    /\ UNCHANGED <<tables, from, answers, hurt, started, faults>>

\* The executor takes the job.
Dispatch(r) ==
    /\ r \in jobs /\ runs[r].status = "queued"
    /\ runs' = [runs EXCEPT ![r].status = "running"]
    /\ UNCHANGED <<suites, groups, cases, jobs, req, from, answers, hurt, started, faults>>

\* CancelRun of a run that waits; RunLifecycle has its steps and the running ones.
Cancel(r) ==
    /\ r \in jobs /\ runs[r].status = "queued"
    /\ jobs' = jobs \ {r}
    /\ runs' = [runs EXCEPT ![r].status = "cancelled"]
    /\ UNCHANGED <<suites, groups, cases, req, from, answers, hurt, started, faults>>

\* The poller drops a run that the callback finished.
Forget(r) ==
    /\ r \in jobs /\ Terminal(r)
    /\ \A p \in Procs : req[p].op = "completion" => req[p].run # r
    /\ jobs' = jobs \ {r}
    /\ UNCHANGED <<tables, req, from, answers, hurt, started, faults>>

-----------------------------------------------------------------------------
\* Ingesting a report.

\* IngestHierarchical: the suite of the next job, made if there is none.
SuiteStep(p) ==
    LET name == req[p].pay[req[p].job].suite
        known == req[p].known[name]
        s == IF known # 0 THEN known ELSE Len(suites) + 1
    IN  /\ req[p].at = "suite"
        /\ suites' = IF known # 0 THEN suites ELSE Append(suites, name)
        /\ req' = [req EXCEPT ![p].at = "number", ![p].suite = s, ![p].known[name] = s]
        /\ UNCHANGED <<runs, groups, cases, jobs, from, answers, hurt, started, faults>>

\* The answer to a report: the runs it made, and whether it was taken in whole.
Answer(p, ok) == [pay |-> req[p].pay, runs |-> req[p].made, ok |-> ok]

\* As if the loop over the jobs skipped a job that fails.
FailGoesOn(p) ==
    /\ IF req[p].op = "report" /\ req[p].job < Len(req[p].pay)
       THEN /\ req' = [req EXCEPT ![p].at = "suite", ![p].job = @ + 1]
            /\ UNCHANGED answers
       ELSE /\ Finish(p)
            /\ answers' = IF req[p].op = "report" THEN answers \cup {Answer(p, FALSE)} ELSE answers
    /\ UNCHANGED jobs

\* A statement of p returned an error.
Fail(p) ==
    \/ /\ req[p].op = "report"
       /\ Finish(p) /\ answers' = answers \cup {Answer(p, FALSE)} /\ UNCHANGED jobs
    \/ req[p].op = "runAll" /\ NextSuite(p) /\ UNCHANGED <<answers, jobs>>
    \/ /\ req[p].op = "completion" /\ req[p].at # "conclude"
       /\ Goto(p, "conclude") /\ UNCHANGED <<answers, jobs>>
    \/ /\ req[p].op = "completion" /\ req[p].at = "conclude"
       /\ Finish(p) /\ jobs' = jobs \ {req[p].run} /\ UNCHANGED answers
    \/ /\ req[p].op \in {"trigger", "rerun", "callback"}
       /\ Finish(p) /\ UNCHANGED <<answers, jobs>>

Batch(p) == GroupsOf(req[p].pay, req[p].job)

\* BatchCreate of the groups
GroupsStep(p) ==
    /\ req[p].at = "groups"
    /\ IF Clash(req[p].run, Batch(p))
       THEN Fail(p) /\ UNCHANGED groups
       ELSE /\ groups' = [groups EXCEPT ![req[p].run] = @ \o Batch(p)]
            /\ Goto(p, "cases") /\ UNCHANGED <<answers, jobs>>
    /\ UNCHANGED <<suites, runs, cases, from, hurt, started, faults>>

\* BatchCreate of the cases, with the ids that their groups were given
CasesStep(p) ==
    /\ req[p].at = "cases"
    /\ cases' = [cases EXCEPT ![req[p].run] = @ \o CasesOf(req[p].pay, req[p].job)]
    /\ Goto(p, "finish")
    /\ UNCHANGED <<suites, runs, groups, jobs, from, answers, hurt, started, faults>>

\* A status of a case instead of one of a run.
VerdictOfCases(summary) == IF summary.failed > 0 THEN "fail" ELSE "pass"

Verdict(summary) == IF summary.failed > 0 THEN "failed" ELSE "passed"

\* UpdateSummaryAndFinish, and what its caller does then. Only the counted
\* failures decide: a run whose cases are all in error passes.
FinishStep(p) ==
    LET r == req[p].run
        summary == SummaryOf(req[p].pay, req[p].job)
    IN  /\ req[p].at = "finish"
        /\ runs' = [runs EXCEPT ![r].summary = summary, ![r].status = Verdict(summary)]
        /\ \/ /\ req[p].op = "report" /\ req[p].job < Len(req[p].pay)
              /\ req' = [req EXCEPT ![p].at = "suite", ![p].job = @ + 1]
              /\ UNCHANGED <<answers, jobs>>
           \/ /\ req[p].op = "report" /\ req[p].job = Len(req[p].pay)
              /\ Finish(p) /\ answers' = answers \cup {Answer(p, TRUE)} /\ UNCHANGED jobs
           \/ /\ req[p].op = "completion"
              /\ Finish(p) /\ jobs' = jobs \ {r} /\ UNCHANGED answers
           \/ req[p].op = "callback" /\ Finish(p) /\ UNCHANGED <<answers, jobs>>
        /\ UNCHANGED <<suites, groups, cases, from, hurt, started, faults>>

\* UpdateFinished with the status of the callback or the conclusion of the workflow.
ConcludeStep(p) ==
    /\ req[p].at = "conclude"
    /\ runs' = [runs EXCEPT ![req[p].run].status = req[p].verdict]
    /\ jobs' = IF req[p].op = "completion" THEN jobs \ {req[p].run} ELSE jobs
    /\ Finish(p)
    /\ UNCHANGED <<suites, groups, cases, from, answers, hurt, started, faults>>

-----------------------------------------------------------------------------
\* Faults.

\* A statement or a push of p fails and changes nothing.
Fault(p) ==
    /\ req[p] # Idle
    /\ faults < MaxFaults /\ faults' = faults + 1
    /\ hurt' = hurt \cup ({req[p].run} \ {0})
    /\ Fail(p)
    /\ UNCHANGED <<tables, from, started>>

\* The process stops between two statements. The poller finds the running runs
\* of the workflows again when it starts (recoverActiveRuns).
Crash ==
    /\ \E p \in Procs : req[p] # Idle
    /\ faults < MaxFaults /\ faults' = faults + 1
    /\ hurt' = hurt \cup ({req[p].run : p \in Procs} \ {0})
    /\ answers' = answers \cup {Answer(p, FALSE) : p \in {q \in Procs : req[q].op = "report"}}
    /\ req' = [p \in Procs |-> Idle]
    /\ UNCHANGED <<tables, jobs, from, started>>

Step(p) ==
    \/ StartTrigger(p) \/ StartRunAll(p) \/ StartRerun(p) \/ StartReport(p)
    \/ StartCallback(p) \/ StartCompletion(p)
    \/ FindStep(p) \/ NumberStep(p) \/ CreateStep(p) \/ PushStep(p)
    \/ SuiteStep(p) \/ GroupsStep(p) \/ CasesStep(p) \/ FinishStep(p) \/ ConcludeStep(p)
    \/ Fault(p)

RecordNext ==
    \/ \E p \in Procs : Step(p)
    \/ \E r \in Runs : Dispatch(r) \/ Cancel(r) \/ Forget(r)
    \/ Crash

RecordSpec == RecordInit /\ [][RecordNext]_vars

-----------------------------------------------------------------------------
\* Properties.

\* What a report says, read off the report itself: the cases with a status,
\* and the time of its slowest job.
Jobs(f) == IF f.job = 0 THEN DOMAIN f.pay ELSE {f.job}
Tests(f) == UNION {{<<j, i>> : i \in DOMAIN f.pay[j].tests} : j \in Jobs(f)}
Cases(f) == UNION {{<<t[1], t[2], k>> : k \in DOMAIN f.pay[t[1]].tests[t[2]].cases} : t \in Tests(f)}
CaseAt(f, c) == f.pay[c[1]].tests[c[2]].cases[c[3]]
Saying(f, words) == Cardinality({c \in Cases(f) : CaseAt(f, c).status \in words})
TimeOf(f, t) ==
    LET test == f.pay[t[1]].tests[t[2]] IN
    IF f.job = 0 /\ test.stats > 0 THEN test.stats
    ELSE MapThenSumSet(LAMBDA k : test.cases[k].ms, DOMAIN test.cases)
Slowest(f) ==
    Max({MapThenSumSet(LAMBDA t : TimeOf(f, t), {t \in Tests(f) : t[1] = j}) : j \in Jobs(f)})

\* The rows of a run are those of its report, each once, however often and by
\* whomever the report was delivered, and every case is in a group of its run;
\* a stored summary counts the whole report: its cases by status, and as
\* duration the slowest job's.
RowsAreOfReport ==
    \A r \in Runs :
        LET f == from[r] IN
        /\ Len(groups[r]) \in {0, Cardinality(Tests(f))}
        /\ Len(cases[r]) \in {0, Cardinality(Cases(f))}
        /\ runs[r].summary # NoSummary =>
               /\ Len(groups[r]) = Cardinality(Tests(f)) /\ Len(cases[r]) = Cardinality(Cases(f))
               /\ runs[r].summary =
                     [cases |-> Cardinality(Cases(f)), passed |-> Saying(f, {"passed", "pass"}),
                      failed |-> Saying(f, {"failed", "fail"}),
                      skipped |-> Saying(f, {"skipped", "skip"}),
                      groups |-> Cardinality(Tests(f)), ms |-> Slowest(f)]
        /\ \A c \in ToSet(cases[r]) : \E g \in ToSet(groups[r]) : g.id = c.group

\* A report names one test twice within a job.
Repeats(f) == \E j \in Jobs(f), t \in Tests(f), u \in Tests(f) :
    t # u /\ t[1] = j /\ u[1] = j /\ f.pay[j].tests[t[2]].id = f.pay[j].tests[u[2]].id

\* No run is left behind: a queued run has a job or a request about to push
\* it, a running one a job or the request that ingests it, unless a statement
\* failed under it, the process stopped, or its report names a test twice.
RunsAreOwned ==
    \A r \in Runs \ (jobs \cup hurt) :
        /\ runs[r].status = "queued" => \E p \in Procs : req[p].run = r /\ req[p].at = "push"
        /\ runs[r].status = "running" =>
              Repeats(from[r]) \/ \E p \in Procs : req[p].op = "report" /\ req[p].run = r

\* A report is taken in from its first job on: the runs it made are those of
\* its first jobs, all of them if it was answered as taken in, and all of them
\* finished but the one at which it stopped.
ReportIsPrefix ==
    \A a \in answers :
        LET n == Len(a.runs) IN
        /\ n <= Len(a.pay) /\ (a.ok => n = Len(a.pay))
        /\ \A j \in 1..n : /\ suites[runs[a.runs[j]].suite] = a.pay[j].suite
                           /\ (a.ok \/ j < n) => runs[a.runs[j]].summary # NoSummary

\* p inserts a row.
Inserts(p) == Len(runs') > Len(runs) /\ req'[p] # req[p]

\* Two runs of a suite get one number, or a later one a smaller number, only
\* if the earlier was inserted after the later's number had been read.
NumberIsFresh ==
    [][\A p \in Procs : Inserts(p) =>
          LET new == Last(runs') IN
          \A r \in Runs : (runs[r].suite = new.suite /\ runs[r].number >= new.number)
                          => r \notin req[p].saw]_vars

\* A commit is run a second time by a trigger only if every verdict there is
\* for the suite and the commit came between this trigger's look at the suite
\* and its row: a trigger that looked at nothing, at another suite, or past a
\* run that had its verdict then, inserts no row beside a verdict.
CommitIsCached ==
    [][\A p \in Procs : (Inserts(p) /\ req[p].op \in {"trigger", "runAll"}) =>
          TerminalOf(req[p].suite, req[p].commit) \subseteq req[p].open]_vars

\* The runs of one report carry its report_id (ingestion_service.go:50).
ReportIsShared == \A a \in answers : \A r \in ToSet(a.runs) : runs[r].report
=============================================================================
