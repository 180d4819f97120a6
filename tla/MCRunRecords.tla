----------------------------- MODULE MCRunRecords -----------------------------
(* Small reports: several jobs, a stated duration, a status that is not        *)
(* counted, a test without cases, and a test that is named twice.             *)
EXTENDS RunRecords, TLC

Case(status, ms) == [status |-> status, ms |-> ms]
Test(id, status, stats, rows) == [id |-> id, status |-> status, stats |-> stats, cases |-> rows]
Job(id, suite, tests) == [id |-> id, suite |-> suite, tests |-> tests]

TwoJobs ==
    <<Job("j1", "unit", <<Test("a", "", 0, <<Case("passed", 2), Case("skip", 1)>>),
                          Test("b", "", 5, <<Case("error", 1)>>)>>),
      Job("j2", "e2e", <<Test("a", "", 0, <<Case("fail", 4)>>), Test("c", "passed", 0, <<>>)>>)>>

Twice ==
    <<Job("j1", "unit", <<Test("a", "", 0, <<Case("passed", 1)>>)>>),
      Job("j2", "unit", <<Test("a", "", 0, <<Case("pass", 1)>>),
                          Test("a", "", 0, <<Case("fail", 1)>>)>>)>>

MCPayloads == {TwoJobs, Twice}
MCFirstSuites == <<"unit">>
Symmetry == Permutations(Procs) \cup Permutations(Commits)
=============================================================================
