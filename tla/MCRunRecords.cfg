SPECIFICATION RecordSpec
CONSTANTS
    Procs = {p1, p2}
    Commits = {c1, c2}
    FirstSuites <- MCFirstSuites
    Payloads <- MCPayloads
    MaxRequests = 3
    MaxRuns = 3
    MaxFaults = 1
SYMMETRY Symmetry
INVARIANTS RecordTypeOK RowsAreOfReport RunsAreOwned ReportIsPrefix
PROPERTIES NumberIsFresh CommitIsCached
CHECK_DEADLOCK FALSE
