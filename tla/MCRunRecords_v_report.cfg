SPECIFICATION RecordSpec
CONSTANTS
    Procs = {p1}
    Commits = {c1}
    FirstSuites <- MCFirstSuites
    Payloads <- MCPayloads
    MaxRequests = 1
    MaxRuns = 3
    MaxFaults = 0
INVARIANT ReportIsShared
CHECK_DEADLOCK FALSE
