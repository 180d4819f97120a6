\* One worker, polling only, the generated workflow.
SPECIFICATION LifeSpec
CONSTANTS
    j1 = j1
    j2 = j2
    rA = rA
    None = None
    Runs = {j1, j2}
    Repos = {rA}
    Workers = {w1}
    RepoOf <- MCSameRepo
    WithEnv = {j1, j2}
    FaultKinds = {}
    MaxFaults = 0
    MaxCrashes = 0
    MaxShutdowns = 0
    Outcomes <- MCGenerated
    Cancellable = {j1, j2}
    ErrorKinds = {}
    MaxErrors = 0
    MaxCallbacks = 0
    MaxRefreshes = 0
INVARIANT PassedMeansNoFailure
