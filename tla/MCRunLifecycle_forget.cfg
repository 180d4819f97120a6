\* A run and its rerun, a suite edit, a crash and a graceful restart: the poller lets go of finished runs.
SPECIFICATION LifeFairSpec
CONSTANTS
    j1 = j1
    j2 = j2
    rA = rA
    None = None
    Runs = {j1, j2}
    Repos = {rA}
    Workers = {w1}
    RepoOf <- MCSameRepo
    WithEnv = {j1}
    FaultKinds = {}
    MaxFaults = 0
    MaxCrashes = 1
    MaxShutdowns = 1
    Outcomes <- MCFailed
    Cancellable = {}
    ErrorKinds = {}
    MaxErrors = 0
    MaxCallbacks = 2
    MaxRefreshes = 1
PROPERTY FinishedRunIsForgotten
