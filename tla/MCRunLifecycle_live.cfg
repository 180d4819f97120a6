\* One worker, callbacks that may arrive, a cancel, an error: every run ends.
SPECIFICATION LifeFairSpec
CONSTANTS
    j1 = j1
    j2 = j2
    rA = rA
    None = None
    Runs = {j1, j2}
    Repos = {rA}
    Workers = {w1}
    RepoOf <- MCSameRepo
    WithEnv = {j1, j2}
    FaultKinds = {}
    MaxFaults = 0
    MaxCrashes = 0
    MaxShutdowns = 0
    Outcomes <- MCHidden
    Cancellable = {j1}
    ErrorKinds = {"github", "redis"}
    MaxErrors = 1
    MaxCallbacks = 1
    MaxRefreshes = 0
PROPERTY PushedRunFinishes
