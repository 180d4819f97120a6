\* One worker, one crash, polling only.
SPECIFICATION LifeFairSpec
CONSTANTS
    j1 = j1
    j2 = j2
    rA = rA
    None = None
    Runs = {j1, j2}
    Repos = {rA}
    Workers = {w1}
    RepoOf <- MCSameRepo
    WithEnv = {j1, j2}
    FaultKinds = {}
    MaxFaults = 0
    MaxCrashes = 1
    MaxShutdowns = 0
    Outcomes <- MCPassing
    Cancellable = {}
    ErrorKinds = {}
    MaxErrors = 0
    MaxCallbacks = 0
    MaxRefreshes = 0
PROPERTY RecoveredRunFinishes
