\* One worker, a crash, an error of any service, a callback.
SPECIFICATION LifeSpec
CONSTANTS
    j1 = j1
    j2 = j2
    rA = rA
    None = None
    Runs = {j1, j2}
    Repos = {rA}
    Workers = {w1}
    RepoOf <- MCSameRepo
    WithEnv = {j1, j2}
    FaultKinds = {}
    MaxFaults = 0
    MaxCrashes = 1
    MaxShutdowns = 0
    Outcomes <- MCMixed
    Cancellable = {j1}
    ErrorKinds = {"github", "postgres", "redis"}
    MaxErrors = 1
    MaxCallbacks = 1
    MaxRefreshes = 0
INVARIANT LifeTypeOK
INVARIANT PassedHasCause
INVARIANT PollerFindsOwn
INVARIANT WithdrawnByItsCancel
