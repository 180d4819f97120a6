\* One worker, two repositories, a failing command, a crash and a shutdown: order, locks and liveness.
SPECIFICATION FairSpec
CONSTANTS
    j1 = j1
    j2 = j2
    j3 = j3
    rA = rA
    rB = rB
    None = None
    Runs = {j1, j2, j3}
    Repos = {rA, rB}
    Workers = {w1}
    RepoOf <- MCRepoOf
    WithEnv = {j1}
    FaultKinds = {"exists", "rpop", "set", "rpush", "lpush", "del", "lrem"}
    MaxFaults = 1
    MaxCrashes = 1
    MaxShutdowns = 1
INVARIANT FifoPerRepo
INVARIANT WorkIsLocked
PROPERTY QueuedIsTaken
PROPERTY ShutdownEnds
