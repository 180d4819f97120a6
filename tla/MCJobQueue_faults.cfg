\* Two workers, two repositories, any one command failing or an eviction, and a crash.
SPECIFICATION Spec
CONSTANTS
    j1 = j1
    j2 = j2
    j3 = j3
    rA = rA
    rB = rB
    None = None
    Runs = {j1, j2, j3}
    Repos = {rA, rB}
    Workers = {w1, w2}
    RepoOf <- MCRepoOf
    WithEnv = {j1}
    FaultKinds = {"exists", "rpop", "set", "rpush", "lpush", "del", "lrem", "evict"}
    MaxFaults = 1
    MaxCrashes = 1
    MaxShutdowns = 0
INVARIANT TypeOK
INVARIANT SinglePlace
INVARIANT LockHasHolder
INVARIANT AckClearsProcessing
PROPERTY DeliveredOnce
PROPERTY LosesOnlyByFault
PROPERTY ImplementsDelivery
