\* One team, two tasks at once, a call that fails and a restart.
SPECIFICATION ForkFairSpec
CONSTANTS
    Teams = {t1}
    NoTeam = NoTeam
    Tasks = {p1, p2}
    FaultAt = {"fork", "ready", "invalidate", "recover"}
    MaxStarts = 3
    MaxPushes = 1
    MaxFaults = 1
    MaxCrashes = 1
INVARIANTS ForkTypeOK ReadyIsForked BranchHasSuites CacheSeesResync AddedHasTeam
PROPERTY ForkSettles
CHECK_DEADLOCK FALSE
