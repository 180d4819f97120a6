SPECIFICATION AccountSpec
CONSTANTS
    Users = {u1, u2}
    Nobody = Nobody
    Procs = {p1, p2}
    Updates <- MCUpdates
    ReviewLimit = 1
    MaxRequests = 3
    MaxFaults = 1
SYMMETRY Symmetry
INVARIANTS AccountTypeOK ReviewsOfThisBan SessionsMatchAccount OneSessionPerLogin
PROPERTIES LastRootKept BanHolds ReviewLimitKept
CHECK_DEADLOCK FALSE
