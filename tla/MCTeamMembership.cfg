SPECIFICATION TeamSpec
CONSTANTS
    Users = {u1, u2, u3}
    Root = {u3}
    Procs = {p1, p2}
    NoRow = NoRow
    Given = {"admin", "viewer"}
    MaxRequests = 3
    MaxFaults = 1
SYMMETRY Symmetry
INVARIANTS TeamTypeOK ApprovedWasAdmitted DecisionIsTold
PROPERTY LastAdminKept
CHECK_DEADLOCK FALSE
