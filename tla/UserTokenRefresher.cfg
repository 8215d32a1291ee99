SPECIFICATION FairSpec
CONSTANTS
    Callers = {c1, c2, c3}
    Ids = {u1}
    MaxIssued = 3
    Absent = Absent
    Free = Free
INVARIANTS StoredRefreshes HeldInside
PROPERTIES RefreshOnlyLapsed StoredOnlyNewer EveryCallReturns
