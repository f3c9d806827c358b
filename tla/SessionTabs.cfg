SPECIFICATION Spec
CONSTANTS
    Sid = {s1, s2}
    Tabs = {t1, t2}
    AccessTtl = 1
    RefreshTtl = 2
    MaxTime = 2
    MaxIssued = 3
    NoPair = NoPair
    NoRow = NoRow
INVARIANT
    ExpiredAccessIsRefreshed
CHECK_DEADLOCK FALSE
