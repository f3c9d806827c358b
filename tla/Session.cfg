SPECIFICATION Spec
CONSTANTS
    Sid = {s1, s2}
    Tabs = {t1, t2}
    AccessTtl = 1
    RefreshTtl = 2
    MaxTime = 3
    MaxIssued = 3
    NoPair = NoPair
    NoRow = NoRow
INVARIANTS
    OneTokenIsCurrent
    RefusalHasReason
PROPERTY
    RevokedIsFinal
CHECK_DEADLOCK FALSE
