SPECIFICATION MCSpec
CONSTANTS
    Host = host
    Guest = guest
    h1 = h1
    h2 = h2
    g1 = g1
    g2 = g2
    f1 = f1
    f2 = f2
    f3 = f3
    m1 = m1
    Players = {h1, h2, g1, g2}
    Formations = {f1, f2, f3}
    Shape <- MCShape
    PrimaryPosition <- MCPosition
    SecondaryKeepers = {g1}
    XI = 2
    Bench = 1
    Reserves = 0
    Managers = {m1}
    NeutralFormations = {f1}
    NeutralManagers = {m1}
    Inventories <- MCInventories
    Drafts <- MCDrafts
    Pages = {page1}
    Owner <- MCOwner
    MaxVersions = 3
    Transactions = {t1, t2, t3}
INVARIANTS
    LockedSquadIsLegal
    ReadyWhenBothLocked
    VersionNamesSquad
PROPERTIES
    LocksWhatWasGiven
    LockingIsFinal
    CommitsAsIfAlone
CHECK_DEADLOCK FALSE
