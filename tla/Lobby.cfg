SPECIFICATION FairSpec
CONSTANTS
    Users = {u1, u2, u3}
    Codes = {c1, c2}
    Requests = {r1, r2}
    Viewer = u1
    None = None
INVARIANTS
    OneActiveMatch
    ShownRoomIsSo
PROPERTY
    OpponentIsSeen
