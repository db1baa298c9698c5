CONSTANTS
    Floor = {f1}
    User = {u1, u2}
    Handler = {h1, h2}
    Viewer = {w1}
    TTL = 2
    MaxTime = 3
    Capacity = 1
    Deletable = {u1}
    NoFloor = NoFloor
    NoUser = NoUser

SPECIFICATION FairSpec

INVARIANTS
    GrantsExclusive
    EventsExplained

PROPERTIES
    LockRespected
    ExpiredLockGoes

CHECK_DEADLOCK FALSE
