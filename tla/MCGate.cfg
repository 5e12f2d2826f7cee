SPECIFICATION Spec
CONSTANTS
    Connection = {c1, c2}
    Nonce = {n1, n2, n3}
    Body = {"valid", "wrong"}
    CacheCapacity = 2
    MaxFailures = 2
    MaxSigned = 2
    MaxAccepted = 4
SYMMETRY Symmetry
CHECK_DEADLOCK FALSE
INVARIANTS
    ReplayWindow
    UnauthenticatedIsLocal
    FailuresAreBounded
PROPERTY LockoutIsFinal
