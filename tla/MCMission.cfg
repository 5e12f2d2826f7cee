SPECIFICATION Spec
CONSTANTS
    t1 = t1
    forged = forged
    U64Max = 2
    Token <- MCToken
    Digest <- MCDigest
    Grants <- MCGrants
    OpBudget = 1
    DisclosureBudgetBits = 1
    DeadlineSecs = 1
    AutonomyThreshold = 1
    Request = {r1, r2}
    CallerTokens = {forged}
    MaxClock = 1
    VdfPolls = 1
    InferBits = 1
    Disconnects = TRUE
SYMMETRY Symmetry
CHECK_DEADLOCK FALSE
INVARIANTS
    SummaryIsFinal
    MissionEndsClean
PROPERTIES
    MonitorSpec
    CustodySpec
