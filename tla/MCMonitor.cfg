SPECIFICATION MonitorSpec
CONSTANTS
    t1 = t1
    t2 = t2
    forged = forged
    U64Max = 3
    Token <- MCToken
    Digest <- MCDigest
    Grants <- MCGrants
    OpBudget = 3
    DisclosureBudgetBits = 2
    DeadlineSecs = 2
    AutonomyThreshold = 2
    CallerTokens = {forged}
INVARIANTS
    TypeOK
    CommitNeverFallsBack
    PeakBoundsUncertainty
    ErasedIsAttestable
    NonSelfAuthorisation
    ResolvedIsAuthorised
