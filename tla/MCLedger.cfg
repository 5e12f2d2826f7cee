SPECIFICATION ReadersSpec
CONSTANTS
    FirstToken = FirstToken
    SecondToken = SecondToken
    ForgedToken = ForgedToken
    U64Max = 5
    Token <- MCToken
    Digest <- MCDigest
    Grants <- MCGrants
    OpBudget = 2
    DisclosureBudgetBits = 2
    DeadlineSecs = 1
    AutonomyThreshold = 1
    Events <- MCEvents
    Readings = {0, 1}
    TailCapacity = 2
    MaxRecords = 4
INVARIANTS
    HistoryIsComplete
    BudgetIsAudited
    ReportsFollowTheLedger
    StartupCheckPasses
