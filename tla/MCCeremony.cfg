SPECIFICATION MCSpec
CONSTANTS
    Order = 5
    NumPowers = 3
    Secrets = {2, 3}
    Participant = {alice, bob}
    MaxContributions = 3
    File = {"state", "after"}
    Contributor = {"alice", "bob"}
    Desk = {1, 2}
    Contribution <- MCContribution
    MaxRecords = 2
    BYTES_PER_LIMB = 2
    Y_BYTES = 2
    MISSION_BYTES = 1
    Byte = {0, 1}
SYMMETRY Symmetry
CHECK_DEADLOCK FALSE
INVARIANTS
    AccumulatorsArePowers
    KeysAreAccountedFor
    FilesNameTheirContributors
    SetupIsAuditable
    IdentityIsBound
PROPERTY Phase1MovesForward
