CONSTANTS
    MissionId = {"m1", "m2"}
    Sender = {"agent", "relay"}
    Input <- MCInput
    Provable <- MCProvable
    Time = {1, 2}
    Q = 19
    R = 13
    Digit = 8
    G1 <- MCG1
    G2 <- MCG2
    PUBLIC_INPUT_COUNT = 2
    VerifyingKey <- MCVerifyingKey
    Proof <- MCProof
    Calldata <- MCCalldata
SPECIFICATION OnChainSpec
CHECK_DEADLOCK FALSE
INVARIANTS
    CountIsExact
    HonestProofIsAccepted
PROPERTIES
    ImplementsRegistry
