SPECIFICATION MCSpec
CONSTANTS
    Factors <- MCFactors
    Base = {2, 8}
    Steps <- MCSteps
    U64Max = 63
    LargestPrime = 61
    PollInterval = 3
    Lengths <- MCLengths
    Interval = 2
    Capacity = 2
    Round = {1, 2, 3, 4}
    MAX_RETRIES = 3
    MaxWord = 7
    Thread = {"blocking", "worker"}
    Model <- MCModel
    InputValues <- MCInputValues
    InputAbsMax = 2
    MaxInputs = 2
CHECK_DEADLOCK FALSE
INVARIANTS
    HonestProofVerifies
    ShortcutAgrees
    AbortIsPrompt
    WorkIsRecorded
    SaltIsGenuine
    AnswersAreExact
PROPERTIES
    EvaluationEnds
    InputsEnd
