CONSTANTS
    CreateMode = "0644"
    Steps = {1}
    MaxRuns = 2
    MaxSetups = 2
SPECIFICATION Spec
INVARIANTS AttestationVerifies OneVerifyingKey
PROPERTY WholeMissionOpens
