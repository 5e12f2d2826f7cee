CONSTANTS
    CreateMode = "0600"
    Steps = {1}
    MaxRuns = 1
    MaxSetups = 2
SPECIFICATION Spec
PROPERTY GeneratedModulusOpens
