CONSTANTS
    CreateMode = "0644"
    Steps = {1, 2}
    MaxRuns = 2
    MaxSetups = 2
SPECIFICATION Spec
PROPERTY FreshMissionOpens
