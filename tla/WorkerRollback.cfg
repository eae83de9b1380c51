SPECIFICATION FairSpec
CONSTANTS
    Job = {j1, j2, j3}
    Client = {j1, j2, j3, cli}
    Cli = cli
    NoId = NoId
    NoClient = NoId
    Investigation = {i1, i2}
    Key <- RetrainsAndRollback
    Auc = {1}
    MaxTries = 2
    MaxExpiries = 0
    MaxTrainings = 0
    MaxFaults = 0
    MaxCrashes = 0
CHECK_DEADLOCK FALSE
PROPERTIES
    RollbackRestores
