SPECIFICATION Spec
CONSTANTS
    Job = {j1, j2}
    Client = {j1, j2, cli}
    Cli = cli
    NoId = NoId
    NoClient = NoId
    Investigation = {i1, i2}
    Key <- Retrains
    Auc = {1, 2}
    MaxTries = 2
    MaxExpiries = 0
    MaxTrainings = 1
    MaxFaults = 0
    MaxCrashes = 0
SYMMETRY Investigations
CHECK_DEADLOCK FALSE
INVARIANTS
    OneProduction
    ProductionIsBest
    PromotesOnce
    DeadLetterHasNoEffect
    RetrainIsUsed
