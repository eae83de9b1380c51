SPECIFICATION FairSpec
CONSTANTS
    Job = {j1, j2}
    Client = {j1, j2, cli}
    Cli = cli
    NoId = NoId
    NoClient = NoId
    Investigation = {i1}
    Key <- AnyJob
    Auc = {1}
    MaxTries = 2
    MaxExpiries = 1
    MaxTrainings = 0
    MaxFaults = 1
    MaxCrashes = 1
CHECK_DEADLOCK FALSE
INVARIANTS
    TypeOK
    OneProduction
    ProductionKept
    ModelLoadable
    OnePromotionPerTry
    DeadLetteredOnce
    LostIsExplained
    RetriesSuffice
PROPERTIES
    RestartServesPromoted
    EveryJobEnds
