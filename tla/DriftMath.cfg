SPECIFICATION Spec
CONSTANTS
    Grid = 4
    MinRecall = 50
    Candidates = 2
    Datasets <- SmallDatasets
    Bins = 3
    RefSizes = {3, 4, 5}
    WindowSizes = {1, 2}
    Value = {0, 1, 2, 3, 4}
    Categories = 2
    RefCounts = {1, 2, 3}
    WindowCounts = {0, 1, 2, 3, 4}
    Unknown = {0, 1, 2, 3, 4, 5, 6, 7, 8}
    LabelRows = 2
    Top = 3
    DashboardTop = 2
INVARIANTS
    ThresholdIsHighest
    TrainedModelPassesGate
    ShiftIsSeen
    BinsAreBalanced
    UnknownIsSeen
    WebhookExplainsSeverity
    ViewsAgree
