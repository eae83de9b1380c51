SPECIFICATION Spec
CONSTANTS
    Grid = 2
    MinRecall = 75
    Candidates = 1
    Datasets <- SmallDatasets
    Bins = 2
    RefSizes = {2}
    WindowSizes = {2}
    Value = {0, 1}
    Categories = 2
    RefCounts = {1}
    WindowCounts = {1}
    Unknown = {0, 1}
    LabelRows = 2
    Top = 3
    DashboardTop = 2
INVARIANTS
    OutputShiftIsSeen
