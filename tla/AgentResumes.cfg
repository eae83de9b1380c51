SPECIFICATION FairSpec
CONSTANTS
    Investigation = {i1}
    Approval = {a1, a2}
    Report = {r1}
    Task = {t1, t2}
    NoId = NoId
    RecursionLimit = 7
    MaxFaults = 0
    MaxCrashes = 0
PROPERTIES
    ResumedRunEnds
