SPECIFICATION FairSpec
CONSTANTS
    Investigation = {i1, i2}
    Approval = {a1, a2}
    Report = {r1, r2}
    Task = {t1}
    NoId = NoId
    RecursionLimit = 9
    MaxFaults = 1
    MaxCrashes = 0
INVARIANTS
    JobFitsAlert
    DispatchedIsQueued
PROPERTIES
    EveryInvestigationRests
    ImplementsContract
