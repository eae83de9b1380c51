SPECIFICATION Spec
CONSTANTS
    Investigation = {i1, i2}
    Approval = {a1, a2}
    Report = {r1}
    Task = {t1, t2}
    NoId = NoId
    RecursionLimit = 8
    MaxFaults = 1
    MaxCrashes = 1
SYMMETRY Ids
INVARIANTS
    TypeOK
    IInv
    OneInvestigationPerReport
    AtMostOneJob
    JobApproved
    CheckpointApproval
    EndedIsResolved
PROPERTIES
    ResolvedStaysResolved
