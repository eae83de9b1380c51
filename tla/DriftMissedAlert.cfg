SPECIFICATION FairSpec
CONSTANTS
    Request = {t1, t2}
    None = None
    Attempts = 1
    MaxFaults = 0
    MaxCrashes = 0
PROPERTIES
    AgentLearns
