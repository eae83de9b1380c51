SPECIFICATION FairSpec
CONSTANTS
    Request = {t1, t2}
    None = None
    Attempts = 2
    MaxFaults = 1
    MaxCrashes = 1
INVARIANTS
    IInv
    StoredWasHeard
PROPERTIES
    SingleFlight
    AlertFollowsWindow
