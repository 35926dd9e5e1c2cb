SPECIFICATION FairSpec
CONSTANTS
    None = None
    Default = Default
    r1 = r1
    c1 = c1
    Rules = {Default, r1}
    Requests = {c1}
    MaxTargets = 1
    MaxEvents = 1
    MaxTime = 1
    MaxCount = 1
CHECK_DEADLOCK FALSE
INVARIANTS Conserved OneQuota
PROPERTIES NeverOlder EventuallyFresh CloseStops
