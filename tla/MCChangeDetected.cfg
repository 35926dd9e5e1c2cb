SPECIFICATION Spec
CONSTANTS
    None = None
    Default = Default
    r1 = r1
    c1 = c1
    Rules = {Default, r1}
    Requests = {c1}
    MaxTargets = 1
    MaxEvents = 1
    MaxTime = 2
    MaxCount = 0
CHECK_DEADLOCK FALSE
PROPERTY ChangeDetected
