SPECIFICATION FairSpec
CONSTANTS
    r = r
    a = a
    b = b
    Seg = {r, a, b}
    Root = r
    Limits = {0, 1}
    Erring = {}
    Writing = {}
CHECK_DEADLOCK FALSE
INVARIANTS TypeOK OneTree CountersAgree NothingStranded BatchedWithinLimit TwiceByRootOnly
PROPERTIES ImplementsFairTrace CompletedIsSent
