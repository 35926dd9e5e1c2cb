SPECIFICATION Spec
CONSTANTS
    r = r
    a = a
    b = b
    Seg = {r, a, b}
    Root = r
    Limits = {2}
    Erring = {}
    Writing = {}
CHECK_DEADLOCK FALSE
INVARIANT ReportedOnce
