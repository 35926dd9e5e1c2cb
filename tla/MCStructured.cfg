SPECIFICATION StructuredSpec
CONSTANTS
    r = r
    a = a
    b = b
    c = c
    Seg = {r, a, b, c}
    Root = r
    Limits = {1}
    Erring = {a}
    Writing = {r, b}
CHECK_DEADLOCK FALSE
INVARIANTS ReportedOnce PanicReported NoMapRace AllSent
