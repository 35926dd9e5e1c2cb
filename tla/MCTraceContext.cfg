SPECIFICATION Spec
CONSTANTS
    None = None
    t1 = t1
    t2 = t2
    s1 = s1
    s2 = s2
    s3 = s3
    s4 = s4
    s5 = s5
    TraceIDs = {t1, t2}
    Segs = {s1, s2, s3, s4, s5}
    Entries = {"http", "queue", "lambda"}
    MaxHops = 4
    MayDisable = TRUE
CHECK_DEADLOCK FALSE
SYMMETRY Symmetry
INVARIANTS OneTrace ParentIsCaller NotSampledStays RoundTrips
