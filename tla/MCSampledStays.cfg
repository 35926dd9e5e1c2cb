SPECIFICATION Spec
CONSTANTS
    None = None
    t1 = t1
    s1 = s1
    s2 = s2
    s3 = s3
    TraceIDs = {t1}
    Segs = {s1, s2, s3}
    Entries = {"http"}
    MaxHops = 2
    MayDisable = FALSE
CHECK_DEADLOCK FALSE
SYMMETRY Symmetry
INVARIANT SampledStays
