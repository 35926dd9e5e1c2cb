SPECIFICATION Spec
CONSTANTS
    Quotas <- MCQuotas
    MaxTime = 2
    MaxRequests = 4
CHECK_DEADLOCK FALSE
INVARIANTS BorrowOnePerSecond ReservoirBound StatsConserved
