\* One request at a time beside the expiry worker while the clock runs.
SPECIFICATION FairSpec
CONSTANTS
    team = team
    Requests = {r1}
    StripeIds = {s1}
    RcIds = {}
    Manual = manual
    Plans <- MCPlans
    FreePlan = team
    Fits <- MCPlans
    SeatBased <- MCPlans
    Period <- MCPeriod
    Trial <- MCTrial
    Grace = 0
    SeatCounts = {}
    Expirations = {1}
    MaxRows = 2
    MaxTime = 2
\* requests stop at MaxRows and the clock at MaxTime
CHECK_DEADLOCK FALSE
INVARIANT
    PastDueHasGrace
PROPERTIES
    GraceEnds
    PeriodEnds
    GrantEnds
    LapsedBecomesReadOnly
