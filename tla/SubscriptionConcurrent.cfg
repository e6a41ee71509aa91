\* Two requests interleave at every statement; nothing falls due (MaxTime = 0).
SPECIFICATION Spec
CONSTANTS
    team = team
    Requests = {r1, r2}
    StripeIds = {s1}
    RcIds = {rc1}
    Manual = manual
    Plans <- MCPlans
    FreePlan = team
    Fits <- MCPlans
    SeatBased <- MCPlans
    Period <- MCPeriod
    Trial <- MCTrial
    Grace = 0
    SeatCounts = {1}
    Expirations = {}
    MaxRows = 2
    MaxTime = 0
\* requests stop at MaxRows and the clock at MaxTime
CHECK_DEADLOCK FALSE
SYMMETRY MCSymmetry
INVARIANTS
    TypeOK
    OneRowPerProviderId
PROPERTY
    RowsKeepTheirProvider
