\* Webhooks of two subscriptions arrive in any order, one request at a time.
SPECIFICATION StripeSpec
CONSTANTS
    free = free
    team = team
    Requests = {r1}
    StripeIds = {s1, s2}
    RcIds = {}
    Manual = manual
    Plans <- MCPlans
    FreePlan = team
    Fits <- MCPlans
    SeatBased <- MCPlans
    Period <- MCPeriod
    Trial <- MCTrial
    Grace = 1
    SeatCounts = {1}
    Expirations = {}
    MaxRows = 3
    MaxTime = 0
    InOrder = FALSE
    MaxEvents = 6
\* Stripe stops sending at MaxEvents
CHECK_DEADLOCK FALSE
INVARIANT
    AtMostOneLive
