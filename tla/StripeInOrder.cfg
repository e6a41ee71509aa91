\* Webhooks arrive in order and one request runs at a time; nothing falls due.
SPECIFICATION StripeSpec
CONSTANTS
    free = free
    team = team
    Requests = {r1}
    StripeIds = {s1}
    RcIds = {}
    Manual = manual
    Plans <- MCPlans
    FreePlan = team
    Fits <- MCPlans
    SeatBased <- MCPlans
    Period <- MCPeriod
    Trial <- MCTrial
    Grace = 1
    SeatCounts = {1, 2}
    Expirations = {}
    MaxRows = 2
    MaxTime = 1
    InOrder = TRUE
    MaxEvents = 6
\* Stripe stops sending at MaxEvents
CHECK_DEADLOCK FALSE
INVARIANTS
    StripeTypeOK
    EndedAtStripeIsExpired
    SeatsFollowStripe
PROPERTY
    CreateLeavesOneLive
