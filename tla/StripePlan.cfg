\* A plan change whose database write fails, webhooks in order.
SPECIFICATION StripeSpec
CONSTANTS
    team = team
    free = free
    Requests = {r1}
    StripeIds = {s1}
    RcIds = {}
    Manual = manual
    Plans <- MCTwoPlans
    FreePlan = free
    Fits <- MCTwoPlans
    SeatBased <- MCTwoPlans
    Period <- MCTwoPeriods
    Trial <- MCTwoTrials
    Grace = 1
    SeatCounts = {1}
    Expirations = {}
    MaxRows = 2
    MaxTime = 0
    InOrder = TRUE
    MaxEvents = 6
\* Stripe stops sending at MaxEvents
CHECK_DEADLOCK FALSE
INVARIANT
    PlanFollowsStripe
