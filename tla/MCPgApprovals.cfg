\* A request and a re-request, two approvers who disagree, failures anywhere.
SPECIFICATION FairSpec
CONSTANTS
    r1 = r1  r2 = r2  v1 = v1  v2 = v2  plan = plan
    Requests = {r1, r2}
    Plans = {plan}
    PlanOf <- OnePlan
    Votes = {v1, v2}
    Verdict <- Disagree
    Ttl = 2
    Poll = 1
    Timeout <- NoWait
    NoTimeout = NoTimeout
    NoRequest = NoRequest
    MaxTime = 2
INVARIANT NeverExpiredEarly
PROPERTIES Lifecycle AbandonedNeedsAVote WaitEnds
CHECK_DEADLOCK FALSE
