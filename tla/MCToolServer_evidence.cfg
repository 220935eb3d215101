\* Is the execution in a bundle an ExecuteResult?
SPECIFICATION ServerSpec
CONSTANTS
    d1 = d1  d2 = d2  d3 = d3  r1 = r1  s1 = s1  t1 = t1  t2 = t2  t3 = t3
    Drafts = {d1, d2}
    Reads = {r1}
    Stubs = {s1}
    PlanKey <- SameKey
    TraceOf <- OwnTrace
    NoDraft = NoDraft
INVARIANT EvidenceHoldsResult
CHECK_DEADLOCK FALSE
