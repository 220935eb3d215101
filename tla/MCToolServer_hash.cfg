\* Does a draft's hashSummary belong to its body?
SPECIFICATION ServerSpec
CONSTANTS
    d1 = d1  d2 = d2  d3 = d3  r1 = r1  s1 = s1  t1 = t1  t2 = t2  t3 = t3
    Drafts = {d1, d2}
    Reads = {r1}
    Stubs = {s1}
    PlanKey <- SameKey
    TraceOf <- SharedTrace
    NoDraft = NoDraft
INVARIANT HashIsOfBody
CHECK_DEADLOCK FALSE
