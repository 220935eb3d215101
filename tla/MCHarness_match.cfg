\* Does execute() demand a matching Approval?
SPECIFICATION SpecLax
CONSTANTS
    c1 = c1  c2 = c2  p1 = p1
    Calls = {c1, c2}
    Procs = {p1}
    NoCall = NoCall
    InputOf <- SameWrite
    ProcOf <- OneProcess
    PolicyOutcomes <- NeedsApproval
    MaxFaults = 0
INVARIANT ApprovalMatches
CHECK_DEADLOCK FALSE
