\* Normal operation: is the duplicate error never raised?
SPECIFICATION Spec
CONSTANTS
    c1 = c1  c2 = c2  p1 = p1
    Calls = {c1, c2}
    Procs = {p1}
    NoCall = NoCall
    InputOf <- SameWrite
    ProcOf <- OneProcess
    PolicyOutcomes <- AnyOutcome
    MaxFaults = 0
INVARIANT DuplicateNeverFires
CHECK_DEADLOCK FALSE
