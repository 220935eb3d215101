\* A write and its retry over one approvals table, approvers who disagree.
SPECIFICATION PgWiringSpec
CONSTANTS
    c1 = c1  c2 = c2  p1 = p1  p2 = p2  v1 = v1  v2 = v2
    Calls = {c1, c2}
    Procs = {p1, p2}
    NoCall = NoCall
    InputOf <- SamePlan
    ProcOf <- OwnProcess
    PolicyOutcomes <- RulesMayChange
    MaxFaults = 1
    Votes = {v1, v2}
    Verdict <- Disagree
    TtlMs = 1
    PollMs = 1
    WaitMs = 1
    NoTimeout = NoTimeout
    MaxClock = 1
INVARIANTS ExecutedIsTheWrite WritesAreVotedFor VoterAndCallerAgree TimeoutIsFinal
CHECK_DEADLOCK FALSE
