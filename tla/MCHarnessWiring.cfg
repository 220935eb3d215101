\* Two attempts at one write, with any sink or those in memory: refinement,
\* progress and what the sink in memory adds.
SPECIFICATION FairWiringSpec
CONSTANTS
    c1 = c1  c2 = c2  p1 = p1
    Calls = {c1, c2}
    Procs = {p1}
    NoCall = NoCall
    InputOf <- SameWrite
    ProcOf <- OneProcess
    PolicyOutcomes <- AnyOutcome
    MaxFaults = 1
    Wirings <- AllWirings
    Ttl = 1
    Timeout = 1
    MaxTime = 1
INVARIANTS
    WriteAheadAudit WriteAuthorised ReplayIsBacked TrailTellsAnswer
    WiringTypeOK RowTellsVotes ExpiredForCause WritesAreRuled
PROPERTIES AtMostOnce EveryCallSettles
CHECK_DEADLOCK FALSE
