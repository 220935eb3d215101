\* From five ways to start the server on: two drafts with the same arguments,
\* one in a trace of its own, a read and a stub.
SPECIFICATION PolicyCenterSpec
CONSTANTS
    d1 = d1  d2 = d2  r1 = r1  s1 = s1  t1 = t1  t2 = t2
    Drafts = {d1, d2}
    Reads = {r1}
    Stubs = {s1}
    PlanKey <- SameKey
    TraceOf <- SharedTrace
    NoDraft = NoDraft
    Launches <- Starts
    Contents <- Directories
    NoValue = NoValue
    Flawed = Flawed
    Unread = Unread
INVARIANTS
    PolicyCenterTypeOK TrailTellsTool BundleIsCovered ExecutionIsShown ReplayIsShown
    NeverDegrades GateHolds RefusalIsExplained NoMocks
PROPERTIES ReadsShow
CHECK_DEADLOCK FALSE
