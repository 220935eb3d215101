\* Do racing appends wait for their turn?
SPECIFICATION Spec
CONSTANTS
    w1 = w1  w2 = w2  w3 = w3  w4 = w4  t1 = t1  t2 = t2
    Appends = {w1, w2, w4}
    Tenants = {t1, t2}
    TenantOf <- OneElse
    InputOf <- Inputs
    PoolSize = 2
    NoAppend = NoAppend
    MaxFaults = 0
INVARIANT AppendsWaitTheirTurn
CHECK_DEADLOCK FALSE
