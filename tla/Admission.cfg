SPECIFICATION LiveSpec
CONSTANTS
    g = g
    h = h
    r1 = r1
    r2 = r2
    r3 = r3
    r4 = r4
    s1 = s1
    None = None
    Requests <- Requests_
    Processes = {g, h}
    Scopes = {s1}
    Rust = {h}
    Home <- Home_
    ScopeOf <- ScopeOf_
    Invalid = {r3}
    GlobalLimit = 2
    ScopeLimit = 1
    PoolSize = 1
    Quota = 1
    Burst = 1
    Second = 1
    Windows = 2
INVARIANTS
    SlotsAreHeld
    QuotaHolds
PROPERTY
    EveryRequestLeaves
CHECK_DEADLOCK FALSE
