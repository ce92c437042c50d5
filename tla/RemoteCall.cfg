SPECIFICATION LiveSpec
CONSTANTS
    c1 = c1
    c2 = c2
    k1 = k1
    None = None
    Calls <- Calls_
    CallKey <- CallKey_
    Aims <- Aims_
    Timeout = 2
    Pause = 1
    Refusals <- Refusals_
INVARIANTS
    OneEffectPerKey
PROPERTIES
    NothingSentAfterTheEnd
    EveryCallSettles
CHECK_DEADLOCK FALSE
