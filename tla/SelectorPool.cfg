SPECIFICATION LiveSpec
CONSTANTS
    sel = sel
    wf = wf
    None = None
    Batches = {sel, wf}
    Size <- ThreeAndOne
    Workflows = {wf}
    Replies = {"yes", "unavailable"}
    Cores = {"go", "rust"}
    Workers = 2
    Inflight = 2
INVARIANTS
    NothingFromPartialAnswers
    NothingOutlivesTheBatch
    MetricsAreTrue
PROPERTY
    EveryBatchReturns
CHECK_DEADLOCK FALSE
