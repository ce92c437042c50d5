SPECIFICATION EvaluationSpec
CONSTANTS
    None = None
    Tools <- MCTools
    Effect <- MCEffect
    Words <- MCWords
    Requests <- MCRequests
    Replies <- MCReplies
    QueryLimit = 2
    ScoreFrom = 2
    Kept = 3
    FirstPass = 2
    Shown = 2
    MostExposed = 2
    Ids = {1, 2, 3, 4, 5}
    Contents = {"new", "bad", "was"}
    Does <- MCDoes
    Cases <- MCCases
    Business <- MCBusiness
    Again <- MCAgain
    Stray <- MCStray
    MaxCalls = 3
    MaxAtOnce = 2
    MaxLate = 1
INVARIANTS
    SelectionIsEarned
    BestIsNeverHidden
    OrderDoesNotDecide
    WorkflowIsTaken
    LossIsWhereItHappened
    
CHECK_DEADLOCK FALSE
