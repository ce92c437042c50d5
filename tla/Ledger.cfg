SPECIFICATION FairSpec
CONSTANTS
  e1 = e1
  e2 = e2
  ok = ok
  failed = failed
  None = None
  Attempts <- MCAttempts
  Results <- MCResults
  ErrorResults <- MCErrorResults
  DecisionLife = 1
  ResultLife = 2
  MaxClock = 3
INVARIANTS
  AtMostOneRun
  CallersAreWarned
  AnswersAreTheRuns
  RevocationHolds
PROPERTIES
  RowSettles
  ImplementsAtMostOnce
CHECK_DEADLOCK FALSE
