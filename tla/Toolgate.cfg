SPECIFICATION SystemSpec
CONSTANTS
  t1 = t1
  t2 = t2
  a1 = a1
  a2 = a2
  e1 = e1
  e2 = e2
  ok = ok
  user = user
  rev = rev
  None = None
  Tools <- MCTools
  Args <- MCArgs
  Valid <- MCValid
  LocallyValid <- MCLocallyValid
  Principals = {user}
  AuthRevs = {rev}
  Outcomes = {ok}
  Caller <- MCCaller
  Attempts <- MCAttempts
  Results <- MCResults
  ErrorResults = {}
  OpLife = 1
  DecisionLife = 1
  MinLife = 1
  ReceiptLife = 1
  ResultLife = 1
  MaxRevision = 3
  MaxClock = 1
SYMMETRY MCSymmetry
INVARIANTS
  SnapshotFollowsCore
  OnlyTheDecidedRuns
PROPERTIES
  ImplementsLedger
CHECK_DEADLOCK FALSE
