SPECIFICATION FairSpec
CONSTANTS
  r1 = r1
  r2 = r2
  r3 = r3
  k1 = k1
  sameBody = sameBody
  otherBody = otherBody
  None = None
  Keys = {k1}
  Hashes = {sameBody, otherBody}
  Requests <- MCRequests
  RequestKey <- MCRequestKey
  RequestHash <- MCRequestHash
  Lease = 2
  Deadline = 1
  MaxClock = 3
INVARIANTS
  CommitOnce
  AnswersAgree
  OwnersExclusive
  AnswerFitsRequest
PROPERTIES
  EveryRequestEnds
  ImplementsOnceStore
CHECK_DEADLOCK FALSE
