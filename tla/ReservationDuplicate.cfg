SPECIFICATION Spec
CONSTANTS
  r1 = r1
  r2 = r2
  r3 = r3
  k1 = k1
  sameBody = sameBody
  otherBody = otherBody
  None = None
  Keys = {k1}
  Hashes = {sameBody, otherBody}
  Requests <- MCRequests
  RequestKey <- MCRequestKey
  RequestHash <- MCOneBody
  Lease = 2
  Deadline = 1
  MaxClock = 4
INVARIANTS
  NoConcurrentDuplicateWork
SYMMETRY MCSymmetry
CHECK_DEADLOCK FALSE
