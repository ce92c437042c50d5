SPECIFICATION ServiceSpec
CONSTANTS
  t1 = t1
  t2 = t2
  a1 = a1
  a2 = a2
  None = None
  Tools <- MCTools
  Args <- MCArgs
  Valid <- MCValid
  Principals = {owner1, stranger}
  AuthRevs = {rev1, rev2}
  Outcomes = {ok}
  OpLife = 3
  DecisionLife = 2
  MinLife = 1
  ReceiptLife = 2
  MaxRevision = 4
  MaxClock = 3
  Absent = Absent
  Callers = {r1, r2, r3}
  Processes = {"p1", "p2"}
  Wants <- MCWants
  Digest <- MCDigest
  Schemas <- MCSchemas
  Language <- MCKinds
  Compiles <- MCAccepts
  Clashes <- MCClashes
  MaxSchemas = 1
  MaxCrashes = 1
SYMMETRY Symmetric
INVARIANTS
  GrantsAreValid
  DecisionIsAuthorised
  VersionsAreImmutable
  OnlyTheCheckedIsKept
PROPERTIES
  SettledForever
  RevisionNamesView
CHECK_DEADLOCK FALSE
