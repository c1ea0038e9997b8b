SPECIFICATION Spec
CONSTANTS
  owner = owner
  body = body
  r1 = r1
  r2 = r2
  v1 = v1
  v2 = v2
  None = None
  Zeroed = Zeroed
  NoAccount = NoAccount
  Parties <- OwnerAndBody
  Subjects <- OneOwner
  Ids <- OneId
  Commits <- TwoCommits
  MaxTime = 2
  MaxCalls = 4
  MaxBatch = 2
SYMMETRY Symmetry
INVARIANT SameMemory
CHECK_DEADLOCK FALSE
