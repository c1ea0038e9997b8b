SPECIFICATION Spec
CONSTANTS
  p1 = p1
  p2 = p2
  owner = owner
  body = body
  r1 = r1
  r2 = r2
  id = id
  v = v
  None = None
  HashOfNothing = HashOfNothing
  Procs <- TwoProcs
  Parties <- OwnerAndBody
  Subjects <- OneOwner
  Ids <- OneId
  Commits <- OneCommit
  Records <- TwoRecords
  Hours <- OneHour
  MaxTime = 2
  MaxCalls = 2
SYMMETRY Symmetry
INVARIANTS
  ClientTypeOK
  ToldTruth
  ChainKeepsOrder
  RevocationHolds
  AnchoredWasLive
  RootTellsMemory
CHECK_DEADLOCK FALSE
