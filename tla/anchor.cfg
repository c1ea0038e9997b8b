SPECIFICATION Spec
CONSTANTS
  p1 = p1
  p2 = p2
  r1 = r1
  r2 = r2
  Nil = Nil
  Domain = Domain
  Procs <- TwoProcs
  Records <- TwoRecords
  Funds = 3
  Fee = 1
  Dust = 2
  MaxCalls = 3
SYMMETRY Symmetry
INVARIANTS
  AnchorTypeOK
  RootWasLive
  RecordedUnlessLost
  FundsAccounted
  HeightsAreTrue
  AuditTellsAnchors
CHECK_DEADLOCK FALSE
PROPERTY AnchorsStay
