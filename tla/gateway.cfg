SPECIFICATION Spec
CONSTANTS
  p1 = p1
  p2 = p2
  o1 = o1
  o2 = o2
  b1 = b1
  l1 = l1
  l2 = l2
  r1 = r1
  r2 = r2
  v1 = v1
  v2 = v2
  Null = Null
  Procs <- TwoProcs
  Addresses <- Parties
  Souls <- TwoOwners
  Scopes <- ScopeNames
  ValidLayers <- VaultLayers
  LeaseIds <- TwoLeases
  Docs <- LeaseDocs
  Records <- TwoRecords
  Payloads <- TwoPayloads
  Messages <- SignedMessages
  MaxTime = 1
  MaxCalls = 4
SYMMETRY Symmetry
INVARIANTS
  TypeOK
  OperationsAuthorized
  RevocationEffective
  DeletionIsFinal
  LeaseLogAgrees
CHECK_DEADLOCK FALSE
