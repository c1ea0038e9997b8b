SPECIFICATION FairSpec
CONSTANTS
  p1 = p1
  p2 = p2
  r1 = r1
  r2 = r2
  s1 = s1
  s2 = s2
  k1 = k1
  k2 = k2
  NoKey = NoKey
  Null = Null
  Procs <- TwoProcs
  Readers <- TwoProcs
  Records <- TwoRecords
  Souls <- TwoSouls
  Keys <- TwoKeys
  MaxCalls = 4
  MaxFaults = 2
INVARIANTS
  TypeOK
  ForksOnlyAtReads
  ActiveHasFile
  AuditAgreesWithIndex
  StrayFilesPending
  InitOnce
PROPERTIES
  RefinesAuditedIndex
  PurgeUnlessKilled
  PutSettles
  InitCompletes
CHECK_DEADLOCK FALSE
