SPECIFICATION FairSpec
CONSTANTS
  p1 = p1
  p2 = p2
  r1 = r1
  r2 = r2
  s1 = s1
  s2 = s2
  k1 = k1
  k2 = k2
  NoKey = NoKey
  Null = Null
  Procs <- TwoProcs
  Readers <- NoReaders
  Records <- OneRecord
  Souls <- OneSoul
  Keys <- OneKey
  MaxCalls = 6
  MaxFaults = 1
PROPERTY DeletionIsReal
CHECK_DEADLOCK FALSE
