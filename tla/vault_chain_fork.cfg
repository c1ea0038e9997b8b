SPECIFICATION Spec
CONSTANTS
  p1 = p1
  p2 = p2
  r1 = r1
  r2 = r2
  s1 = s1
  s2 = s2
  k1 = k1
  k2 = k2
  NoKey = NoKey
  Null = Null
  Procs <- TwoProcs
  Readers <- TwoProcs
  Records <- OneRecord
  Souls <- OneSoul
  Keys <- OneKey
  MaxCalls = 5
  MaxFaults = 0
SYMMETRY Symmetry
INVARIANT ChainOK
CHECK_DEADLOCK FALSE
