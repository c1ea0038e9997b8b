SPECIFICATION Spec
CONSTANTS
  p1 = p1
  p2 = p2
  r1 = r1
  r2 = r2
  OldKey = OldKey
  NewKey = NewKey
  wrongKey = wrongKey
  Null = Null
  Soul = Soul
  Absent = Absent
  Damaged = Damaged
  Garbled = Garbled
  Procs <- TwoProcs
  Records <- TwoRecords
  Schemes <- BothSchemes
  Keys <- RightWrong
  MaxCalls = 2
  MaxFaults = 1
SYMMETRY Symmetry
CHECK_DEADLOCK FALSE
INVARIANT ExportVerifies
