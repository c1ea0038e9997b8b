SPECIFICATION Spec
CONSTANTS
  p1 = p1
  p2 = p2
  r1 = r1
  r2 = r2
  OldKey = OldKey
  NewKey = NewKey
  wrongKey = wrongKey
  Null = Null
  Soul = Soul
  Absent = Absent
  Damaged = Damaged
  Garbled = Garbled
  Procs <- TwoProcs
  Records <- TwoRecords
  Schemes <- Eip191
  Keys <- RightWrong
  MaxCalls = 3
  MaxFaults = 1
SYMMETRY Symmetry
INVARIANTS
  CapsuleTypeOK
  ExportVerifies
  VerifiedIsExport
  MountFaithful
  OneMount
PROPERTY MountRefinesAuditedIndex
CHECK_DEADLOCK FALSE
