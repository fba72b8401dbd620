\* A process that restarts at any point, over storage that loses no block.
SPECIFICATION Spec
CONSTANTS
  d1 = d1
  d2 = d2
  None = None
  Data <- MCData
  BlockSize = 3
  MaxSeqNum = 6
  Faults <- BlocksKept
INVARIANTS
  TypeOK
  AckedDurable
  RestartAboveRecords
  RestartWasteBounded
PROPERTIES
  AppendOnly
  ImplementsLog
