\* A creation cut between its two writes, then a restart.
SPECIFICATION Spec
CONSTANTS
  d1 = d1
  d2 = d2
  None = None
  Data <- MCData
  BlockSize = 2
  MaxSeqNum = 3
  Faults = {"crash", "cut_creation"}
INVARIANTS
  AckedDurable
