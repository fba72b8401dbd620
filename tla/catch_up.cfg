\* Failed writes and reads, a small ring, a client that reads or does not.
SPECIFICATION LiveSpec
CONSTANTS
  a1 = a1
  a2 = a2
  a3 = a3
  f1 = f1
  f2 = f2
  None = None
  Err = Err
  BlockSize = 2
  MaxSeqNum = 8
  Faults <- WritesFail
  Appends <- ThreeAppends
  Followers <- OneFollower
  Starts = {0, 3}
  ReadsFail = TRUE
  CommandBuffer = 2
  BroadcastBuffer = 1
INVARIANTS
  NoAckedRecordSkipped
PROPERTIES
  AppendsAnswered
  FollowersCatchUp
  GoneTasksEnd
