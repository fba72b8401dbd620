\* Two followers and two appends over a process that restarts.
SPECIFICATION Spec
CONSTANTS
  a1 = a1
  a2 = a2
  a3 = a3
  f1 = f1
  f2 = f2
  None = None
  Err = Err
  BlockSize = 2
  MaxSeqNum = 5
  Faults <- BlocksKept
  Appends <- TwoAppends
  Followers <- TwoFollowers
  Starts = {0, 1}
  ReadsFail = FALSE
  CommandBuffer = 2
  BroadcastBuffer = 1
SYMMETRY Interchangeable
INVARIANTS
  TypeOK
  FollowerOrder
  EndIsReported
  AckNamesOwnRecord

  
