\* Two basins and two streams whose ids and names sit at the edges of ranges.
SPECIFICATION Spec
CONSTANTS
  MaxByte = 4
  IdWidth = 1
  SeqNumWidth = 2
  Unbounded = Unbounded
  Malformed = Malformed
  BasinIds <- MCBasinIds
  StreamIds <- MCStreamIds
  Names <- MCNames
  SeqNums <- MCSeqNums
  Payloads <- MCPayloads
  BlockSize = 5
  MaxPuts = 2
\* All names may be taken and all records put.
CHECK_DEADLOCK FALSE
INVARIANTS
  TypeOK
  ListsAreExact
  GetsAreExact
