\* Five chunks against a slow browser whose appends may throw.
SPECIFICATION LiveSpec
CONSTANTS
  MaxChunks = 5
  MayThrow = TRUE
\* The peer may have sent all its chunks.
CHECK_DEADLOCK FALSE
INVARIANTS
  TypeOK
  ChunksAreKept
  OvertakenByArrivalsOnly
PROPERTIES
  QueueDrains
