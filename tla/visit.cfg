\* A visit whose effects run twice, two peers, four recorded chunks.
SPECIFICATION LiveSpec
CONSTANTS
  p1 = p1
  p2 = p2
  Mounts = 2
  Senders = {p1, p2}
  Supported = TRUE
  MaxChunks = 4
\* The page may be gone and everything answered.
CHECK_DEADLOCK FALSE
INVARIANTS
  TypeOK
  ConnectionIsOwn
  CameraIsHeld
PROPERTIES
  LeftStaysLeft
  RecordingStarts
