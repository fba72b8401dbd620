\* Three participants of whom some leave, vanish or come back to a new room.
SPECIFICATION LiveSpec
CONSTANTS
  MaxParticipants = 3
  MaxLeaves = 1
  MaxFrames = 2
  Vanishing = {1, 2}
  FollowBreaks = TRUE
INVARIANTS
  TypeOK
  FanOutInOrder
  FramesReachReaders
PROPERTIES
  HandlersEnd
  FollowersKeepUp
  FollowersStop
