\* A join meets the leave of the last participant.
SPECIFICATION Spec
CONSTANTS
  MaxParticipants = 2
  MaxLeaves = 2
  MaxFrames = 1
  Vanishing = {}
  FollowBreaks = FALSE
INVARIANTS
  TornDownRoomsAreEmpty
