\* Three requests on two basins; everything may fail.
SPECIFICATION LiveSpec
CONSTANTS
  b1 = b1
  b2 = b2
  s1 = s1
  s2 = s2
  Blank = Blank
  MaxRequests = 3
  MaxLate = 1
  Basins = {b1, b2}
  Streams = {s1}
  StorageFails = TRUE
  Cancels = TRUE
  Crashes = TRUE
INVARIANTS
  TypeOK
  OneActorPerStream
  GivenStaysFound
  CachesMatchStorage
  NotFoundIsHonest
  ListsShowAppended
PROPERTIES
  EveryRequestEnds
