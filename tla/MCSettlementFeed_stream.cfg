SPECIFICATION FairFeedSpec
CONSTANTS
  c1 = c1
  Clients = {c1}
  Threshold = 2
  MaxDegraded = 2
  MaxFails = 4
  BufferMax = 2
  MaxBlocks = 0
  MaxHead = 2
  MaxSent = 1
  MaxStarts = 1
CHECK_DEADLOCK FALSE
INVARIANTS DegradesInTime OpenIsEarned NoEventSkipped StreamInOrder
PROPERTIES EventsAreRead StreamsCatchUp
