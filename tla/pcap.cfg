CONSTANTS
  FIELD = 2
  RADIX = 4
  DEFAULT_READ_BUFFER = 5
  MaxPackets = 0
  Captures <- MCCaptures
SPECIFICATION FairSpec
INVARIANTS
  FramedInOrder
  AllReturned
  ReadsAll
PROPERTIES
  Termination
