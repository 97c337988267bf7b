CONSTANTS
  FIELD = 2
  RADIX = 4
  DEFAULT_READ_BUFFER = 5
  MaxPackets = 1
  Captures <- FlippedCaptures
SPECIFICATION Spec
INVARIANT
  RecordsInOrder
