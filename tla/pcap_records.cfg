CONSTANTS
  FIELD = 2
  RADIX = 4
  DEFAULT_READ_BUFFER = 5
  MaxPackets = 0
  Captures <- WholeCaptures
SPECIFICATION Spec
INVARIANT
  RecordsInOrder
