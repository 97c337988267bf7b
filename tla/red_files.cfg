SPECIFICATION Spec
CONSTANTS
  Consumers = {c1, c2, c3}
  Producer = p
  Files <- TwoFiles
  HeaderOK <- MCHeaderOK
  EofPacket <- MCEofPacket
  MAX_SIZE = 2
  SpuriousFiles = {1}
  NoThread = NoThread
  Packets <- MCPackets
  NoPacket = 0
  BigTableSize = 1
  MIN_PKT_SIZE = 3
  U32 = 8
  LengthIncluded <- MCLengthIncluded
  IsTransport <- MCIsTransport
  PayloadOffset <- MCPayloadOffset
  Data <- MCData
CHECK_DEADLOCK FALSE
INVARIANTS
  MutualExclusion
  NoStrandedPacket
  SomeConsumerStays
  AllProcessed
PROPERTIES
  StackSpec
  TableSpec
