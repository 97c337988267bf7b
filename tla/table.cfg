SPECIFICATION TableSpec
CONSTANTS
  Packets <- MCPackets
  NoPacket = NoPacket
  BigTableSize = 2
  MIN_PKT_SIZE = 3
  U32 = 4
  LengthIncluded <- MCLengthIncluded
  IsTransport <- MCIsTransport
  PayloadOffset <- MCPayloadOffset
  Data <- MCData
INVARIANTS
  TableTypeOK
  PacketMemory
  SeenExact
  HitAccounting
