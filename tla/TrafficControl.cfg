CONSTANTS
  Sizes = {1, 3}
  Mtu = 2
  DiscPackets = 3
  DevPackets = 3
  DevBytes = 6
  m_quota = 2
  MinLimit = 0
  MaxLimit = 3
  Word = 16
SPECIFICATION FairSpec
INVARIANTS StoppedWillWake NothingForgotten RoomForPacket BytesAccounted BacklogBounded
PROPERTIES DiscDrains
