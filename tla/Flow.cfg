CONSTANTS
  p1 = p1
  p2 = p2
  a = a
  Paths <- MCPaths
  LossyPaths <- MCOneReliable
  Payload <- MCPayload
  MaxSeq = 3
  DeadlineMs = 1
SPECIFICATION FairSpec
INVARIANTS
  TypeOK
  DeliveredInOrder
  NothingAcceptedIsLost
  EveryGapHasADeadline
  NoReleasablePacketWaits
PROPERTIES
  ImplementsTunnel
  QueuedIsDelivered
  OneReliablePathSuffices
