CONSTANTS
  p1 = p1
  p2 = p2
  Paths <- MCPaths
  LossyPaths <- MCLossy
  Payload <- MCPayload
  MaxSeq = 2
  MaxEpoch = 1
  MaxBoots = 1
  DeadlineMs = 0
SPECIFICATION RestartFairSpec
INVARIANTS
  OrderSurvivesRestarts
  BlackoutIsBounded
PROPERTIES
  RestartedSenderIsHeard
  RestartedReceiverCatchesUp
