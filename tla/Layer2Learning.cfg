CONSTANTS
  C = C
  D = D
  S = S
  c1 = c1
  c2 = c2
  d1 = d1
  s1 = s1
  hostC = hostC
  hostD = hostD
  hostS = hostS
  Broadcast = Broadcast
  NoAddress = NoAddress
  Layer = "Layer2"
  Node <- MC2Node
  Addr <- MC2Addr
  Sockets <- MC2Sockets
  Config <- MC2Config
  Station <- MC2Station
  Home <- MC2Home
  TunIp <- MC2TunIp
  Traffic <- MC2Traffic
  MaxTx <- MC2MaxTx
  Duplicating = TRUE
  StaleLimit = 1
  DeadlineMs = 0
SPECIFICATION Spec
INVARIANT SendersAreLearned
