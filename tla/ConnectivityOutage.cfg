CONSTANTS
  C = C
  S = S
  c1 = c1
  s1 = s1
  hostC = hostC
  hostS = hostS
  Broadcast = Broadcast
  NoAddress = NoAddress
  Layer = "Layer3"
  Node <- MCNode
  Addr <- MCAddr
  Sockets <- MCSockets
  Config <- MCConfig
  Station <- MCStation
  Home <- MCHome
  TunIp <- MCTunIp
  Traffic <- MCNoTraffic
  MaxTx <- MCMaxTx
  Duplicating = FALSE
  DeadlineMs = 0
  StaleLimit = 6
  MaintenanceEvery = 1
  KeepaliveEvery = 2
  MaxLost = 3
SPECIFICATION TimedFairSpec
PROPERTY ConfiguredPeersAreContacted
