CONSTANTS
  C = C
  D = D
  S = S
  c1 = c1
  c2 = c2
  d1 = d1
  s1 = s1
  hostC = hostC
  hostD = hostD
  hostS = hostS
  Broadcast = Broadcast
  NoAddress = NoAddress
  Layer = "Layer3"
  Node <- MC3Node
  Addr <- MC3Addr
  Sockets <- MC3Sockets
  Config <- MC3Config
  Station <- MC3Station
  Home <- MC3Home
  TunIp <- MC3TunIp
  Traffic <- MC3Traffic
  MaxTx <- MC3MaxTx
  Duplicating = TRUE
  StaleLimit = 1
  DeadlineMs = 0
SPECIFICATION Spec
SYMMETRY MC3Symmetry
INVARIANTS
  TypeOK
  NoPanic
  AddressesOwned
  InOrderPerPeer
PROPERTY CountersNeverRewind
