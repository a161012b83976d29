CONSTANTS
  r1 = r1
  r2 = r2
  a = a
  b = b
  c = c
  Remote <- MCRemote
  Lz4 <- MCOneLz4
  Addr <- MCAddr
  Capacity = 2
  Round <- MCRound
  Bursts <- MCTraffic
  Arriving <- MCArriving
  NoRoute <- MCNoRoute
  Failing <- MCFailing
  MaxSent = 4
SPECIFICATION HistoryFairSpec
INVARIANTS
  TypeOK
  OnlyLaggardsMiss
PROPERTIES
  EveryRemoteIsATunnel
  SentIsWritten
