CONSTANTS
  r1 = r1
  r2 = r2
  a = a
  b = b
  c = c
  Remote <- MCRemote
  Lz4 <- MCOneLz4
  Addr <- MCAddr
  Capacity = 2
  Round <- MCRound
  Bursts <- MCNone
  Arriving <- MCArrivingPlain
  NoRoute <- MCNoRoute
  Failing <- MCNone
  MaxSent = 2
SPECIFICATION HistorySpec
INVARIANT GarbageIsThrownAway
