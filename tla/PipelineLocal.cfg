CONSTANTS
  r1 = r1
  r2 = r2
  Remote <- MCRemote
  FirstRemote = r1
  Capacity = 1
  MaxQueued = 1
  Copies <- MCCopies
  CanFail <- MCNobody
SPECIFICATION FairSpec
PROPERTY LocalPacketsEnterMpsc
CHECK_DEADLOCK FALSE
