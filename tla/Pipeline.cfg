CONSTANTS
  r1 = r1
  r2 = r2
  Remote <- MCRemote
  FirstRemote = r1
  Capacity = 1
  MaxQueued = 1
  Copies <- MCCopies
  CanFail <- MCEveryone
SPECIFICATION FairSpec
INVARIANT TypeOK
PROPERTIES
  FatalErrorEndsProcess
  CircularWaitIsPermanent
  StuckOnlyInCircularWait
CHECK_DEADLOCK FALSE
