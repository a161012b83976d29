CONSTANTS
  MaxFrames = 3
  MaxPackets = 3
  TooLong <- MCTooLong
  SendFails = TRUE
SPECIFICATION FairSpec
INVARIANTS
  SleepsOnlyWhenIdle
  OneFramePerPacket
PROPERTIES
  FramesAreForwarded
  PacketsAreWritten
CHECK_DEADLOCK FALSE
