SPECIFICATION CtSpec
CONSTANTS
  Plans <- MCPending
  KeyFrames = 2
  Interval = 2
  BlockFrames = 2
  QueueLen = 8
  MaxTrouble = 0
CHECK_DEADLOCK FALSE
PROPERTY BootOkIsInstalled
