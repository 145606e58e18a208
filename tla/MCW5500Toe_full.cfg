SPECIFICATION ToeFairSpec
CONSTANTS
  Slot = {1, 2, 3}
  Hw = {0, 1, 2}
  Caller = {1, 2}
  ListenKeep = 2
  Defective = {0}
  AppUses <- MCFull
  MaxPeers = 1
CHECK_DEADLOCK FALSE
PROPERTY PassEnds
