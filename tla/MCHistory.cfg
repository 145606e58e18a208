SPECIFICATION RecorderSpec
CONSTANTS
  s1 = s1
  s2 = s2
  Syncer = {s1, s2}
  NoName = NoName
  QueueLen = 2
  FileMax = 2
  MaxFiles = 1
  MaxSample = 3
  MaxName = 4
  Scenario <- MCScenario
CHECK_DEADLOCK FALSE
INVARIANTS
  LossIsOldest
PROPERTIES
  SyncFlushes
  SyncReturns
