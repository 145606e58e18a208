SPECIFICATION NodesSpec
CONSTANTS
  Plans <- MCPlans
  KeyFrames = 2
  Interval = 2
  BlockFrames = 2
  QueueLen = 4
  MaxTrouble = 2
  Scenario <- MCScenario
  Low = 5
  Window = 3
  Retries = 1
  MsgqLen = 2
  Sdo <- MCSdo
  MaxMishap = 2
  SlotLen = 3
  Addr <- MCAddr
  Net <- MCNet
  Orders <- MCOrders
  MaxStarts = 1
  Ecu = {1, 3}
  HostName = 2
  Preferred = 2
  HostPreferred = 2
  Packets = 2
  Cases <- MCCases
  MsgqDepth = 4
CHECK_DEADLOCK FALSE
INVARIANTS
  LinkFaithful
  SlotOfOne
  CleanRunSucceeds
  ParamsAgree
  OneClaimOneSnapshot
PROPERTIES
  OkIsInstalled
  WaitEnds
  LedSettles
