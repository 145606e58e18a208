SPECIFICATION UpgradeSpec
CONSTANTS
  App = {"io-edge-hub", "canopen-io", "apollo-v2", "apollo-v2 start", "n2e-gw"}
  a = a
  b = b
  Chunk <- MCChunk
  Image <- MCImage
  Erased = Erased
  Junk = Junk
  SlotLen = 4
  BlockLen = 2
  PageLen = 2
  Enabled = {"UDP", "CAN", "WS"}
  FontFile = {1, 2}
  FwFile = {3}
  Blocks <- MCBlocks
  FontMax = 2
  Blank = Blank
  Smudged = Smudged
  NoFile = NoFile
  MaxClicks = 2
  MaxUpset = 2
  MaxWire = 1
  Lease <- MCLease
  Fallback = "fallback"
  SdRetryMax = 2
  MaxLease = 2
  MaxTouch = 2
  Subnet <- MCSubnet
  Command <- MCCommand
  QueueLen = 2
INVARIANTS
  MutualExclusion
  NoLeak
  UdpArmedImage
  OffsetCountsStored
  CompleteIsKept
  ComesUp
