SPECIFICATION EdgeSpec
CONSTANTS
  Bit = {0, 1}
  Address <- MCAddress
  DefaultIp <- MCDefaultIp
  BadOctet = 9
  Installation <- MCInstallation
  NoThread = NoThread
  SpareBit = 8
  CoInstallation <- MCCoInstallation
  Visitor = {1, 2}
  Visits <- MCVisits
  BodyMax = 3
  MaxBody = 5
  FileBytes = 3
  DlChunk = 2
  WsSlot = {0}
  NoClient = NoClient
  Session = {1, 2}
  Socket = {s1, s2}
  Text <- MCText
  Block = 2
  FtpName = {"a"}
  MaxParts = 2
  MaxFile = 5
  Habits <- MCHabits
  CR = CR
  LF = LF
  NoSocket = NoSocket
  Gone = Gone
  c1 = c1
  c2 = c2
  Client <- MCClient
  MaxReq = 3
  TransId <- MCTransId
  Trans <- MCTrans
  Broadcast <- MCBroadcast
  NoTrans = NoTrans
  Conn = {1, 2}
  Frames <- MCFrames
  Timeouts = TRUE
CHECK_DEADLOCK FALSE
INVARIANTS
  OutputsAgree
  AddressKept
  OwnBody
  NothingLeftOpen
  RightAnswer
  FramesInStep
PROPERTIES
  NoLostBit
  FilesWhole
  FtpServes
  MastersServed
