SPECIFICATION MbSpec
CONSTANTS
  c1 = c1
  c2 = c2
  Client <- MCClient
  MaxReq = 2
  TransId <- MCTransId
  Trans <- MCSharedIds
  Broadcast = {}
  NoTrans = NoTrans
CHECK_DEADLOCK FALSE
INVARIANTS
  OwnResponse
