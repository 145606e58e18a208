SPECIFICATION FairSpec
CONSTANTS
  Work = work
  Main = main
  Sender = {work, heart}
  FifoDepth = 2
  Retries = 1
INVARIANTS
  SentMeansAcked
  NothingLeftToSend
  ListensWhenIdle
  NoPhantomFrame
PROPERTIES
  RxServed
