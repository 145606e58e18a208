SPECIFICATION FairSpec
CONSTANTS
  N = 3
  Window = 2
  MaxRetries = 1
  Runs = 2
  Copies = 2
  Faults = {"loss", "write"}
CHECK_DEADLOCK FALSE
INVARIANTS
  RightImage
  ConfirmedStored
PROPERTIES
  HostTerminates
