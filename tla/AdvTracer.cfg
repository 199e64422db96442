SPECIFICATION FairSpec
CONSTANTS
  FIFO_SIZE = 5
  MaxText = 2
INVARIANTS
  TransferIsOldestText
  NoStopWhileSending
PROPERTIES
  SentIfNeverRefused
  StopModeReturns
