SPECIFICATION FairSpec
CONSTANTS
  Lsb = 2
  MAX_FCNT_GAP = 2
  ADR_ACK_LIMIT = 2
  ADR_ACK_DELAY = 2
  Trials = 3
  MaxDR = 2
  AdrCtrlOn = TRUE
  NetAsks = TRUE
  Foreign = FALSE
  LateTypes = {}
  MaxLate = 0
  MaxDown = 2
  MaxSess = 1
PROPERTIES
  AsksBeforeDropping
  SilenceLowersDr
  WindowsMeet
  ConfirmedIsAcked
CHECK_DEADLOCK FALSE
