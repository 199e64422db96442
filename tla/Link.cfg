SPECIFICATION Spec
CONSTANTS
  Lsb = 4
  MAX_FCNT_GAP = 3
  ADR_ACK_LIMIT = 2
  ADR_ACK_DELAY = 2
  Trials = 3
  MaxDR = 0
  AdrCtrlOn = FALSE
  NetAsks = FALSE
  Foreign = TRUE
  LateTypes = {FALSE}
  MaxLate = 1
  MaxDown = 5
  MaxSess = 2
INVARIANTS
  AckIsHonest
PROPERTIES
  DeliveredOnce
  FreshIsDelivered
  ServerAckIsHonest
CHECK_DEADLOCK FALSE
