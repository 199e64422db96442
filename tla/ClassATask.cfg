SPECIFICATION FairSpec
CONSTANTS
  EVENT_QUEUE_SIZE = 4
  MAX_JOIN_ATTEMPTS = 2
  MaxFrames = 2
INVARIANTS
  ResponseIsForRequest
  AnswerExists
PROPERTIES
  CallsReturn
  LossIsAnswered
CHECK_DEADLOCK FALSE
