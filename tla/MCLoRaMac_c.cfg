CONSTANTS
  Requests <- JoinOnly
  QueueLen = 2
  ChannelsNbTrans = 1
  NbTrials = 2
  DefaultClass = "C"
  AppClasses = {}
  AppTypes = {"UNCONFIRMED", "CONFIRMED"}
  DelayedTypes = {}
  Frames = {"accept", "data", "ack"}
  Outcomes = {"OK"}
  IsrOutcomes = {"OK"}
  Faults = {}
  MaxUplinks = 2
  MaxJoins = 1
SPECIFICATION FairSpec
INVARIANTS OneUplinkAtATime
PROPERTIES KeepsService
CHECK_DEADLOCK FALSE
