CONSTANTS
  Requests <- JoinOnly
  QueueLen = 2
  ChannelsNbTrans = 2
  NbTrials = 2
  DefaultClass = "A"
  AppClasses = {}
  AppTypes = {"UNCONFIRMED", "CONFIRMED"}
  DelayedTypes = {"UNCONFIRMED"}
  Frames = {"accept", "badAccept", "data", "ack", "pending", "repeated"}
  Outcomes = {"OK", "DUTYCYCLE_RESTRICTED", "ERROR"}
  IsrOutcomes = {"OK"}
  Faults = {"txTimeout", "crcError"}
  MaxUplinks = 2
  MaxJoins = 2
SPECIFICATION FairSpec
INVARIANTS QuietWhenFree RetriesAreSpent OkMeansSent
PROPERTIES CounterPerFrame TransmissionUndisturbed KeepsService
CHECK_DEADLOCK FALSE
