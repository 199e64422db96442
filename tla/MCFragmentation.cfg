SPECIFICATION FairSpec
CONSTANTS
  FragNb = 5
  NbCoded = 5
  FRAG_MAX_REDUNDANCY = 3
  Frames <- MCFrames
  TxDelayTime = 2
INVARIANTS
  DoneIsWhole
  DoneWhenDetermined
PROPERTIES
  AnswerLeaves
  FileIsReported
