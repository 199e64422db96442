SPECIFICATION Spec
CONSTANTS
  FragNb = 5
  NbCoded = 2
  FRAG_MAX_REDUNDANCY = 2
  Frames <- MCFrames
  TxDelayTime = 2
INVARIANT
  OnDoneIsSuccess
