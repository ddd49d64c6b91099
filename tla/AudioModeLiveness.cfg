SPECIFICATION FairSpec
CONSTANTS
  MaxMedia = 2
  InCap = 1
  RecvCap = 1
  EvCap = 0
PROPERTIES
  DeadlineEndsAudio
  CloseFinishes
  StreamStopEndsAudio
CHECK_DEADLOCK FALSE
