SPECIFICATION Spec
CONSTANTS
  MaxMedia = 3
  InCap = 1
  RecvCap = 1
  EvCap = 1
INVARIANTS
  TypeOK
  ChannelsSafe
  CloseComplete
  NothingLost
  StreamEndDeliversAll
  StreamEndIsSafe
  IInv
  ReceiveEndsLast
  EndAnnounced
PROPERTIES
  FeedsAudio
CHECK_DEADLOCK FALSE
