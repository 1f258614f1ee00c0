SPECIFICATION FairSpec
CONSTANTS
  RxDescs = 2
  Buffers = 4
  Freers = {tcpip, app}
INVARIANTS TypeOK BuffersKept RingOrder StopsOnlyIfRescued
PROPERTY FramesRead
CHECK_DEADLOCK FALSE
