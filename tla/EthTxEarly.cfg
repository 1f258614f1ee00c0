SPECIFICATION Spec
CONSTANTS
  TxDescs = 2
  MaxSegs = 1
  Frames = 3
INVARIANT OkIsOwnCompletion
CHECK_DEADLOCK FALSE
