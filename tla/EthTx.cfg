SPECIFICATION Spec
CONSTANTS
  TxDescs = 3
  MaxSegs = 4
  Frames = 5
INVARIANTS TypeOK PayloadHeld OwnedRun NoneForgotten HeldBound OkMeansSent
CHECK_DEADLOCK FALSE
