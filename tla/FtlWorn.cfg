SPECIFICATION FairSpec
CONSTANTS
  Blocks = 6
  Pages = 2
  PageSectors = 1
  Datum = {d1}
  Blank = Blank
  Zero = Zero
  Junk = Junk
  NoPromise = NoPromise
  Faults = {"program", "erase", "mark"}
  FactoryBad0 = {0}
  FactoryBad1 = {4}
  MinBlocks = 2
  FormatPercent = 50
  CheckPercent = 0
  Starts = {1, 2}
  MaxLen = 1
  CutWhen = {"ready"}
  MaxOp = 2
  MaxCut = 0
  MaxFault <- Unbounded
  MaxMark = 2
  MaxRot = 1
INVARIANT NoLbnLost
PROPERTY RequestsEnd
CHECK_DEADLOCK FALSE
