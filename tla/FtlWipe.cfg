SPECIFICATION Spec
CONSTANTS
  Blocks = 4
  Pages = 2
  PageSectors = 1
  Datum = {d1, d2}
  Blank = Blank
  Zero = Zero
  Junk = Junk
  NoPromise = NoPromise
  Faults = {"program"}
  FactoryBad0 = {}
  FactoryBad1 = {}
  MinBlocks = 2
  FormatPercent = 50
  CheckPercent = 40
  Starts = {0}
  MaxLen = 1
  CutWhen = {"ready"}
  MaxOp = 2
  MaxCut = 1
  MaxFault = 1
  MaxMark = 0
  MaxRot = 1
PROPERTY FormatOnce
CHECK_DEADLOCK FALSE
