SPECIFICATION Spec
CONSTANTS
  Blocks = 6
  Pages = 2
  PageSectors = 1
  Datum = {d1, d2}
  Blank = Blank
  Zero = Zero
  Junk = Junk
  NoPromise = NoPromise
  Faults = {"program"}
  FactoryBad0 = {}
  FactoryBad1 = {}
  MinBlocks = 2
  FormatPercent = 50
  CheckPercent = 0
  Starts = {0, 1}
  MaxLen = 2
  CutWhen = {"fmtErase", "fmtTag", "ready", "write", "wrUsed", "cpFind", "read"}
  MaxOp = 2
  MaxCut = 0
  MaxFault = 1
  MaxMark = 0
  MaxRot = 0
INVARIANT WriteTold
CHECK_DEADLOCK FALSE
