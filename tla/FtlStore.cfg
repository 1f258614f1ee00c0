SPECIFICATION Spec
CONSTANTS
  Blocks = 4
  Pages = 2
  PageSectors = 2
  Datum = {d1, d2}
  Blank = Blank
  Zero = Zero
  Junk = Junk
  NoPromise = NoPromise
  Faults = {}
  FactoryBad0 = {}
  FactoryBad1 = {}
  MinBlocks = 2
  FormatPercent = 50
  CheckPercent = 40
  Starts = {2, 3, 6}
  MaxLen = 3
  CutWhen = {"fmtErase", "fmtTag", "ready", "write", "wrUsed", "cpFind", "read"}
  MaxOp = 2
  MaxCut = 1
  MaxFault = 0
  MaxMark = 0
  MaxRot = 1
PROPERTY StoreSpec
CHECK_DEADLOCK FALSE
