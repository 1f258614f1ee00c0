SPECIFICATION Spec
CONSTANTS
  Blocks = 6
  Pages = 2
  PageSectors = 1
  Datum = {d1,d2}
  Blank = Blank
  Zero = Zero
  Junk = Junk
  NoPromise = NoPromise
  Faults = {"program", "erase", "mark"}
  FactoryBad0 = {}
  FactoryBad1 = {}
  MinBlocks = 2
  FormatPercent = 50
  CheckPercent = 0
  Starts = {1,4}
  MaxLen = 1
  CutWhen = {"fmtErase", "fmtMark", "fmtMark2", "fmtTag", "ready", "write", "wrUsed", "cpFind", "cpPage", "cpMark", "cpMark2", "cpUsed", "cpErase", "read", "rfBlank", "rfZero", "rfFill", "rfErase", "rfMark", "rfMark2"}
  MaxOp = 5
  MaxCut = 1
  MaxFault = 1
  MaxMark = 2
  MaxRot = 1
INVARIANTS TypeOK Sound LutCoherent ReadBack
PROPERTIES NoReformat StoreStep
CHECK_DEADLOCK FALSE
