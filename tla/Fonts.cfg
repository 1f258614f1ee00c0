SPECIFICATION FairSpec
CONSTANTS
  PageSize = 4
  SectorSize = 8
  BlockSize = 16
  DeviceSize = 64
  Byte <- AllBytes
  Blank = Blank
  Mixed = Mixed
  FontBase = 16
  ImageBase = 48
  NFonts = 2
  Xbf = {2}
  Chunk = 8
  Cards <- TwoCards
  Start <- StartOf
  Valid = Valid
  b1 = b1
  b2 = b2
  b3 = b3
  Writes <- ThreeWrites
  Reach <- FourParts
  MaxFault = 2
INVARIANTS TypeOK FontsWhole DrawnRight
PROPERTIES StoreSpec RegionKept Starts
