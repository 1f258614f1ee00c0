SPECIFICATION Spec
CONSTANTS
  Blocks = 4
  BlockSize = 2
  Pointers = {p1, p2, p3}
  Null = Null
  Junk = Junk
  MaxSize = 9
SYMMETRY Alike
INVARIANTS TypeOK Disjoint MapExact DataKept
PROPERTY RefusedOnlyIfFull
