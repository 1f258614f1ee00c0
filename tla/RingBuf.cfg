SPECIFICATION Spec
CONSTANTS
  Byte = {a, b}
  Size = 4
INVARIANTS TypeOK Contents
PROPERTY QueueSpec
