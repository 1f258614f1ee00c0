SPECIFICATION FairSpec
CONSTANTS
  Byte = {0, 1}
  Size = 3
  MaxLen = 2
  Modes <- UsersModes
  Sends <- UsersSends
  Gets <- UsersGets
INVARIANTS TypeOK Stream SentWhenFree Received Drained
PROPERTY Completes
CHECK_DEADLOCK FALSE
