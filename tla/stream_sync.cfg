SPECIFICATION Spec
CONSTANTS
  read_buf_size = 2
  SndCap = 2
  Calls = {"sync"}
  MaxSent = 1
  MaxWritten = 3
CHECK_DEADLOCK FALSE
INVARIANTS
  WireInOrder
