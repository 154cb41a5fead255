SPECIFICATION FairSpec
CONSTANTS
  read_buf_size = 2
  SndCap = 2
  Calls = {}
  MaxSent = 1
  MaxWritten = 0
CHECK_DEADLOCK FALSE
PROPERTIES
  LastMessageNotifies
