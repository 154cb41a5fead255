SPECIFICATION FairSpec
CONSTANTS
  read_buf_size = 2
  SndCap = 2
  Calls = {"async", "sync", "file"}
  MaxSent = 3
  MaxWritten = 4
CHECK_DEADLOCK FALSE
INVARIANTS
  StreamInv
  ReadConserved
  EdgesArmed
  WriteConserved
PROPERTIES
  Flushed
  HandedOver
