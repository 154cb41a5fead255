SPECIFICATION FairSpec
CONSTANTS
  Conns = {c1}
  Fds <- OneFd
  NumReactors = 1
  MaxEvents = 2
  MaxRx = 0
  Absent = Absent
  Null = Null
CHECK_DEADLOCK FALSE
PROPERTIES
  ClosedReclaimed
