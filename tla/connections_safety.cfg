SPECIFICATION Spec
CONSTANTS
  Conns = {c1, c2}
  Fds <- TwoFds
  NumReactors = 2
  MaxEvents = 2
  MaxRx = 0
  Absent = Absent
  Null = Null
CHECK_DEADLOCK FALSE
SYMMETRY Symmetry
INVARIANTS
  TypeOK
  RawPointersLive
  EveryContextOwned
  OneReactorPerContext
  IInv
