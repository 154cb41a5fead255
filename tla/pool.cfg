SPECIFICATION FairSpec
CONSTANTS
  Workers = {w1, w2, w3}
  Jobs = {j1, j2, j3, j4}
  Endless = {j1, j2}
  NoJob = NoJob
CHECK_DEADLOCK FALSE
INVARIANTS
  JobsConserved
  NoLostWakeup
  DestructorDrains
  PoolInv
PROPERTIES
  DestructorReturns
  AcceptedStarts
  ImplementsWorkQueue
