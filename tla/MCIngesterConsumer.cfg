CONSTANTS
  pA = pA
  pB = pB
  Partitions = {pA, pB}
  Plans <- MCPlans
  DetectorModes = {"off", "running"}
SPECIFICATION Spec
CHECK_DEADLOCK FALSE
INVARIANTS
  WaitGroupsCount
  OneSessionAtATime
PROPERTIES
  LockIsReleased
  IdleSessionEnds
