CONSTANTS
  pA = pA
  pB = pB
  Partitions = {pA, pB}
  Plans <- MCPlans
  DetectorModes = {"off"}
SPECIFICATION Spec
CHECK_DEADLOCK FALSE
PROPERTY CloseReturns
