SPECIFICATION Spec
CONSTANTS
  OutputMax = 3
  Chunk = {1, 2}
  ArrivedMax = 5
INVARIANTS TypeOK CapExact KillAnswered RunLeavesNothing
PROPERTIES TimeoutEnds CloseReturns
CHECK_DEADLOCK FALSE
