SPECIFICATION Spec
CONSTANTS
  Worker = worker
  Descendant = {d1, d2}
  Reaper = init
INVARIANT PropagatesWorkerCode
CHECK_DEADLOCK FALSE
