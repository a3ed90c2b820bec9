SPECIFICATION Spec
CONSTANTS
  Worker = worker
  Descendant = {d1, d2}
  Reaper = init
INVARIANTS TypeOK OwnCode
PROPERTIES OutlivesWorker WorkerEnds
CHECK_DEADLOCK FALSE
