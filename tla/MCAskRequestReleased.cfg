SPECIFICATION Spec
CONSTANTS
  r1 = r1
  r2 = r2
  Request = {r1, r2}
  Call = {r1, r2}
  Capacity = 1
INVARIANT SessionReleased
CHECK_DEADLOCK FALSE
