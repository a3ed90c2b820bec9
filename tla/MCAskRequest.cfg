SPECIFICATION Spec
CONSTANTS
  r1 = r1
  r2 = r2
  Request = {r1, r2}
  Call = {r1, r2}
  Capacity = 1
INVARIANTS TypeOK ReturnedReleased SuccessContained SettledRecord
PROPERTY InvokeReturns
CHECK_DEADLOCK FALSE
