SPECIFICATION Spec
CONSTANTS
  s1 = s1
  s2 = s2
  s3 = s3
  Session = {s1}
  Available <- MCAvailable
  Profiles <- MCProfiles
INVARIANT VmPrepares
CHECK_DEADLOCK FALSE
