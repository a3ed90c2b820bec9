SPECIFICATION Spec
CONSTANTS
  s1 = s1
  s2 = s2
  s3 = s3
  Session = {s1, s2, s3}
  Available <- MCAvailable
  Profiles <- MCProfiles
INVARIANTS TypeOK MismatchBeforeTopology
PROPERTIES ReadyIsStrong FittestChosen
CHECK_DEADLOCK FALSE
SYMMETRY Symmetric
