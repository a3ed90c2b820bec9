SPECIFICATION Spec
CONSTANTS
  s1 = s1
  s2 = s2
  s3 = s3
  p1 = p1
  p2 = p2
  f1 = f1
  f2 = f2
  v1 = v1
  v2 = v2
  Session = {s1, s2, s3}
  Pid = {p1, p2}
  pidOf <- MCpidOf
  File = {f1, f2}
  Nested = {f1}
  Edited = {f1, f2}
  MaxEdits = 1
  Version = {v1, v2}
  Truncated = Truncated
  Absent = Absent
  NoTree = NoTree
INVARIANTS TypeOK PublishedWhole MountedIntact
PROPERTY IntactStays
CHECK_DEADLOCK FALSE
SYMMETRY Symmetric
