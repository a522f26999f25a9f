SPECIFICATION Spec
CONSTANTS
  s1 = s1
  s2 = s2
  s3 = s3
  r = r
  Starts = {s1, s2}
  Resets = {}
  NoLock = NoLock
  Torn = Torn
INVARIANTS
  OneRunner
CHECK_DEADLOCK FALSE
