SPECIFICATION Spec
CONSTANTS
  s1 = s1
  s2 = s2
  s3 = s3
  r = r
  Starts = {s1, s2, s3}
  Resets = {r}
  NoLock = NoLock
  Torn = Torn
SYMMETRY StartSymmetry
INVARIANTS
  SerialExclusion
PROPERTIES
  SerialUpdatesSurvive
CHECK_DEADLOCK FALSE
