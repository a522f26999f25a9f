SPECIFICATION Spec
CONSTANTS
  Tasks = 1
  MaxCommits = 2
  MaxFaults = 0
PROPERTIES
  GatedMergeIsProven
CHECK_DEADLOCK FALSE
