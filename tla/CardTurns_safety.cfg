SPECIFICATION FairSpec
CONSTANTS
  Tasks = 2
  MaxCommits = 2
  MaxFaults = 1
INVARIANTS
  ShippedIsProven
  ProgressIsCoherent
  RevertOnlyAfterReset
  SecondLookSeesTheMerge
PROPERTIES
  TurnEnds
CHECK_DEADLOCK FALSE
