SPECIFICATION Spec
CONSTANTS
  a = a
  b = b
  c = c
  Cards = {a, b, c}
  Sequence <- MCSequence
  DependsOn <- ForkDeps
  RunOptions <- SafetyOptions
  MaxFaults = 1
INVARIANTS
  TypeOK
  InFlightDepsShipped
  OnlyDerivedStatusUnsaved
  BudgetHolds
  BlockedIsExact
PROPERTIES
  CampaignKept
  NobodyForgotten
  SelectionLeavesInFlightAlone
