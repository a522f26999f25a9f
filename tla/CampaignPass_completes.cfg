SPECIFICATION CompletionSpec
CONSTANTS
  a = a
  b = b
  c = c
  Cards = {a, b}
  Sequence <- PairSequence
  DependsOn <- PairDeps
  RunOptions <- PairOptions
  MaxFaults = 1
PROPERTIES
  RunEnds
  CampaignCompletes
