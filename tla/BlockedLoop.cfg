SPECIFICATION FairLoopSpec
CONSTANTS
  a = a
  b = b
  c = c
  Cards = {a, b, c}
INVARIANTS
  LoopComputesFixpoint
  ReconciledIsStable
PROPERTIES
  LoopTerminates
CHECK_DEADLOCK FALSE
