SPECIFICATION FairSpec
CONSTANTS
  Tails <- MCTails
  PassCodes = {"ok", "incomplete"}
  MaxRuns = 3
  MaxFaults = 1
  Modes = {"follow", "once"}
  Stall = 0
  Grace = 1
  MaxQuotaWait = 2
  Backoffs = 2
  MaxQuotaWaits = 1
  MaxOverloadBackoffs = 1
  MaxCrashRelaunches = 1
  FallbackModel = TRUE
INVARIANTS
  SpawnsAreBudgeted
  BudgetsAreEarned
PROPERTIES
  NeverTwoChildren
  OldRunsDecideNothing
  NoFutileRelaunch
  HangsAreReported
CHECK_DEADLOCK FALSE
