SPECIFICATION CronSpec
CONSTANTS
  Tails <- MCTails
  PassCodes = {"incomplete"}
  MaxRuns = 2
  MaxFaults = 0
  Modes = {"once"}
  Stall = 0
  Grace = 1
  MaxQuotaWait = 2
  Backoffs = 2
  MaxQuotaWaits = 1
  MaxOverloadBackoffs = 1
  MaxCrashRelaunches = 1
  FallbackModel = FALSE
PROPERTIES
  OverloadIsRetried
CHECK_DEADLOCK FALSE
