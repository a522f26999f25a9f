SPECIFICATION FairSpec
CONSTANTS
  Cards = {c1}
  MaxFaults = 1
  MaxWatchdogs = 2
  TerminalReasons <- MCReasons
  CrowdedReasons <- MCCrowdedReasons
  MaxRulingRounds = 1
  MaxSpawns = 2
  MaxWatchdogRuns = 2
  SessionRetries = 1
  VerifyShippedPlugin = TRUE
INVARIANTS
  NoDoubleRuling
PROPERTIES
  NeverTwoWatchdogs
  AcknowledgedParkIsSpent
  NoChurn
  SupervisionEnds
