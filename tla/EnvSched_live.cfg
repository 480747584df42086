SPECIFICATION FairSpec
CONSTANTS
  NENV = 3
  IdLimit = 8
  MaxId = 4
  Boot <- MCBoot
  Value = {v1}
  Lib = TRUE
  Api = {"env", "wait"}
  Waits <- FirstWaits
  NULL = NULL
PROPERTIES
  RunnableRuns
  WaitReturns
