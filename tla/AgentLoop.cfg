SPECIFICATION FairSpec
CONSTANTS
  read = read
  bash = bash
  quit = quit
  Tools = {read, bash, quit}
  ExitTool = quit
  ReadOnlyTools = {read}
  FallbackMap <- MCFallback
  ExitConditions <- MCExit
  MaxSteps = 2
  WarningOffset = 1
  Window = 3
  DenialLimit = 2
  DenialWindow = 3
  FailureThreshold = 2
  MaxAttempts = 1
  MaxTotalRetries = 2
  MaxCalls = 2
  MaxRuns = 2
INVARIANTS TypeOK AnsweredInOrder  CutWithNotice
PROPERTIES RunEnds
\* The agent is idle when its runs are over.
CHECK_DEADLOCK FALSE
