SPECIFICATION Spec
CONSTANTS
  MaxIterations = 3
  NumFallbacks = 2
  MaxUpgrades = 1
  MaxCompactFailures = 2
  MinContinuations = 2
  KeepCollapse = 4
  KeepAuto = 2
  KeepTrim = 3
  RetryOnDenial = TRUE
  EmptyCompileRetry = TRUE
  MalformedRetry = TRUE
  RemindAfterEachCall = TRUE
  AutoCompact = TRUE
  r1 = r1
  r2 = r2
  ag = ag
  none = none
  Sigs <- MCSigs
  AgentSigs = {ag}
  ReadSigs <- MCReads
  NoSig = none
  Replies <- MCReplies
  MaxTurns = 2
  MaxIds = 3
INVARIANTS TypeOK PairedHistory
PROPERTIES NeverSilent ThreeStrikes GuardReleased TurnEnds
