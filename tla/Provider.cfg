CONSTANTS
  r1 = r1
  r2 = r2
  Requests <- TwoRequests
  MaxRequests = 1
  Window = 2
  Configs <- SomeConfigs
  MaxRetries = 1
  OverloadBackoffs = 1
  RateLimitMax <- RateLimits
  ConnectionMax <- Connections
  OverloadMax <- Overloads
  MaxChunks = 1
SPECIFICATION FairSpec
INVARIANT TypeOK WindowCap StopLast
PROPERTY Settles
CHECK_DEADLOCK FALSE
