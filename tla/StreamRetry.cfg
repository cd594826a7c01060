CONSTANTS
  r1 = r1
  r2 = r2
  Requests <- TwoRequests
  MaxRequests = 1
  Window = 2
  Configs <- OpenAI
  MaxRetries = 1
  OverloadBackoffs = 1
  RateLimitMax <- RateLimits
  ConnectionMax <- Connections
  OverloadMax <- Overloads
  MaxChunks = 1
SPECIFICATION Spec
INVARIANT NoEventTwice
CHECK_DEADLOCK FALSE
