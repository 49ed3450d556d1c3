CONSTANTS
  a1 = a1
  a2 = a2
  b1 = b1
  b2 = b2
  Call <- MCCall
  Walker <- MCCall
  Provider <- MCProvider
  Priority <- MCPriority
  FailureThreshold = 2
  RateNum = 3
  RateDen = 4
  ProviderFailureThreshold = 1
  MaxAttempts = 2
  Burst = 2
  MaxCalls = 3
SPECIFICATION FairSpec
PROPERTY ProbeFailureReopens
