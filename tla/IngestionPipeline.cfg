CONSTANTS
  x1 = x1
  x2 = x2
  r1 = r1
  r2 = r2
  Id <- MCId
  Invalid <- MCInvalid
  Run <- MCRun
  NoId = NoId
  MaxRetries = 2
  MaxQueueSize = 2
  MaxDLQSize = 2
SPECIFICATION FairSpec
INVARIANTS OutcomesBounded Traceable
PROPERTY RunsEnd
