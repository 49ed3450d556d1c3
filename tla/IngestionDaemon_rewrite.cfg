CONSTANTS
  k1 = k1
  k2 = k2
  c1 = c1
  c2 = c2
  Key <- MCKey
  Cycle <- MCCycle
  NoKey = NoKey
  Id = {"none"}
  LogLine <- MCLogLineEntries
  Absent = Absent
  Request <- MCRequestNone
  MaxLines = 2
  MaxDocs = 0
  MaxRequests = 0
  MaxReplays = 1
  MaxMishaps = 0
  MaxBacklog = 2
  MaxOscillations = 2
SPECIFICATION FairSpec
PROPERTY RewriteLosesNothing
