CONSTANTS
  p1 = p1
  p2 = p2
  i1 = i1
  Proc <- MCProc
  Id <- MCId
  Entry <- MCEntry
  Garbled = Garbled
  NoRecord = NoRecord
  Retention = 0
  Faults <- NoFaults
  MaxCalls = 3
  MaxClock = 1
SPECIFICATION FairSpec
PROPERTY Implements
