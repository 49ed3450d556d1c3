CONSTANTS
  p1 = p1
  p2 = p2
  i1 = i1
  Proc <- MCProc
  Id <- MCId
  Entry <- MCEntry
  Garbled = Garbled
  NoRecord = NoRecord
  Retention = 0
  Faults <- AllFaults
  MaxCalls = 2
  MaxClock = 1
SPECIFICATION FairSpec
INVARIANTS MutualExclusion SnapshotFresh LossBoundedByTornAppends
PROPERTIES CallsEnd
