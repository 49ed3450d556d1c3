CONSTANTS
  k1 = k1
  k2 = k2
  c1 = c1
  c2 = c2
  Key <- MCKey
  Cycle <- MCCycle
  NoKey = NoKey
  Id = {"none"}
  LogLine <- MCLogLineFew
  Absent = Absent
  Request <- MCRequest
  MaxLines = 1
  MaxDocs = 2
  MaxRequests = 1
  MaxReplays = 0
  MaxMishaps = 1
  MaxBacklog = 0
  MaxOscillations = 0
SPECIFICATION Spec
SYMMETRY CycleSymmetry
INVARIANT ControlStateKept
