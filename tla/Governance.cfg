CONSTANTS
  a = a
  b = b
  c = c
  p = p
  q = q
  u = u
  v = v
  blank = blank
  Cohort = {a, b, c}
  CohortSize <- MCSize
  Proposal = {p, q}
  User = {}
  NoUser = NoUser
  Target = {101}
  Metric <- MCMetric
  Value = {0, 2}
  MaxAssigned = 2
  MaxProgressed = 2
  MaxObserved = 1
  MaxDecided = 4
  PProposal = {m, n}
  Valid = {m}
  Batch <- MCBatch
  Blank = blank
  Flag = {1, 2}
  Unset = Unset
  ErrorRate = {10}
  CostDelta = {1}
  Latency <- MCLatency
  MaxEntries = 2
  Envelope = {m}
  Caller = {k1, k2}
  NoCall = NoCall
  MaxVersion = 2
  d1 = d1
  x1 = x1
  x2 = x2
  k1 = k1
  k2 = k2
  d2 = d2
  Deployment = {d1, d2}
  NoDeployment = NoDeployment
  Call = {x1, x2}
  Plans <- MCPlans
  Id <- MCId
  Stores <- MCStores
  Stored <- MCStored
  Held <- MCHeld
  Flags <- MCFlags
  Deployed <- MCDeployed
  MaxRollbacks = 2
  Dsl <- MCDsl
  Absent = Absent
  Cap = {50, 10000}
  Curve = {"linear", "exponential", "adaptive"}
  Seen <- MCSeen
  MaxFlows = 2
SPECIFICATION Spec
SYMMETRY MCSymmetry
INVARIANTS ProgressionsChain StateMatchesLogs GateHolds CapReachedInSteps StaleHasCause DependenciesFirst
PROPERTIES KeepsPromise ReturnReverts
CHECK_DEADLOCK FALSE
