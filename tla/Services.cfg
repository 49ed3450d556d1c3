CONSTANTS
  s = s
  t = t
  c1 = c1
  c2 = c2
  t1 = t1
  t2 = t2
  m1 = m1
  m2 = m2
  Task = {s, t}
  Tool = {"Edit", "Agent", "Deploy"}
  Context <- MCContext
  Unstated = Unstated
  NoContext = NoContext
  Settings <- MCSettings
  DriftEvent <- MCDriftEvent
  Change <- MCChange
  Module <- MCModule
  Inside <- MCInside
  PlanScope = {{"src", "lib"}}
  Revision <- MCRevision
  MaxEvents = 3
  WaveD <- MCWaveD
  WaveF <- MCWaveF
  Healed <- MCHealed
  Run = {r1, r2, r3}
  Call = {c1, c2}
  Lent = Lent
  Definition <- MCDefinition
  HighestLimit = 2
  MaxRetries = 1
  Sandbox = {b1, b2, b3}
  Home = Home
  Terminal = {t1, t2}
  Batch <- MCBatch
  Edit <- MCEdit
  Noted = {"f1", "f2", "f9"}
  MaxSessions = 2
  MaxMishaps = 1
  Query = {q1, w1}
  Write = {w1}
  Retries = 2
  MaxRateRetries = 1
  MaxTokens = 3
  Visit = {v1, v2}
  HighJS = {v1}
  MaxBrowserRetries = 1
  MaxCleanups = 2
  InputKey = {"k1", "k2", "k3"}
  Prefix <- MCPrefix
  Executable = {"grep", "write"}
  TTL = 1
  ContainerTTL = 1
  MaxPoolSize = 1
  WarmPoolSize = 1
  MaxHits = 1
  MaxBuilds = 1
  Target = {"chat", "slack"}
  Urgent = {"slack"}
  MaxAttempts = 2
  Emission <- MCEmission
  MaxEmitted = 3
  MaxBatchSize = 3
  Interval = 3
  MaxRequests = 5
  Directory <- MCDirectory
  Cloud = {"ox"}
  Type <- MCType
  NoVision = {"mock"}
  FallbackModels <- MCFallback
  ChatRequest <- MCRequest
  MaxChats = 2
  Segment = 2
  DocEvent <- MCDocEvent
  MaxWritten = 3
  MaxFaults = 1
  Wrapper = {m1, m2}
  Criteria <- MCCriteria
  Manifest <- MCManifest
  MaxLines = 12
  MaxArchived = 1
  MaxChanges = 2
SPECIFICATION Spec
SYMMETRY MCSymmetry
INVARIANTS OwnPolicyDecides HardDriftHandled ReportCoherent ReportsCoverDrills
INVARIANTS LimitOverrunBounded SandboxesCleaned TmpdirNests PostsGuarded
INVARIANTS NothingSpentTwice IngestAccounted PoolBounded EveryEventServed TimerIsOfOldest
INVARIANTS OnlySomeAnswersCount DocsEventsOnce RepairJudged
CHECK_DEADLOCK FALSE
