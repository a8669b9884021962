CONSTANTS
  Jobs = {j1, j2}  JobWorkers = 2  MaxStarts = 2
  RecoveryProbes = 2  MaxFailures = 3
  MemSessions = {s1, s2}  HotMax = 2  HotTtl = 1  MaxRecords = 2  MaxMemTime = 1  ReadLimits = {1}
  TierScore <- SomeScores
  ToolCalls = {c1, c2}  ToolNames = {t1}  ToolThreads = 1  MaxToolAttempts = 2
  RetryOnTimeout = TRUE  HasTextBrain = TRUE
  VoiceRefs = {v1}  VoiceActions = {"persona_render", "voice_clone"}
  MaxConsents = 2  MaxPolicyTime = 1  ConsentRequired = TRUE
  CategoryNames <- SomeCategories  GateEnabled = TRUE  Loader = "works"
  AudioBackend = "none"  MaxEdits = 3
  Metrics = {m1, m2}  LowerBound = {m2}  Limit = 2  MinSamples = 2
  Users = {u1}  Regions = {1, 2, 3}  LatencyTo <- SomeLatency  Chain <- SomeChains
  WarmBonus = 2  AffinityBonus = 1
  Recordings = {r1, r2}  SttWorkers = 1  SttStarts = 2
SPECIFICATION MCSpec
INVARIANT  SafetyFailsClosed ServicesAreSound
PROPERTY ServicesAnswer
CHECK_DEADLOCK FALSE
