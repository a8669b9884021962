CONSTANTS
  MinSpeechFrames = 5
  MinSilenceFrames = 2
  PreRollFrames = 2
  MaxFrames = 12
  BargeInFrames = 3
  Cooldown = 2
  MaxHeard = 7
  StartFrames = 2
  EndFrames = 2
  FxEndFrames = 3
  Hangover = 3
  MinSpeech = 3
  EmotionEvery = 3
  MaxEpFrames = 11
  EdgeMinFrames = 2
  EdgeCooldown = 3
  MaxBargeTime = 10
  PhraseData <- SomePhrases  IntentWords <- SomeWords  RoutedTexts <- SomeRouted
  FlushEvery = 2  FlushBytes = 2  MaxChunks = 5  SpokenTexts <- SomeSpoken
  MaxLines = 3
  SessionIds = {u1}  MaxHistory = 1  IdleLimit = 1  MaxObjects = 2  MaxTurns = 2  MaxClock = 2
  BankPhrases <- SomeBank  TrivialMax = 5  CacheThreshold = 240  Turns <- SomeTurns  MaxPlays = 2  MaxGeneration = 6
  ModelScores <- SomeFeelings
  Users = {u1, u2}  History = 2  Alpha = 3  Moods <- SomeMoods  MaxObserved = 3
  SummaryTexts <- SomeTexts  PieceMax = 9  DigestMax = 22  ContextMax = 2  MinRelevance = 1  MaxAge = 1  MaxKeep = 1
  MinVoiced = 2  SuppressionDeadline = 1  ListeningDeadline = 2  FirstResponseBudget = 2  MaxMs = 3
  Speakers = {s1, s2}  MaxRequests = 2  MaxCrisis = 3
  Adopted = {c1, c2}  Criteria <- SomeCriteria  Measured <- SomeMeasured
  PhasePlans <- SomePhases  GpuLadder <- Ladder  Claims <- SomeClaims
  RequiredVram = 8  Weights <- SomeWeights  Minimums <- SomeMinimums  ScoredChoices <- SomeChoices  MaxScore = 6
  Submissions <- SomeRaw  MaxIntake = 2  MaxReview = 4  MaxDataset = 3
SPECIFICATION MCSpec
INVARIANT UtterancesAreKept  EdgeDetectorsAreExact  ToolingIsExact
PROPERTY EventsAreSpaced
CHECK_DEADLOCK FALSE
