CONSTANTS
  MaxSeq = 5
  MaxPending = 2
  Ttl = 1
  TimeoutsMs <- MCTimeouts
  MaxTurnId = 2
  TrivialMaxWords = 1
  ShortMaxWords = 2
  MinAsr = 45
  EmotionGate = 55
  MinConfidence = 60
  WordCounts = {0, 1, 2, 3}
  Confidences = {40, 58, 80}
  MaxStarted = 2
  Words = {a, b, Dash}
  Dash = Dash
  MaxWords = 3
SPECIFICATION MCSpec
INVARIANT DeliveredInOrder HeldBehindGap AcceptedAreAccountedFor ReleasedHoldsNothing DeliversToKeptSink PlannerIsSound
PROPERTY ImplementsChannel EdgeTurnsSettle
CHECK_DEADLOCK FALSE
