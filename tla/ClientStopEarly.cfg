CONSTANTS
  Retry = FALSE
  StopEarly = TRUE
  MaxSockets = 2
  MaxFrames = 2
  MaxBuffer = 1
  MaxAttempts = 1
SPECIFICATION ClientSpec
INVARIANT StopReleasesMic
CHECK_DEADLOCK FALSE
