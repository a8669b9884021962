CONSTANTS
  Streams = {s1, s2}
  MaxIn = 1
  MaxReply = 2
  History = 2
  Crossfade = 1
  ChunkLengths = {1, 2}
  Packets = 4
  MaxSize = 2
  FrameSize = 4
  FrameLengths = {0, 1, 3, 6}
  MaxSamples = 12
  Retry = FALSE
  StopEarly = FALSE
  MaxSockets = 5
  MaxFrames = 5
  MaxBuffer = 2
  MaxAttempts = 3
  Seqs = {0, 1, 2}
  JitterWindow = 1
  MaxTime = 3
  MaxTurns = 2
SPECIFICATION MCSpec
INVARIANT TurnsAreRecorded BargeInCutsOff   PlaybackIsSound
PROPERTY SilentOnceCancelled StreamNeverHangs
CHECK_DEADLOCK FALSE
