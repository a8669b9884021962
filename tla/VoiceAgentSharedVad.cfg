CONSTANTS
    s1 = s1  s2 = s2  c1 = c1  c2 = c2  c3 = c3  None = None
    Sessions = {s1, s2}
    Conns = {c1, c2, c3}
    SessionOf <- TwoClients
    MaxFrames = 2
    MaxConns = 2
    MaxHistory = 3
    MayExpire = FALSE
    MinSpeechFrames = 1  MinSilenceFrames = 1  PreRollFrames = 1
    BargeInFrames = 1  Cooldown = 1
SPECIFICATION Spec
INVARIANT SegmentFromOwnSession
CHECK_DEADLOCK FALSE
