CONSTANTS
    s1 = s1  s2 = s2  c1 = c1  c2 = c2  c3 = c3  None = None
    Sessions = {s1}
    Conns = {c1}
    SessionOf <- OneClient
    MaxFrames = 2
    MaxConns = 1
    MaxHistory = 3
    MayExpire = FALSE
    MinSpeechFrames = 1  MinSilenceFrames = 1  PreRollFrames = 1
    BargeInFrames = 1  Cooldown = 1
SPECIFICATION Spec
INVARIANT EndsOnlyWhenClientLeft
CHECK_DEADLOCK FALSE
