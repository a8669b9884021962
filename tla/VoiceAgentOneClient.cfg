\* One connection; five frames make two utterances and a rest.
CONSTANTS
    s1 = s1  s2 = s2  c1 = c1  c2 = c2  c3 = c3  None = None
    Sessions = {s1}
    Conns = {c1}
    SessionOf <- OneClient
    MaxFrames = 5
    MaxConns = 1
    MaxHistory = 2
    MayExpire = TRUE
    MinSpeechFrames = 1  MinSilenceFrames = 1  PreRollFrames = 1
    BargeInFrames = 1  Cooldown = 1
SPECIFICATION FairSpec
INVARIANTS
    ConversationIsKept
    TurnsAreClosed
PROPERTY GoneIsCleanedUp
CHECK_DEADLOCK FALSE
