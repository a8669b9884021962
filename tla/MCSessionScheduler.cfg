SPECIFICATION FairSpec
CONSTANTS
    s1 = s1
    s2 = s2
    s3 = s3
    s4 = s4
    s5 = s5
    s6 = s6
    Sessions <- MCSessions
    Workers <- MCWorkers
    Capacity <- MCCapacity
    MaxQueueDepth = 2
    Backpressure = "queue"
INVARIANTS
    RecordsAgree
    WithinEnvelopes
    NoIdleSlotWhileWaiting
PROPERTIES
    NoOvertaking
    QueuedIsServed
