CONSTANTS
    Counts <- SomeCounts
    MaxSamplesPerSend = 2
    MaxShards = 2
    MaxRetries = 1
    MaxPushes = 2
SPECIFICATION Spec
CHECK_DEADLOCK FALSE
INVARIANT TypeOK
INVARIANT EverySeriesCounted
INVARIANT SentIsIngested
PROPERTY PushEnds
