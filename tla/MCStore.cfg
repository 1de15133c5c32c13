CONSTANTS
    c1 = c1
    c2 = c2
    k1 = k1
    Clients = {c1, c2}
    Attentive = {c1}
    Keys = {k1}
    Scrapes <- AnyVolumes
    HistoryDepth = 2
    MaxPuts = 4
    StreamPuts = 3
    Rooms = {0, 2}
SPECIFICATION MCSpec
CHECK_DEADLOCK FALSE
INVARIANT TypeOK
INVARIANT NoLostWakeup
INVARIANT HistoryIsRecent
INVARIANT HistoryOrdered
INVARIANT SlicesHoldHistory
INVARIANT QueryReadsItsMoment
PROPERTY ImplementsFeed
PROPERTY GoneClientsLeave
