CONSTANTS
    c1 = c1
    k1 = k1
    Clients = {c1}
    Attentive = {c1}
    Keys = {k1}
    Scrapes <- OneVolume
    HistoryDepth = 2
    MaxPuts = 2
    StreamPuts = 2
    Rooms = {0}
SPECIFICATION MCSafeSpec
CHECK_DEADLOCK FALSE
INVARIANT UpdatedFires
