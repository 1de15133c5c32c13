CONSTANTS
    c1 = c1
    k1 = k1
    k2 = k2
    east = east
    west = west
    Clients = {c1}
    Attentive = {c1}
    Keys = {k1, k2}
    Scrapes <- MostlySeen
    HistoryDepth = 1
    MaxPuts = 4
    Clusters = {east, west}
    Home <- TwoHomes
    Setups <- MCSetups
    HttpUrls = {"http://file", "http://env"}
    SecretNames = {"X-Api-Key", "Authorization"}
    MaxTicks = 1
    MaxClicks = 2
SPECIFICATION MCSpec
CHECK_DEADLOCK FALSE
INVARIANT AppTypeOK
INVARIANT LastErrorIsCurrent
INVARIANT BurstCollapses
PROPERTY RefreshHonoured
PROPERTY ProcessEnds
INVARIANT SecretsPushedNotShown
PROPERTY BecomesReady
