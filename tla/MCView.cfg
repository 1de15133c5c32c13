CONSTANTS
    WarnThreshold = 75
    CritThreshold = 90
    Day = 2
    MinSpan = 3
    MaxDays = 4
    Snapshots <- MCSnapshots
    Changes <- MCChanges
    PageSizes = {0, 1, 2}
    Searches = {0, 9}
    SortColumns = {"usage"}
    FetchesFail = TRUE
    MaxMoves = 2
    MaxCollections = 1
SPECIFICATION MCSpec
CHECK_DEADLOCK FALSE
INVARIANT UITypeOK
INVARIANT PageExists
INVARIANT SortedAsPromised
INVARIANT DisksCountedOnce
INVARIANT TrendIsHonest
INVARIANT SeriesAreDistinct
INVARIANT PushedAsExposed
INVARIANT PagesTileTheExport
PROPERTY LoadsSettle
