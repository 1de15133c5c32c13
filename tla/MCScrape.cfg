CONSTANTS
    n1 = n1
    n2 = n2
    n3 = n3
    a = a
    b = b
    p = p
    away = away
    NoNode = NoNode
    NoProvisioner = NoProvisioner
    Nodes = {n1, n2, n3}
    Claims = {a, b}
    Worlds <- Lists
    Samples <- Readings
    NodeConcurrency = 2
    IncludeUnmounted = FALSE
SPECIFICATION Spec
CHECK_DEADLOCK FALSE
INVARIANT TypeOK
INVARIANT HighestUsageWins
INVARIANT NodesAddUp
INVARIANT FailureIsTheReason
INVARIANT BlameRestsOnAnswers
PROPERTY ScrapeEnds
