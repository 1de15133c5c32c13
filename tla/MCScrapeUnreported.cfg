CONSTANTS
    n1 = n1
    n2 = n2
    n3 = n3
    a = a
    b = b
    p = p
    away = away
    NoNode = NoNode
    NoProvisioner = NoProvisioner
    Nodes = {n1, n2}
    Claims = {a, b}
    Worlds <- TwoNodes
    Samples <- Readings
    NodeConcurrency = 1
    IncludeUnmounted = FALSE
SPECIFICATION Spec
CHECK_DEADLOCK FALSE
INVARIANT UnreportedMeansAnswered
