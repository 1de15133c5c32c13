CONSTANTS
    first = first
    second = second
    a = a
    a2 = a2
    b = b
    inCluster = inCluster
    in = in
    inB = inB
    firstA = firstA
    firstB = firstB
    NoFile = NoFile
    NoContext = NoContext
    Files <- TwoFiles
    Contents <- Kubeconfigs
    Directories <- Secrets
    Contexts = {a, a2, b}
    SingleName <- Single
    MultiName <- Multi
    InCluster = {inCluster}
    Disabled = {in}
    AllContexts = TRUE
    ClusterConcurrency = 1
    MaxEdits = 1
SPECIFICATION Spec
CHECK_DEADLOCK FALSE
PROPERTY RemovedAreForgotten
