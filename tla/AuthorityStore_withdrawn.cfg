SPECIFICATION Spec
CONSTANTS
    k1 = k1
    cardFile = cardFile
    planFile = planFile
    webPage = webPage
    o1 = o1
    o2 = o2
    l1 = l1
    Plots <- OnePlot
    Manifests <- RaceItems
    Batches <- RaceBatches
    Documents <- AllDocuments
    LocalDocuments <- Files
    Digests <- TwoDigests
    Operators <- TwoOperators
    Lookups <- Nobody
    MaxRecords = 2
    MaxEvents = 5
    MaxReports = 1
    MaxEdits = 0
PROPERTIES
    OutIsFinal
CHECK_DEADLOCK FALSE
