SPECIFICATION Spec
CONSTANTS
    k1 = k1
    cardFile = cardFile
    planFile = planFile
    webPage = webPage
    o1 = o1
    o2 = o2
    l1 = l1
    Plots <- OnePlot
    Manifests <- RaceItems
    Batches <- RaceBatches
    Documents <- AllDocuments
    LocalDocuments <- Files
    Digests <- TwoDigests
    Operators <- TwoOperators
    Lookups <- OneLookup
    MaxRecords = 2
    MaxEvents = 6
    MaxReports = 1
    MaxEdits = 1
CONSTRAINT EditsApart
INVARIANTS
    RegistryIsConsistent
    RecommendationDecides
    SelectionsAreSound
PROPERTIES
    ServedIsCurrent
SYMMETRY Interchangeable
CHECK_DEADLOCK FALSE
