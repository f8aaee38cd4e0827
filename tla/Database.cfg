SPECIFICATION DbSpec
CONSTANTS
    docker = docker
    node = node
    images = images
    sources = sources
    Labels = {docker, node}
    Categories = {images, sources}
    Sizes = {0, 2}
    DayLength = 2
    Retention = 1
    MaxClock = 4
    MaxRows = 3
    MaxGrowers = 1
SYMMETRY RowSymmetry
INVARIANTS
    DbTypeOK
    SummaryAgrees
    ChartAgreesWithSummary
    StatusAgreesWithSummary
    TodayIsRanked
    IdsUnique
    TransactionInv
PROPERTIES
    ImplementsStore
    WindowsKept
