SPECIFICATION RecorderSpec
CONSTANTS
    f1 = f1
    f2 = f2
    app = app
    docker = docker
    images = images
    sources = sources
    Files = {f1, f2}
    Pids = {7}
    Names = {app}
    ExcludedFiles = {}
    ExcludedNames = {}
    ByteSizes = {2}
    Threshold = 2
    Debounce = 1
    MaxBytes = 2
    RawCapacity = 1
    RecordCapacity = 1
    Senders = {"etw"}
    Etw = "etw"
    MaxEvents = 3
    MaxClock = 2
    Labels = {docker}
    LabelOf <- Labelled
    Categories = {images, sources}
    CategoryOf <- Categorised
    DayLength = 1
    Retention = 1
    MaxRows = 3
INVARIANTS
    IdsInTimeOrder
    InsertedAreCommitted
    RecorderInv
PROPERTIES
    ImplementsDatabase
