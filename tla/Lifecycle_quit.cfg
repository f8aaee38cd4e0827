SPECIFICATION FairLifecycleSpec
CONSTANTS
    f1 = f1
    f2 = f2
    app = app
    Files = {f1}
    Pids = {7}
    Names = {app}
    ExcludedFiles = {}
    ExcludedNames = {}
    ByteSizes = {2}
    Threshold = 2
    Debounce = 1
    MaxBytes = 4
    RawCapacity = 1
    RecordCapacity = 1
    Senders = {"etw", "main"}
    Etw = "etw"
    Main = "main"
    MaxEvents = 1
    MaxClock = 0
CHECK_DEADLOCK FALSE
PROPERTY
    QuitCompletes
