SPECIFICATION Spec
CONSTANTS
    f1 = f1
    f2 = f2
    fx = fx
    app = app
    svc = svc
    Files = {f1, f2, fx}
    Pids = {7}
    Names = {app}
    ExcludedFiles = {fx}
    ExcludedNames = {}
    ByteSizes = {1, 2}
    Threshold = 2
    Debounce = 2
    MaxBytes = 3
    RawCapacity = 1
    RecordCapacity = 1
    Senders = {"etw", "main"}
    Etw = "etw"
    MaxEvents = 3
    MaxClock = 1
SYMMETRY FileSymmetry
INVARIANTS
    TypeOK
    RowsInTimeOrder
    RowsAdmissible
    FlushedOnShutdown
    SendsReachWriter
    IInv
PROPERTIES
    RowsSpaced
    ImplementsLedger
