SPECIFICATION AttributionSpec
CONSTANTS
    f1 = f1
    p1 = p1
    p2 = p2
    app = app
    svc = svc
    exited = exited
    unknown = unknown
    Files = {f1}
    Pids = {p1}
    Names = {app, svc, exited, unknown}
    Exited = exited
    Unknown = unknown
    ExcludedFiles = {}
    ExcludedNames = {svc}
    ByteSizes = {0, 2}
    Threshold = 2
    Debounce = 1
    MaxBytes = 4
    Ttl = 2
    RawCapacity = 1
    RecordCapacity = 1
    Senders = {"etw"}
    Etw = "etw"
    MaxEvents = 2
    MaxClock = 0
PROPERTIES
    RowNameRecent
    SteadyExclusion
