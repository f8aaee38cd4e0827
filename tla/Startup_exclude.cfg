SPECIFICATION StartupSpec
CONSTANTS
    one = one
    two = two
    app = app
    svc = svc
    Instances = {one, two}
    Pids = {4, 8}
    Nanos = {1}
    UserTexts <- Texts
    DefaultPort = 7272
    DefaultExcluded = {svc}
    ProcessNames = {app, svc}
    Records <- FileRecords
    Pieces <- TextPieces
    Letters <- Drives
    DriveC = "C:"
    Devices <- Volumes
INVARIANT
    AddedIsExcluded
