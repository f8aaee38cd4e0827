SPECIFICATION CacheSpec
CONSTANTS
    p1 = p1
    p2 = p2
    app = app
    svc = svc
    exited = exited
    unknown = unknown
    Pids = {p1, p2}
    Names = {app, svc, exited, unknown}
    Exited = exited
    Unknown = unknown
    Ttl = 3
SYMMETRY PidSymmetry
INVARIANTS
    AnswersRecent
