SPECIFICATION ForestSpec
CONSTANTS
    etc = etc
    conf = conf
    host = host
    guest = guest
    root = root
    file = file
    Leaves = {conf, file}
    Dirs = {etc, host, guest, root}
    Parent <- MCParent
    Above <- MCAbove
    Root = root
    Host = host
    Guests = {guest}
    PathOrder <- MCPathOrder
    ConfigFiles = {conf}
    SensitivePaths = {conf}
    MaxUnexplainedL3 = 1
    AllowL2AutoAccept = FALSE
    Gone = Gone
    FileContents = {k1, k2}
    Mtimes = {t1, t2}
    ComputeLevels = {"l3"}
    VerifyLevels = {"smart", "l3"}
    ReportScopes = {root}
    AcceptScopes = {root, etc}
    CallIds = {c1, c2}
    MaxCalls = 2
    MaxEvents = 1
SYMMETRY Symmetry
INVARIANTS
    AcceptedIsClean
    FlaggedStaysReported
PROPERTY DriftIsReported
CHECK_DEADLOCK FALSE
