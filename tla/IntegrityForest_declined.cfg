SPECIFICATION ForestSpec
CONSTANTS
    etc = etc
    conf = conf
    host = host
    guest = guest
    root = root
    file = file
    Leaves = {conf, file}
    Dirs = {etc, host, guest, root}
    Parent <- MCParent
    Above <- MCAbove
    Root = root
    Host = host
    Guests = {guest}
    PathOrder <- MCPathOrder
    ConfigFiles = {conf}
    SensitivePaths = {conf}
    MaxUnexplainedL3 = 0
    AllowL2AutoAccept = FALSE
    Gone = Gone
    FileContents = {k1, k2}
    Mtimes = {t1, t2}
    ComputeLevels = {"l1"}
    VerifyLevels = {"smart"}
    ReportScopes = {root}
    AcceptScopes = {}
    CallIds = {c1}
    MaxCalls = 2
    MaxEvents = 1
SYMMETRY Symmetry
INVARIANT DeclinedStaysFlagged
CHECK_DEADLOCK FALSE
