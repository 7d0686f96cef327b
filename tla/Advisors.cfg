CONSTANTS
    a = a
    b = b
    c = c
    na = na
    nb = nb
    nc = nc
    Services = {a, b, c}
    ContainerNames = {na, nb, nc}
    ServiceOf <- MCServiceOf
    Claims = {"none", "ports", "env"}
    Outside = Outside
    Absent = Absent
    NoFile = NoFile
    Lxc = Lxc
    Proxy = Proxy
    Stranger = Stranger
    MaxTurns = 2
    x = x
    y = y
    p = p
    l = l
    web = web
    db = db
    A = A
    B = B
    Containers = {x, y, p, l}
    Refs = {web, db}
    RefOf <- MCRefOf
    Pinned = {p}
    Local = {l}
    OptedOut = {y}
    Digests = {1, 2, 3}
    Contents = {A, B}
    ContentOf <- MCContentOf
    First = 1
    None = None
    Failed = Failed
    MaxMoves = 3
    Targets = {t1}
    UpdateKeys = {s1}
    Updates = {u1, u2}
    Limit = 2
    WindowMs = 2
    Enabled = TRUE
    NotUpdating = NotUpdating
    MaxNow = 6
    MaxAttempts = 5
SPECIFICATION AdvisorsSpec
SYMMETRY Symmetry
CHECK_DEADLOCK FALSE
INVARIANTS
    CollisionsAreReported
    OwnInstanceIsNoConflict
    StrangerIsReported
    VerdictWasTrue
    FailuresAreContained
    FewerThanLimitAdmitted
    ConcurrentUpdatesOvershoot
    QuietTargetIsForgiven
