SPECIFICATION Spec
CONSTANTS
    h = h
    g = g
    a = a
    b = b
    c = c
    z = z
    zz = zz
    l = l
    None = None
    Targets = {h, g}
    HostTargets = {h}
    Content = {a, z, zz}
    Binary = {z}
    Large = {z}
    Long = {}
    Initial = {None}
    KeyRank <- MCKeyRank
    Utf8 <- MCUtf8
    HostPath <- MCHostPath
    Clients = {c1, c2}
    MaxStamp = 3
    MaxCalls = 3
    MaxEdits = 0
    StampGranularity = 10
    LargeFilePolicy = "diff"
    PerFileVersionCap = 2
    GlobalSizeCapBytes = 5
    BlobBytes = 2
    MetaBytes = 1
    FailSafe = "refuse"
    Faults = {"write", "snapshot", "crash"}
SYMMETRY Symmetry
INVARIANTS
    SidecarTellsTheTruth
    RevertWritesOwnHistory
    StoreIsBounded
    EveryRevertAudited
CHECK_DEADLOCK FALSE
