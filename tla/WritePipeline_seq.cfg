SPECIFICATION Spec
CONSTANTS
    h = h
    g = g
    a = a
    b = b
    c = c
    z = z
    zz = zz
    l = l
    None = None
    Targets = {h, g}
    HostTargets = {h}
    Content = {a, b, l}
    Binary = {}
    Large = {l}
    Long = {l}
    Initial = {None, a}
    KeyRank <- MCKeyRank
    Utf8 <- MCUtf8
    HostPath <- MCHostPath
    Clients = {c1}
    MaxStamp = 3
    MaxCalls = 3
    MaxEdits = 1
    StampGranularity = 10
    LargeFilePolicy = "diff"
    PerFileVersionCap = 3
    GlobalSizeCapBytes = 100
    BlobBytes = 2
    MetaBytes = 1
    FailSafe = "refuse"
    Faults = {"read"}
INVARIANTS
    LastWriteIsUndone
    LastRevertIsUndone
    DriftIsCaptured
CHECK_DEADLOCK FALSE
