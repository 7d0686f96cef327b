SPECIFICATION Spec
CONSTANTS
    Paths = {p1, p2}
    Contents = {v1, v2}
    Gone = Gone
    CallIds = {c1, c2}
    Pushes = TRUE
    MaxEvents = 1
SYMMETRY Symmetry
PROPERTIES
    CommitCoversMirror
    SweepConverges
    ManifestKept
CHECK_DEADLOCK FALSE
