SPECIFICATION Spec
CONSTANTS
    CallIds = {c1}
    Contents = {v1, v2}
    None = None
    Unread = Unread
    MaxEvents = 3
INVARIANTS
    TempsAreGone
    WriteKeepsPerms
PROPERTIES
    IsOneReadOneWrite
CHECK_DEADLOCK FALSE
