SPECIFICATION Spec
CONSTANTS
    Services = {s1, s2, s3}
    s1 = s1
    s2 = s2
    s3 = s3
    Names = {web, db}
    web = web
    db = db
    NameOf <- MCNameOf
    UpPulls <- MCUpPulls
    Refs = {r1, r2}
    Repos = {r1, r2}
    RepoOf <- MCRepoOf
    Images = {i1, i2}
    Updates = {u1, u2}
    None = None
    MaxCalls = 2
    MaxFaults = 2
SYMMETRY Symmetry
INVARIANTS
    RollbackImageIsHeld
PROPERTIES
    OutcomeIsTrue
    NoopKeepsHold
CHECK_DEADLOCK FALSE
