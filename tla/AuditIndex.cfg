CONSTANTS
    r1 = r1
    r2 = r2
    r3 = r3
    r4 = r4
    s1 = s1
    s2 = s2
    ui = ui
    Unset = Unset
    Null = Null
    Servers = {s1, s2}
    Sidecar = ui
    Ids = {r1, r2, r3, r4}
    History = {r1, r2}
    OldText = {r1, r2}
    Fields <- MCFields
    Filters <- MCFilters
    Tokens <- MCTokens
    MaxEvents = 5
SPECIFICATION Spec
INVARIANTS
    TypeOK
    BackfillIsWhole
    VerdictsAgree
PROPERTY RowsAreStable
