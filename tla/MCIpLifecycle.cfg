SPECIFICATION Spec
CONSTANTS
    Addresses = {a1, a2}
    Zones = {z1}
    NumRecords = 2
    Clients = {c1, c2}
    AsyncRelease = FALSE
    Names = {n1, n2}
    None = None
SYMMETRY MCSymmetry
INVARIANTS TypeOK RowHasItsFact ConfigHasItsRow PoolsAreFree
PROPERTIES ClaimsEndWithTheirOwner RestartConverges
