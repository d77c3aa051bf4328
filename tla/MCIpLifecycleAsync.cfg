SPECIFICATION Spec
CONSTANTS
    Addresses = {a1, a2}
    Zones = {z1}
    NumRecords = 1
    Clients = {c1, c2}
    AsyncRelease = TRUE
    Names = {n1}
    None = None
SYMMETRY MCSymmetry
PROPERTIES AdminReservationKept
