\* A switch that fails after the target served.
SPECIFICATION Spec
CONSTANTS
    a1 = a1
    a2 = a2
    Addrs <- TwoAddrs
    MaxSwitches = 1
    MaxFaults = 1
    MaxCrashes = 0
INVARIANTS
    RollbackKeepsLeases
CHECK_DEADLOCK FALSE
