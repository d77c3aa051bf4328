\* A switch with nothing failing.
SPECIFICATION Spec
CONSTANTS
    a1 = a1
    a2 = a2
    Addrs <- TwoAddrs
    MaxSwitches = 1
    MaxFaults = 0
    MaxCrashes = 0
INVARIANTS
    FaultlessSwitchFinishes
CHECK_DEADLOCK FALSE
