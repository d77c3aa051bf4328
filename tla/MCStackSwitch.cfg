\* Two addresses, two faults and one crash anywhere in two switches.
SPECIFICATION FairSpec
CONSTANTS
    a1 = a1
    a2 = a2
    Addrs <- TwoAddrs
    MaxSwitches = 2
    MaxFaults = 2
    MaxCrashes = 1
INVARIANTS
    TypeOK
    OneDhcpServer
    IdleMeansSettled
    CommitKeepsLeases
    SettledServes
    RolledBackServes
PROPERTIES
    SwitchEnds
    GapEnds
CHECK_DEADLOCK FALSE
