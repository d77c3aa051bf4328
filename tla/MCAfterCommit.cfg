\* The PowerDNS + Kea stack while Authoritative answers; a switch and the end of boot.
SPECIFICATION Spec
CONSTANTS
    dns = dns
    dhcp = dhcp
    stackSwitch = stackSwitch
    bootEnd = bootEnd
    req = req
    Hooks = {dns, dhcp}
    ZoneHook = dns
    ScopeHook = dhcp
    Async = {dns}
    Deferrable = {}
    Requests = {req}
    Holders <- TwoHolders
    MaxGen = 2
    MaxCrashes = 1
INVARIANTS
    TypeOK
    NoLostWork
    AppliedIsRendered
    PendingWaitsForSomething
    HeldMeansQuiet
SYMMETRY HolderSymmetry
CHECK_DEADLOCK FALSE
