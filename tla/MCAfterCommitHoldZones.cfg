\* PowerDNS whose Authoritative may stop answering, two holders.
SPECIFICATION Spec
CONSTANTS
    dns = dns
    dhcp = dhcp
    stackSwitch = stackSwitch
    bootEnd = bootEnd
    req = req
    Hooks = {dns, dhcp}
    ZoneHook = dns
    ScopeHook = dhcp
    Async = {dns}
    Deferrable = {dns}
    Requests = {}
    Holders <- TwoHolders
    MaxGen = 2
    MaxCrashes = 1
INVARIANTS
    HeldMeansQuiet
CHECK_DEADLOCK FALSE
