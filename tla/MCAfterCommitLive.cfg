\* The PowerDNS + Kea stack, whose Authoritative may stop answering.
SPECIFICATION FairSpec
CONSTANTS
    dns = dns
    dhcp = dhcp
    stackSwitch = stackSwitch
    bootEnd = bootEnd
    req = req
    Hooks = {dns, dhcp}
    ZoneHook = dns
    ScopeHook = dhcp
    Async = {dns}
    Deferrable = {dns}
    Requests = {}
    Holders = {stackSwitch}
    MaxGen = 2
    MaxCrashes = 1
INVARIANTS
    HeldMeansNotRunning
PROPERTIES
    RenderedNeverGoesBack
    EveryGenerationSettles
    HoldIsGranted
CHECK_DEADLOCK FALSE
