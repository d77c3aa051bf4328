\* A request to sync while a switch moves the leases.
SPECIFICATION Spec
CONSTANTS
    switch1 = switch1
    post = post
    Holders = {switch1}
    Callers = {post}
    MaxLease = 3
    MaxFailures = 1
INVARIANTS
    DbNeverPartial
CHECK_DEADLOCK FALSE
