\* One switch at a time, one request, three versions of the leases.
SPECIFICATION FairSpec
CONSTANTS
    switch1 = switch1
    post = post
    Holders = {switch1}
    Callers = {post}
    MaxLease = 3
    MaxFailures = 1
INVARIANTS
    TypeOK
    HeldMeansNotSyncing
    NothingSleeps
    StaleIsNoticed
PROPERTIES
    EveryChangeSynced
    HoldIsGranted
