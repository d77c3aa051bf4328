----------------------------- MODULE LeaseSync -----------------------------
(***************************************************************************)
(* Bringing the DHCP server's leases into the database: one sync at a      *)
(* time, again after a change seen meanwhile, and none while a stack       *)
(* switch holds it.                                                        *)
(*                                                                         *)
(*   server/src/services/dhcp-lease-sync.js                                *)
(*   server/src/backends/kea/index.js, leases.js    watchLeases, the scan  *)
(*   server/src/backends/dnsmasq/index.js, lease-file.js                   *)
(*   server/src/routes/dhcp.js                      POST /sync-leases      *)
(*                                                                         *)
(* The server's lease set is a version number, 1 and up.  Version 0 is the *)
(* set of a Kea whose leases a rollback has deleted and not yet put back:  *)
(* ingesting it releases the missing leases in the database.               *)
(***************************************************************************)
EXTENDS Integers, FiniteSets

CONSTANTS
    Holders,     \* callers of holdLeaseSync
    Callers,     \* requests to POST /api/dhcp/sync-leases
    MaxLease,    \* bound: the last version of the lease set
    MaxFailures  \* bound: reads that fail with an error

ASSUME LeaseSyncBounds ==
    IsFiniteSet(Holders) /\ MaxLease \in Nat \ {0} /\ MaxFailures \in Nat

VARIABLES
    lease,     \* the version of the server's lease set
    wiped,     \* Kea, the DHCP backend again, is being given its leases
    seen,      \* the version the watcher last saw
    db,        \* the version in the database
    run,       \* the runner: [at, from, snap]
    syncAgain, holds, skippedWhileHeld,
    holder,    \* where each holdLeaseSync caller is
    manual,    \* where each request is: [at, from, snap]
    synced,    \* history: the latest version the runner stored
    failures

flags == <<syncAgain, skippedWhileHeld>>
vars  == <<lease, wiped, seen, db, run, syncAgain, holds, skippedWhileHeld,
           holder, manual, synced, failures>>

\* none: not running.  reading: the scan, or the reads of the lease file,
\* began when the server was at `from`.  read: it settled as `snap`.
\* releasing: the leases that block a reservation are released at the backend.
Read == [at : {"none", "reading", "read", "releasing"},
         from : 0..MaxLease, snap : 0..MaxLease]

Quiet == [at |-> "none", from |-> 0, snap |-> 0]

Reading == [at |-> "reading", from |-> lease, snap |-> 0]

\* What a read may settle as: a scan is not atomic, and a renewal, a decline
\* or a reclaim during it goes unnoticed, so what changed since it began may
\* be in it or not; one that ends while Kea has lost its leases misses them.
View(r) == IF wiped THEN {0} ELSE r.from..lease

(***************************************************************************)
(* Every variable has its type.                                            *)
(***************************************************************************)
TypeOK ==
    /\ lease \in 1..MaxLease
    /\ wiped \in BOOLEAN
    /\ seen \in 1..MaxLease
    /\ db \in 0..MaxLease
    /\ run \in Read
    /\ syncAgain \in BOOLEAN
    /\ holds \in Nat
    /\ skippedWhileHeld \in BOOLEAN
    /\ holder \in [Holders -> {"idle", "waiting", "held"}]
    /\ manual \in [Callers -> Read]
    /\ synced \in 0..MaxLease
    /\ failures \in 0..MaxFailures

\* startLeaseSync: the first sync is under way, the watcher has its baseline.
Init ==
    /\ lease = 1
    /\ wiped = FALSE
    /\ seen = 1
    /\ db = 1
    /\ run = [at |-> "reading", from |-> 1, snap |-> 0]
    /\ syncAgain = FALSE
    /\ holds = 0
    /\ skippedWhileHeld = FALSE
    /\ holder = [x \in Holders |-> "idle"]
    /\ manual = [c \in Callers |-> Quiet]
    /\ synced = 0
    /\ failures = 0

-----------------------------------------------------------------------------
(* The server *)

\* A lease is handed out, renewed, declined or reclaimed.
Change ==
    /\ lease < MaxLease
    /\ lease' = lease + 1
    /\ UNCHANGED <<wiped, seen, db, run, flags, holds, holder, manual, synced, failures>>

\* rollBackToPdnsKea, Kea being the DHCP backend again: importKeaLeases deletes
\* Kea's leases ...
Wipe(x) ==
    /\ holder[x] = "held"
    /\ ~wiped
    /\ wiped' = TRUE
    /\ UNCHANGED <<lease, seen, db, run, flags, holds, holder, manual, synced, failures>>

\* ... and adds those dnsmasq had, before the hold is released; or fails, and
\* what Kea then has is its lease set.
Refill(x) ==
    /\ holder[x] = "held"
    /\ wiped
    /\ wiped' = FALSE
    /\ lease' \in {lease, lease + 1}
    /\ lease' <= MaxLease
    /\ UNCHANGED <<seen, db, run, flags, holds, holder, manual, synced, failures>>

-----------------------------------------------------------------------------
(* runLeaseSync *)

\* Mutation: a change seen during a sync is taken as covered by it.
runLeaseSyncOnce(held) ==
    IF held > 0
    THEN skippedWhileHeld' = TRUE /\ UNCHANGED <<run, syncAgain>>
    ELSE /\ run' = IF run.at = "none" THEN Reading ELSE run
         /\ UNCHANGED <<syncAgain, skippedWhileHeld>>

\* A hold keeps the request for later; a sync under way runs once more.
runLeaseSync(held) ==
    IF held > 0
    THEN skippedWhileHeld' = TRUE /\ UNCHANGED <<run, syncAgain>>
    ELSE IF run.at # "none"
    THEN syncAgain' = TRUE /\ UNCHANGED <<run, skippedWhileHeld>>
    ELSE /\ run' = Reading
         /\ syncAgain' = FALSE
         /\ UNCHANGED skippedWhileHeld

\* watchLeases' poll finds the counters, or the file, changed.
Poll ==
    /\ seen # lease
    /\ seen' = lease
    /\ runLeaseSync(holds)
    /\ UNCHANGED <<lease, wiped, db, holds, holder, manual, synced, failures>>

\* onDhcpApplied: every DHCP apply asks for a sync.
DhcpApplied ==
    /\ runLeaseSync(holds)
    /\ UNCHANGED <<lease, wiped, seen, db, holds, holder, manual, synced, failures>>

\* onBackendChanged, from selectStack within a switch: the watcher moves to
\* the new server, with a new baseline, and a sync is asked for.
BackendChanged(x) ==
    /\ holder[x] = "held"
    /\ seen' = lease
    /\ runLeaseSync(holds)
    /\ UNCHANGED <<lease, wiped, db, holds, holder, manual, synced, failures>>

\* Mutation: what a hold kept from running again is forgotten.
LoopForgets ==
    /\ syncAgain' = FALSE
    /\ run' = IF syncAgain /\ holds = 0 THEN Reading ELSE Quiet
    /\ UNCHANGED skippedWhileHeld

\* The do ... while and what follows it: once more, or over; what a hold kept
\* from running again is synced when the hold ends.
Loop ==
    /\ syncAgain' = FALSE
    /\ run' = IF syncAgain /\ holds = 0 THEN Reading ELSE Quiet
    /\ skippedWhileHeld' = (skippedWhileHeld \/ (syncAgain /\ holds > 0))

\* readLeases settles: the lease file reads the same twice, or Kea's count of
\* addresses handed out did not move during the scan.
ReadSettles ==
    /\ run.at = "reading"
    /\ \E v \in View(run) : run' = [run EXCEPT !.at = "read", !.snap = v]
    /\ UNCHANGED <<lease, wiped, seen, db, flags, holds, holder, manual, synced, failures>>

\* It does not, for something changed: nothing is stored, nothing tries again.
ReadUnsettled ==
    /\ run.at = "reading"
    /\ run.from # lease
    /\ Loop
    /\ UNCHANGED <<lease, wiped, seen, db, holds, holder, manual, synced, failures>>

\* The backend does not answer: a warning.
ReadFails ==
    /\ run.at = "reading"
    /\ failures < MaxFailures
    /\ failures' = failures + 1
    /\ Loop
    /\ UNCHANGED <<lease, wiped, seen, db, holds, holder, manual, synced>>

\* ingestLeases; a lease that holds another client's reservation is to be
\* released at the backend.
Ingest ==
    /\ run.at = "read"
    /\ db' = run.snap
    /\ synced' = run.snap
    /\ \/ Loop
       \/ run' = [run EXCEPT !.at = "releasing"] /\ UNCHANGED flags
    /\ UNCHANGED <<lease, wiped, seen, holds, holder, manual, failures>>

\* releaseBlockingLeases: released, or not and logged.
ReleaseBlocking ==
    /\ run.at = "releasing"
    /\ lease' \in {lease, lease + 1}
    /\ lease' <= MaxLease
    /\ Loop
    /\ UNCHANGED <<wiped, seen, db, holds, holder, manual, synced, failures>>

-----------------------------------------------------------------------------
(* holdLeaseSync *)

Hold(x) ==
    /\ holder[x] = "idle"
    /\ holder' = [holder EXCEPT ![x] = "waiting"]
    /\ holds' = holds + 1
    /\ UNCHANGED <<lease, wiped, seen, db, run, flags, manual, synced, failures>>

\* Mutation: the hold does not wait for the sync under way.
HoldGrantedAtOnce(x) ==
    /\ holder[x] = "waiting"
    /\ holder' = [holder EXCEPT ![x] = "held"]
    /\ UNCHANGED <<lease, wiped, seen, db, run, flags, holds, manual, synced, failures>>

\* Mutation: the hold also waits for what it keeps from being synced.
HoldGrantedCaughtUp(x) == run.at = "none" /\ ~skippedWhileHeld /\ HoldGrantedAtOnce(x)

\* Any sync under way has finished.
HoldGranted(x) ==
    /\ holder[x] = "waiting"
    /\ run.at = "none"
    /\ holder' = [holder EXCEPT ![x] = "held"]
    /\ UNCHANGED <<lease, wiped, seen, db, run, flags, holds, manual, synced, failures>>

\* Mutation: no `released` flag, a release called twice counts twice.
ReleaseTwice(x) ==
    /\ holder[x] = "held"
    /\ ~wiped
    /\ holder' \in {holder, [holder EXCEPT ![x] = "idle"]}
    /\ holds' = holds - 1
    /\ UNCHANGED <<lease, wiped, seen, db, run, flags, manual, synced, failures>>

\* Mutation: the release syncs nothing.
ReleaseSilently(x) ==
    /\ holder[x] = "held"
    /\ ~wiped
    /\ holder' = [holder EXCEPT ![x] = "idle"]
    /\ holds' = holds - 1
    /\ UNCHANGED <<lease, wiped, seen, db, run, flags, manual, synced, failures>>

\* The last release syncs what was seen meanwhile.
Release(x) ==
    /\ holder[x] = "held"
    /\ ~wiped
    /\ holder' = [holder EXCEPT ![x] = "idle"]
    /\ holds' = holds - 1
    /\ IF holds = 1 /\ skippedWhileHeld
       THEN /\ run' = Reading
            /\ skippedWhileHeld' = FALSE
            /\ syncAgain' = FALSE
       ELSE UNCHANGED <<run, flags>>
    /\ UNCHANGED <<lease, wiped, seen, db, manual, synced, failures>>

-----------------------------------------------------------------------------
(* POST /api/dhcp/sync-leases: syncLeasesNow, beside the runner *)

ManualSync(c) ==
    /\ manual[c].at = "none"
    /\ manual' = [manual EXCEPT ![c] = Reading]
    /\ UNCHANGED <<lease, wiped, seen, db, run, flags, holds, holder, synced, failures>>

ManualRead(c) ==
    /\ manual[c].at = "reading"
    /\ \/ \E v \in View(manual[c]) :
            manual' = [manual EXCEPT ![c].at = "read", ![c].snap = v]
       \/ /\ manual[c].from # lease
          /\ manual' = [manual EXCEPT ![c] = Quiet]
    /\ UNCHANGED <<lease, wiped, seen, db, run, flags, holds, holder, synced, failures>>

ManualIngest(c) ==
    /\ manual[c].at = "read"
    /\ db' = manual[c].snap
    /\ manual' \in {[manual EXCEPT ![c] = Quiet], [manual EXCEPT ![c].at = "releasing"]}
    /\ UNCHANGED <<lease, wiped, seen, run, flags, holds, holder, synced, failures>>

ManualRelease(c) ==
    /\ manual[c].at = "releasing"
    /\ lease' \in {lease, lease + 1}
    /\ lease' <= MaxLease
    /\ manual' = [manual EXCEPT ![c] = Quiet]
    /\ UNCHANGED <<wiped, seen, db, run, flags, holds, holder, synced, failures>>

-----------------------------------------------------------------------------
Next ==
    \/ Change
    \/ \E x \in Holders : Wipe(x)
    \/ \E x \in Holders : Refill(x)
    \/ Poll
    \/ DhcpApplied
    \/ \E x \in Holders : BackendChanged(x)
    \/ ReadSettles
    \/ ReadUnsettled
    \/ ReadFails
    \/ Ingest
    \/ ReleaseBlocking
    \/ \E x \in Holders : Hold(x)
    \/ \E x \in Holders : HoldGranted(x)
    \/ \E x \in Holders : Release(x)
    \/ \E c \in Callers : ManualSync(c)
    \/ \E c \in Callers : ManualRead(c)
    \/ \E c \in Callers : ManualIngest(c)
    \/ \E c \in Callers : ManualRelease(c)

\* The poll is a timer; reads have timeouts; a switch has few steps, imports at
\* most once in its rollback and then releases its hold, hence strong fairness
\* (Wipe and Refill repeat only here).  Nothing is assumed of the leases, the
\* requests or the callers of holdLeaseSync.
Fairness ==
    /\ WF_vars(Poll)
    /\ WF_vars(ReadSettles \/ ReadUnsettled)
    /\ WF_vars(Ingest)
    /\ WF_vars(ReleaseBlocking)
    /\ \A x \in Holders : /\ WF_vars(HoldGranted(x))
                          /\ WF_vars(Refill(x))
                          /\ SF_vars(Release(x))

Spec == Init /\ [][Next]_vars

FairSpec == Spec /\ Fairness

-----------------------------------------------------------------------------
(***************************************************************************)
(* Properties                                                              *)
(***************************************************************************)

\* holdLeaseSync waits "once any sync under way has finished": while a caller
\* has its hold, no read of the runner is under way and none is stored, so none
\* sees a server without its leases.
HeldMeansNotSyncing ==
    (\E x \in Holders : holder[x] = "held") => run.at = "none"

\* The database is never given the leases of a server that is still being handed
\* them, by any sync ("Stop syncing until the returned release is called").
DbNeverPartial == db # 0

\* "A change seen while one runs is synced after it": a remembered request
\* waits for a run or a hold, never for nothing.
NothingSleeps ==
    /\ syncAgain => run.at # "none"
    /\ skippedWhileHeld => holds > 0

\* The runner stores what the server had when it stores it, or the watcher is
\* still to see, or the runner still to sync, the newer leases.
StaleIsNoticed ==
    run.at = "none" /\ failures = 0 /\ synced # lease
        => seen # lease \/ skippedWhileHeld

\* Every version of the server's leases, or a later one, reaches the database
\* through bursts of changes, unsettled reads and holds, unless a read failed.
EveryChangeSynced ==
    \A v \in 1..MaxLease : (lease = v) ~> (synced >= v \/ failures > 0)

\* A hold is granted however many changes come while it waits.
HoldIsGranted ==
    \A x \in Holders : (holder[x] = "waiting") ~> (holder[x] = "held")

=============================================================================
