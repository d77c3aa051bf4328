# CIDRella: a TLA+ model of its configuration, leases, addresses, forwarding and restores

CIDRella is a DNS, DHCP and address manager: a Node.js server (`server/src`) over
SQLite that renders the configuration of the daemons which answer the network. Two
*stacks* of daemons can do that: dnsmasq alone, or PowerDNS (Authoritative and
Recursor), Kea and radvd. This directory models the parts of the server where a
mistake is hardest to see in a test: the asynchronous machinery between the database
and the daemons, the one row many sources claim an address in, the pool of encrypted
connections queries are forwarded over, and the restore of a backup.

## Inventory

| Component | State | Operations | Hard part |
|---|---|---|---|
| After-commit queue (`utils/after-commit.js`, `models/configuration-generation.js`) | `hookState`, `holds`, the rows of `configuration_generations` | register on response or with `queueRegen`, run, hold, release, resume at boot | single flight with asynchronous handlers, holds, crash between register and apply |
| Backend apply (`services/backend-apply.js`) | none of its own | `applyDns`, `applyResolver`, `applyDhcp`, `applyAtBoot` | files kept when a render is refused |
| Stack switch (`services/stack-switch.js`, `backends/index.js`) | setting `backend_stack`, marker file, stack and quiesced set in memory, each server's leases | switch both ways, roll back, commit, recover at boot | a failure or a crash at any step; leases handed out meanwhile; two DHCP servers |
| Adapters (`backends/{pdns,kea,radvd,dnsmasq}`) | files, daemons, `zoneQueue` | render, activate, stage, stop, read and import leases | a background restart nobody awaits; SIGHUP handled later; files written but not activated |
| Lease sync (`services/dhcp-lease-sync.js`) | `running`, `syncAgain`, `holds`, `skippedWhileHeld` | watch, sync, hold, release, sync by request | a change during a sync, a hold during a sync, a read of a server without its leases |
| Lease store and names (`models/dhcp-lease.js`, ADR 005) | `dhcp_leases`, derived `dns_records` | replace, assign names, sync names | uniqueness across networks and refused leases |
| IP lifecycle (`services/ip-lifecycle-service.js`, `models/ip-address.js`, ADR 001, 004) | `ip_addresses`: state, owner, what detected it | claim and release by DNS, DHCP, gateway, administrator; hold, retire, reconcile at start | many sources for one row, in any order; a sweep that awaits between two transactions |
| Liveness and scans | scan runs, last-seen times | scan, resume, retire | interrupted scans, late answers |
| Network topology (ADR 002, 003) | subnets, ranges, scopes, zones | split, merge, transform | everything moves together or not |
| Encrypted forwarder (`utils/upstream-pool.js`) | connections by address, calls in flight, wire ids, HTTP/1.1-only servers | query, open, drop, reply, time out, close all | late answers, reused identifiers, a connection dropped under a query, one deadline over retries |
| DNS proxy | query table, sockets | forward, time out, TCP fallback | late answers |
| Sessions and sign-in | session rows, used codes | sign in, touch, end | one use of a code |
| Backup and restore (`utils/backup.js`) | archives, `backups` rows, snapshot, staging directory, parked settings | create, list, delete, retention, restore, first boot | a crash or a failure between any two steps; a database of an earlier day |
| Blocklists, rogue detection, metrics | schedules, counters | refresh, probe, aggregate | a schedule beside a manual run |

They interact by calls and by three pieces of shared state. A route commits to the
database and registers hooks with the *after-commit queue*; the queue calls *backend
apply*, which calls the adapter of the current stack. An apply of DHCP and a move of the
DHCP role call the *lease sync*. The *stack switch* takes a hold on the queue and one on
the lease sync, drives the adapters itself, and at boot undoes what a crash interrupted.
The routes for DNS, DHCP and networks, the lease sync, the scans and the retirement sweep
all write addresses through the *IP lifecycle* service. The *forwarder* is called by the
DNS proxy and shares no state with the rest. A *restore* replaces the database, and with
it the state of every other component, and restarts the process.

What makes the core correct: no registered change is lost or taken as applied before it
is; one stack answers DHCP at a time; the setting names the stack that serves; no lease is
lost on the way; everything that waits is woken; and the database is never given the leases
of a server that is still being handed them. An address's allocation claims nothing that is
not configured, and each owner's claim ends only by that owner; a forwarded query is answered
once, with its own answer or none, in time; a restore that is cut short can be undone and one
that ends takes nothing with it that the operator still needs. `PROJECT.json` lists the hazards,
each at its
line, with the properties aimed at it.

## Modules

| Module | Models | Runs |
|---|---|---|
| `AfterCommit` | the queue, its rows, zone writes that outlive a turn, holds, crash, boot | `after_commit`, `after_commit_live`, `after_commit_hold_zones` |
| `AfterCommitProofs` | theorems about `AfterCommit` | |
| `StackSwitch` | the switch both ways, rollback, commit, crash, boot, daemons and their leases | `stack_switch`, `stack_switch_rollback`, `stack_switch_radvd` |
| `StackSwitchProofs` | theorems about `StackSwitch` | |
| `LeaseSync` | the sync runner, the watcher, the hold, the request beside it | `lease_sync`, `lease_sync_manual` |
| `LeaseSyncProofs` | theorems about `LeaseSync` | |
| `Resolution` | what a resolver promises its caller (abstract) | |
| `UpstreamPool` | the connection pool of a provider; implements `Resolution` | `upstream_pool` |
| `UpstreamPoolProofs` | theorems about `UpstreamPool`, its refinement of `Resolution` among them | |
| `IpLifecycle` | who owns an address of a network, and every route, sync and sweep that changes it | `ip_lifecycle`, `ip_lifecycle_async` |
| `IpLifecycleProofs` | theorems about `IpLifecycle` | |
| `Backup` | backups, retention, the restore, the first boot after it | `backup` |
| `BackupProofs` | theorems about `Backup` | |
| `MC*` | instances for TLC | |

Definitions whose comment begins with *Mutation* are plausible mistakes in the definition
that follows them; they are in no behaviour of the specification and serve to show that each
property can fail.

### AfterCommit

The rows a hook renders are a version number: `content[h]` counts the committed changes hook
`h` has to render, `rendered[h]` the version the daemons carry, and `promise[h][g]` remembers
what generation `g` has to carry. `running` and `pending` are `hookState`; `task[h]` says where
the run of `h` is (microtask queued, waiting in `zoneQueue`, writing), `taken[h]` the generation
`markApplying` returned. A step is what runs between two turns of the event loop, so a
synchronous hook is one step (`RunSync`) and PowerDNS's zone hook is three (`StartAsync`,
`LoadZones`, `Settle`). `Deferrable` hooks may resolve with the write left to
`restartAll()` (`ResyncZones`, `ResyncDone`), as `applyZones` does when Authoritative does
not answer. `Handle` and `Finish` are a route's commit and its response's `finish` event;
`Abandon` is a response that ends in an error or never finishes. `Boot` is the part of `main()`
that resumes unfinished hooks. Overlapping background restarts are one restart.

### StackSwitch

One action per stretch between two awaits of `toPdnsKea`, `toDnsmasq`, the two rollbacks,
`commit` and `selectStackAtBoot`; `pc` says which. A lease is its address. Daemons are
external: up or down, handing out leases while they serve (`Grant`); Kea has a file that makes
it serve or not, its open sockets, and perhaps a SIGHUP on its way (`kea`). `Fault` is spent
by each step that fails: an awaited call that throws, a daemon that will not stop, a reload
that does not reach Kea, a render refused. `owed`, `told` and `unstopped` are history
variables for the properties. `wantsRa` says whether a live DHCPv6 scope gives radvd
something to advertise. `dhcp_enabled` is taken to be on, both lease families are one, and the
legacy `dhcp_backend` setting of 0.5.2 is covered by the same carry of Kea's leases as
the fallback. Kea may refuse any of the leases it is given, in a switch, which reports them, and
in a rollback, which does not; a rollback's restart of dnsmasq may fail before or after the
leases are written to its file.

### LeaseSync

The server's lease set is a version number. A read notes the version at which it began and
settles as any version since, because a page scan is not atomic and a renewal does not move
Kea's count; or it does not settle and nothing is stored. `Wipe` and `Refill` are the two
halves of `importKeaLeases` in `rollBackToPdnsKea`, when Kea is already the DHCP backend.
`ManualSync`, `ManualRead`, `ManualIngest` and `ManualRelease` are `POST /api/dhcp/sync-leases`.

### UpstreamPool and Resolution

A step is one callback of the event loop or one promise continuation; continuations run before
the next callback, so every other action waits for `Quiet`. `call[q]` holds the locals of
`query()` for query `q` (address, retry, deadline) and the call object of the send it awaits;
`conn` the `Connection` objects, in slots because an address may have a closing connection
and its successor at once; `connections` the pool's map. A connection is *closing* from
`destroy()` to its `'close'` event: in between a `DotConnection` is still usable and an HTTP/2
one is not. `wire` is what the server has been sent and not answered. `Resume` is the body of
the loop of `query()` after each `await`. The network is external: it opens, refuses, drops,
drains, answers in any order or never. `Tick` lets time pass only when no timer is due.
`CloseAll` may come at any turn of the event loop; `retired` says that it has, and no query is
taken after it, for each caller of `closeAll()` drops the pool with it
(`encrypted-forwarder.js:358`, `upstream-probe.js:138`, `resolver-benchmark.js:129`). The
queries already taken go on.

`Resolution` says what the caller may rely on: a query taken is answered once, with its own
answer or with failure, and while it is open the clock does not pass its deadline. The mapping
reads `status` and `due` off `call`; a reply delivered to the wrong query maps to a status
no abstract step produces.

### IpLifecycle

One managed IPv4 network. `record`, `zone`, `scope`, `gateway`, `reservation` and `lease` are
what is configured or stored, `row` the address's `allocation_state`, `allocation_source_type`,
`allocation_source_id` and `detection_source`. Each route is one step, checks and
transaction: a lifecycle conflict rolls it back, so a refused request is not a step.
The service's functions are operators from row to row (`AllocateStaticDns`,
`DeallocateStaticDns`, `ReconcileDnsHold`...), each with the check that throws (`May...`), and
`AllocationTransitions` is the table of `models/ip-lifecycle.js`. The sweep is two steps,
`BeginSweep` and `FinishSweep`; with `AsyncRelease` (Kea) other handlers run in between.
A stop or a crash is `Restart`, which reconciles as `db/init.js` does.

A record has a name within its zone. `HostnameConflict` is what `findAHostnameConflict` asks of the
records: whether one that is served gives the address *another* hostname. `POST` of a record also
refuses the same name and value in its zone; `PUT` of a record does not, and `PUT` of a zone asks
nothing, so two served records may name one address, with one hostname or two. Below these are
*twins*.

MACs, the hostnames of leases and reservations, PTRs, liveness and the clock are left out; where
one decides, the choice is free (`moved`, the rows `removeOtherRowsForMac` deletes; the candidates
and the eligible of a sweep). The free choices let the model do things one MAC or one clock would
not; the part of `findAHostnameConflict` that looks at leases and reservations is left out
altogether, so the model takes records the code refuses, and refuses none it takes.

`RowHasItsFact` goes from rows to configuration and holds in general. The converse,
`ConfigHasItsRow`, is stated for DHCP Reservations and the gateway only: of served records it is
false, because `deallocateStaticDns` frees the row of twins with the first of them. For the same
reason `ClaimsEndWithTheirOwner` leaves out the addresses of twins, in both its halves (see *Other
disagreements*).

### Backup

`DATA_DIR` is a tree: the database, the carried directories, and Kea's password inside
its own. An archive's number is its name and its age. `restoreBackup` is synchronous, so nothing runs
inside it but a kill (`Crash`) or a failing call (`FailBeforeSwap`, `FailMidSwap`); each file
operation whose interruption shows is a step: one item copied to the snapshot, the extract,
the stamp, the password moved, one item removed, one item renamed. What is restored is an archive
of this host or any of `Uploads`, a set of trees with a database: archives deleted here since, or
taken on another appliance. A deletion by `enforceRetention` that throws is passed over, so
`CreateBackup` chooses the rows that stay for that reason (`left`) and those whose file stays
too (`stuck`). `before`, `source`, `swapping`, `ended` and `enrolled` are history for the
properties. `enrolled` says that the operator is owed their two-factor: from the day they turn it on
until they turn it off, and across a restore if it was in force when that began and the backup has
their account. Files are their content;
the database is what the properties tell apart (rows of archives, live sessions, the operator's
two-factor, what is parked).

## Runs

| Run | Bounds | Shows |
|---|---|---|
| `after_commit` | a synchronous and an asynchronous hook, a request, two holders (interchangeable), a crash | no work lost, nothing marked applied that is not rendered, nothing asleep, a granted hold is quiet |
| `after_commit_live` | a deferring zone hook, one holder, a crash, fairness | every generation settles, every hold is granted, configuration never goes back, nothing runs while held |
| `after_commit_hold_zones` | a deferring zone hook, two holders | **violation**: a background zone write under a granted hold |
| `stack_switch` | two addresses, two switches, two faults and one crash anywhere | one DHCP server, settled when idle, commits lose no lease, rollbacks serve, switches and gaps end |
| `stack_switch_rollback` | one switch, one fault | **violation**: a lease granted between the rollback's read and the stop is lost |
| `stack_switch_radvd` | one switch, no fault | **violation**: with a live DHCPv6 scope the switch to Kea always rolls back |
| `lease_sync` | three lease versions, one holder, one request, one failed read | one sync at a time, none while held, every change stored |
| `lease_sync_manual` | the same | **violation**: a request stores leases during a rollback's import |
| `upstream_pool` | three queries, two addresses, two wire ids, one retry, a budget of three ticks with two per send, DoT or DoH | the pool implements `Resolution`; calls in flight are watched, ids are their own, connections are shared, a downgrade is resent |
| `ip_lifecycle` | two addresses, two records, two names, one zone, two clients, one scope, one reservation | rows name what is configured, a DHCP Reservation and the gateway have their rows, pools are free, a claim ends only through its owner (twins apart), a start converges |
| `ip_lifecycle_async` | the same with one record, and awaited releases | **violation**: the sweep releases an address reserved during its await |
| `backup` | two archives, four uploads, two restores, one carried directory with two contents, one session, retention one | interrupted restores can be undone, finished ones are complete, sessions stay ended, the enrolment survives, archives are accounted for |

The bounds are small because the hazards need few actors: a request remembered and forgotten
takes one hook and two registrations; a release dropping another's hold takes two holders; a
switch there and back meets leases left from the first. Two faults go one past the code's own
design point: a rollback answers one failure, and a second one, in the rollback, ends with the
marker left and an error that says so (`told`); or the first one is a boot's restart that
failed, and the second the switch that begins from there. Two addresses tell a lease kept from one
lost while another is kept.

In `upstream_pool` two ids wrap round with three queries, a late reply meets a reused id, and
the budget covers one and a half sends, so the last send is cut short by the deadline; an
address needs three slots (closing, draining, new). The code's `CLOSED_RETRIES` is 2 and its
ids are 2^16; the pool treats each retry and each id alike. In `ip_lifecycle` two records with two
names give twins of both sorts and are what `HostnameConflict` and the lowest-record rule are
about; two addresses let a record, a reservation or the gateway move. In
`ip_lifecycle_async` there is one record, so that no twins take part in the counterexample. In
`backup` two restores let the second
start from a directory the first left half replaced, and two archives with a retention
of one let a restore bring back a table that lists a deleted archive and misses a new one. The
uploads have a Kea password of their own and the operator's account or not. The run has a
`VIEW`: two states that differ only in what no later step reads (the contents of archives once no
restore is left, the snapshot between restores) count as one, provided they agree on
`RestoreIsUndoable`.

The largest runs are `upstream_pool` (1.7 million distinct states), `stack_switch` (0.8 million),
`backup` (0.5 million) and `ip_lifecycle` (0.3 million); each takes less than two minutes.

The runs of `AfterCommit` and `StackSwitch` allow a stop (`CHECK_DEADLOCK FALSE`), for a
server with nothing registered or no switch asked for is at rest; so does `UpstreamPool`, whose
queries are all answered in the end. `LeaseSync`, `IpLifecycle` and `Backup` are checked for
deadlock.

### Fairness

* `AfterCommit`: microtasks run, Promises settle (each API call has a timeout), the poll of
  `holdHooks` looks again, holders release (`finally`), and the supervisor restarts a
  process that died. Nothing is assumed of requests or crashes.
* `StackSwitch`: the switch's own steps happen, for each wait has a timeout; Kea handles
  a SIGHUP that was delivered; `awaitAuthoritative` gives up.
* `LeaseSync`: the poll is a timer, reads have timeouts; a switch imports at most once and then
  releases. `Wipe` and `Refill` can repeat in the model only, so the release is given
  strong fairness.

### What the violations say

1. `holdHooks` promises to wait for "a PowerDNS zone write included". When Authoritative does
   not answer, the hook ends with the write still to come, and the hold is granted before it.
2. A rollback is documented to put the source back "with any lease the target handed out
   meanwhile". The target is read while it still serves.
3. "radvd's file is written and it starts": `radvd.stage` has already written it, so the apply
   finds it unchanged, activates nothing, and `radvd.awaitRunning` fails the switch. The
   tests use a fake adapter that starts on every apply.
4. `holdLeaseSync` promises to "stop syncing"; the API route calls `syncLeasesNow` past it.
5. "Each `reserved` row is released only by its owner" (ADR 004). The sweep's second transaction
   checks the transition only for candidates that were dynamic when they were read; one that
   was unassigned is cleared by row id, whoever reserved it while a Kea release was awaited.

### Other disagreements met

Not the subject of a run, recorded here for a reader of the code:

* `upstream-pool.js:18` and `docs/DNS-ENCRYPTION.md:26` say a dropped query is retried once;
  `CLOSED_RETRIES` is 2. A downgrade met in the retry loop (line 471) is not resent, so that
  query gets no answer although line 52 says it is resent at once (`DowngradeIsResent` states
  what holds). Nor does one that meets a `closeAll()`: that empties the map between a refused HTTP/2
  connection's `destroy()` and its `'close'`, the resend finds no connection, opens a second HTTP/2
  one and is refused again; hence the `retired` in the property. "The next query connects fresh"
  (line 99) is true from the `'close'` event on; a DoT query sent before it goes onto the destroyed
  connection, and is saved by the retry.
* *Twins*: `docs/IP-LIFECYCLE-GOVERNANCE-PLAN.md:519` says "Enabled manual A and AAAA records
  must be consistent with the IP's `static_dns` allocation". Two served records can come to name one
  address: `PUT` of a record has no duplicate check (`routes/dns.js:844`, `dns-record.js:796`) and
  `findAHostnameConflict` (`dns-record.js:231`) takes equal hostnames for no conflict; `PUT
  /api/dns/zones/:id` asks nothing at all. `deallocateStaticDns` (`ip-lifecycle-service.js:205`)
  frees the row when either is deleted, disabled or renamed, though the other is still served.
  The administrator can then reserve the address, and deleting the second record releases that
  reservation, since the function looks at the transition and not at the owner: this is what ADR
  004:36 rules out ("each `reserved` row is released only by its owner"). TLC finds this in seven
  states for `AdminReservationKept` on the instance of `ip_lifecycle`: two records, one made equal
  to the other by `PUT`, one deleted, the address reserved, the other deleted. A restart in between
  allocates the address to the record that is left.
* A scope created over a held address leaves the hold in place until the next DNS write or
  start, which is why `RestartConverges` speaks of starts.
* `takePreRestoreSnapshot` does not copy `anomaly/`, which a restore replaces, though
  `backup.js:100` and `:524` call the snapshot complete; `Snapshotted` is the set it does copy, and
  `RestoreIsUndoable` promises no more. In the run's instance the one directory is Kea's, which it
  copies.
* `backup.js:1218` says of the restoring operator that "an enrolment they made minutes ago must not
  vanish". `collectRestoreCarryover` looks at the account only, not at an enrolment still parked.
  After a
  restore whose carry-over threw at boot, the operator signs in without two-factor; a second
  restore begun then collects nothing, replaces the database the enrolment was parked in, and it
  is gone. `EnrolmentSurvives` names this as one of the ends of its promise: `SwapPlace` gives up an
  enrolment that was not in force when the restore began.
* A `createBackup` that fails leaves a partial archive, which is adopted into the list and counted
  by retention. A restored table's rows without a file are counted too, so retention can delete
  an archive earlier than the limit says.
* A failure in the middle of the swap removes the staging directory with the host's Kea
  password in it (a new one is made at boot), and writes no restart marker, so the daemons keep
  the leases they had in memory.

## Proofs

`AfterCommitProofs` proves, for every set of hooks, requests and holders and every bound:

* `ControlInvariant`: `Control` is inductive. It joins `TypeOK` with what the properties leave
  out: `holds` is the number of holders that wait or hold (so a positive count means
  somebody will release it), a hook runs exactly when its task is under way, a process that
  is down has empty memory, and a registration made after a run took its generation is
  remembered. From it follow `TypeCorrect`,
  `NothingLost`, `NothingSleeps` and `HoldExcludesRuns`.
* `DataInvariant`: what is loaded is between what is rendered and what is committed, and at least
  what the captured generation promised. It is needed because
  "applied means rendered" is not inductive: the value recorded was captured before the write.
  From it follow `NeverGoesBack`, and `AppliedMeansRendered` when no handler defers.
* `HoldMeansQuiet`: when no handler defers (`Deferrable` is empty) a granted hold is quiet in full,
  zone writes included. `Control` gives that no hook runs, `Data` that a background write needs a
  deferred one. With a deferring handler the run `after_commit_hold_zones` refutes it, so the
  hypothesis is the exact limit.

The only assumptions are the named ones of the module: the two special hooks are hooks and
differ, asynchronous hooks are hooks, holders are finite in number, bounds are naturals.

`LeaseSyncProofs` proves, for every set of holders and requests and every bound:

* `SyncInvariant`: types, the count of the holds, `HeldMeansNotSyncing` and `NothingSleeps` are
  inductive together. The count is what joins them: a sync starts only when it is zero, so
  nobody has a hold then, and the last release is the one that finds it at one. From it follow
  `SyncTypeCorrect`, `HoldExcludesSync` and `RequestsWait`.
* `StaleAlwaysNoticed`: `StaleIsNoticed` speaks of a runner at rest, so it needs `Noticed`, which
  says the same of a sync at each of its stages (began to read, has read, has stored), and
  `Behind`: the watcher is never ahead of the server, and Kea is without its leases only
  under a hold, when the runner does not read.

`BackupProofs` proves, for every set of carried directories, contents and sessions, every
retention limit and every number of archives and restores:

* `IInv` is inductive: `TypeOK`, `EndedStaysEnded` and `EnrolmentSurvives` with the facts they
  lean on. `DatabaseThere` says which steps may find no database (only between the
  removal and the rename of `cidrella.db`, or after a crash there, until `initDb`).
  `StagedIsStamped` says that from the stamp on the staged database has no live session and has
  the enrolment of an operator who had it in force parked, which is why putting it in place
  revives nothing and loses nothing that was in force.
  From it follow `BackupTypeCorrect`, `SessionsStayEnded` and `EnrolmentIsKept`.
* `IInv2` adds the progress of a restore: `SnapshotProgress`, what is copied is what was
  there, for every item no longer to do; `SwapProgress`, each item of the data directory is
  the old one or the new one according to whether it is still to do. `RestoreIsUndoable` is the
  case where nothing is left to do, and follows as `RestoreUndoable`.
* `ArchivesStayAccounted`, the action property of `createBackup` and `listBackups`, follows from
  `IInv` and two counts. `NewestBounded`: of the rows retention keeps, all but the oldest are newer
  than it, and it was kept because fewer than the limit are. `NewestFill`: what retention deletes has
  as many newer rows as the limit, and all those newer than the newest it deletes are kept. Files
  whose deletion failed (`stuck`) are outside the first count, as they are in the code.

The assumptions are the module's: Kea's directory is among those the snapshot copies, these among
the carried ones, the limit is positive, an upload has a database, a tree with Kea's password has
Kea's directory, and the markers are not trees.

`StackSwitchProofs` proves, for every set of addresses and every number of switches, faults
and crashes, that `SwitchInv` is inductive. Its parts rest on each other in this order:

* `ConfigInv`: which stack is in memory, in the setting and in the marker at each step of the
  switch, its rollbacks and the boot. The setting names the source until `commit` writes it, and a
  rollback brings memory back to it, which is why idle is settled (`IdleIsSettled`).
* `DaemonInv`: which DHCP servers run at each step. `OneDhcpServer` alone is not inductive, for Kea
  may have a SIGHUP on its way that will make it listen; `KeaLive` counts it as serving already.
  The rest says that the one server has stopped, or is counted as `unstopped`, before the
  other is started or told to listen. `OneServerAtATime` and `RollbackServes` follow.
* `FaultlessInv`: what holds while nothing has failed, from which `FaultlessIdleServes`.
* `LeaseInv`: where the leases owed are in a switch to Kea: with dnsmasq until they are read,
  then in the snapshot, then in Kea or refused. `CommitLosesNoLease` is its last case.
* `SettingMovesLast`, an action property stated with the proofs (`SettingFollowsServer`): the
  setting moves only to a stack whose DHCP server already runs alone, or at a boot that finds
  PowerDNS and Kea unable to run, to dnsmasq.

The attempt to prove `RolledBackServes` corrected it. It used to say that the source's server
always runs after a rollback; that needs two faults to fail (a boot's restart of the source, then
a switch that rolls back before it came to stopping the source, and so has nothing to start again).
The property now says so, and the run has two faults.

`UpstreamPoolProofs` proves, for any queries, addresses, id space, retries and time limits, that
`PoolInv` is inductive: what a call in flight is on (`CallInv`), which kinds of connection there
can be (`ConnInv`), that the pool's map has every connection in service, and the refused one until
its `'close'` (`MapInv`), that every frame on a live DoT connection belongs to a call in flight
under its id (`WireInv`), and that a call resent after a downgrade cannot meet another
(`DowngradeInv`), with `WaitingIsWatched` and `DowngradeIsResent` themselves. Two lemmas carry the
induction:
`AttemptKeeps`, for the one step that takes a connection and an id, and `EventKeeps`, for an event
that settles calls and takes connections down; each action is an instance of one of them.
From `PoolInv` follow `PoolTypeCorrect`, `InFlightIsWatched`, `WireIdsAreOwn`, `OneConnection`
and `DowngradeCostsNoAnswer`, and the refinement `PoolImplementsResolution`: initial states map to
initial states, and every step of the pool to a step of `Resolution` or to a stutter. Without
`WireInv` a reply could be mapped to the status no abstract step produces; without
`WaitingIsWatched` a `Tick` could pass a deadline.

`IpLifecycleProofs` proves, for every set of addresses, zones, records and clients:

* `PoolsStayFree`, with twins and awaited releases too: `PoolsAreFree` is inductive once
  `record`, `zone` and `scope` have their shapes (`PoolInv`). The argument is the symmetry of the
  checks: a step that brings a record into service (`DnsChanged`) has asked `findEnabledScopeForIp`, a
  step that enables a scope has asked `dynamicPoolConflict`, and a gateway moves only outside the
  range.
* `RowInvariant`, under the same generality: `RowInv` is inductive. It is `RowHasItsFact` one address
  at a time (`RowOK`), with two facts it leans on: a row is the gateway's exactly when its source is
  the topology, by which a former gateway is found, and an administrator's row is reserved, by
  which nothing else takes it for its own. A row's facts are stated over the tables *as the
  transaction has left them*, so the lemmas about the service's functions
  (`AllocateStaticDnsGrounded`, `DeallocateStaticDnsGrounded`, `ReconciledRow`...) serve every route.
  From it follow `LifecycleTypeCorrect` and `RowsHaveFacts`.
* `ConfigInvariant`, where no release is awaited (`~AsyncRelease`, dnsmasq), whatever records share
  an address: `FactInv` adds to `RowInv` `ConfigHasItsRow` and that a sweep finds its candidates'
  rows as
  it read them (`SweepInv`). The condition is needed: with an awaited release TLC refutes
  `ConfigHasItsRow` too, by a DHCP Reservation made during the await, as `ip_lifecycle_async` refutes
  `AdminReservationKept`. From it follow `ConfigHasRows`; `ClaimsEndProperly`, in which
  the one served record is shown to be the row's own (`OnlyServed`), so that the route that
  releases the row is the one that ends its service; and `RestartRestoresHolds`, which needs
  `ConfigHasItsRow` and `PoolsAreFree` to know that an unassigned row belongs to no gateway and
  that a served record may always be allocated.

The assumptions of each are the named ones of its module (`SwitchBounds`, `PoolAssumption`,
`LifecycleAssumption`): bounds are naturals, sets are finite where they are counted, `None` is
none of the values it stands beside.

Every safety property of a passing run is now a theorem. Left to TLC: the liveness properties
(`EveryGenerationSettles`, both `HoldIsGranted`, `SwitchEnds`, `GapEnds`, `EveryChangeSynced`),
for fairness is out of the prover's reach; and of course the properties that the violation runs
refute.

## Not modelled

* The text of rendered files, packet encodings, metrics and statistics, the web client, the
  installers: input, output and presentation, with no coordination of their own.
* The stop of Recursor against a background start (`pdns/index.js:331`) is in `StackSwitch` as a
  step, but no property is stated about DNS yet.
* Above the pool: the choice among providers and their holds (`encrypted-forwarder.js`), and
  the DNS proxy's query table.
* Of addresses: IPv6 claims, network and broadcast addresses, hostnames and PTR records, the
  bulk routes, and the split and merge of networks.
* Of leases: `assignLeaseNames` and `syncDhcpDnsRecords`.
* Of backups: the scheduler, the inspection of an uploaded archive (a refusal changes
  nothing), and `sweepStaleRestoreArtifacts`, which only frees space.
* Sessions beyond their start and end, blocklists, rogue detection, scans.

## Plan

1. Proofs: more of what is behind the liveness properties as safety (a step that is enabled stays
   so until it is taken), and the condition under which an awaited sweep keeps `ConfigHasItsRow`.
2. `LeaseNames`: `assignLeaseNames` against a reference definition (unique names, refused leases).
3. An abstract switch (a lease set that moves atomically or stays) that `StackSwitch` refines
   when no fault occurs; `OneDnsServer` with the ports; `ValidatedFiles`.
4. The forwarder over several pools, with its own refinement of `Resolution`; `DnsProxy`;
   `Sessions`; `Scans`; the split and merge of networks.
