----------------------------- MODULE IpLifecycle -----------------------------
(***************************************************************************)
(* Who owns an address: services/ip-lifecycle-service.js, the one writer   *)
(* of ip_addresses.allocation_state, driven by the routes that change DNS  *)
(* records and zones, DHCP scopes and reservations, the gateway and IP     *)
(* Reservations, by the lease sync, by the retirement sweep and by start.  *)
(*                                                                         *)
(* One managed IPv4 network.  A route is one step: its checks, then one    *)
(* transaction, which a lifecycle conflict rolls back, so a refused        *)
(* request is no step.  Only the sweep spans two transactions, with the    *)
(* DHCP backend's lease releases awaited in between.  MACs, the hostnames  *)
(* of leases and reservations, PTR records, history, liveness and the IPv6 *)
(* claims are left out; where one of them or the clock decides, the choice *)
(* is free.                                                                *)
(***************************************************************************)
EXTENDS Integers, FiniteSets

CONSTANTS Addresses,     \* host addresses of the network
          Zones,         \* forward zones
          Names,         \* record names, each within its zone
          NumRecords,    \* bound: manual A records at once
          Clients,       \* DHCP clients
          AsyncRelease,  \* whether releaseLease waits on I/O: Kea's does, dnsmasq's does not
          None

ASSUME LifecycleAssumption ==
    /\ NumRecords \in Nat \ {0}
    /\ AsyncRelease \in BOOLEAN
    /\ None \notin Addresses \cup Clients
    /\ IsFiniteSet(Addresses)

VARIABLES record,       \* dns_records, by id: zone, name, value, enabled
          zone,         \* dns_zones.enabled
          scope,        \* the DHCP scope's range and whether it is enabled
          gateway,      \* subnets.gateway_address
          reservation,  \* the DHCP Reservation: client, address, enabled
          lease,        \* dhcp_leases: the client of each address's active lease
          row,          \* ip_addresses: allocation_state, _source_type, _source_id,
                        \* detection_source
          sweep,        \* the candidates of the sweep under way, with their states
          awaiting      \* whether that sweep yields to other handlers for a release

facts == <<record, zone, scope, gateway, reservation>>
vars == <<record, zone, scope, gateway, reservation, lease, row, sweep, awaiting>>

Records == 1..NumRecords

States == {"unassigned", "reserved", "static_dns", "static_dhcp", "dynamic_dhcp", "gateway"}
Sources == {"none", "admin_reservation", "dns", "dhcp_reservation", "dhcp_lease", "topology"}
\* detection_source: a DHCP Reservation, something observed (a lease, a scan, a
\* query), or none of these (nothing, or configuration).
Detections == {"none", "dhcp_reservation", "observed"}

RecordType == [zone : Zones, name : Names, ip : Addresses, on : BOOLEAN]
ReservationType == [client : Clients, ip : Addresses, on : BOOLEAN]
RowType == [state : States, source : Sources, id : 0..NumRecords, det : Detections]

NoRecord == [zone |-> None, name |-> None, ip |-> None, on |-> FALSE]
NoReservation == [client |-> None, ip |-> None, on |-> FALSE]
NoRow == [state |-> "unassigned", source |-> "none", id |-> 0, det |-> "none"]
NoSweep == [a \in Addresses |-> "none"]

Init ==
    /\ record = [r \in Records |-> NoRecord]
    /\ zone = [z \in Zones |-> TRUE]
    /\ scope = [range |-> {}, on |-> FALSE]
    /\ gateway = None
    /\ reservation = NoReservation
    /\ lease = [a \in Addresses |-> None]
    /\ row = [a \in Addresses |-> NoRow]
    /\ sweep = NoSweep
    /\ awaiting = FALSE

\* Other handlers run between sweeps, or while one awaits a release.
Idle == sweep = NoSweep \/ awaiting

-----------------------------------------------------------------------------
(* What the DNS tables, the scope and the gateway say of an address; d is  *)
(* the records and zones as the transaction has left them.                 *)

Dns == [record |-> record, zone |-> zone]

Named(d, a) == {r \in Records : d.record[r] # NoRecord /\ d.record[r].ip = a}
Served(d, a) == {r \in Named(d, a) : d.record[r].on /\ d.zone[d.record[r].zone]}
Unserved(d, a) == Named(d, a) \ Served(d, a)
Lowest(rs) == CHOOSE r \in rs : \A q \in rs : r <= q
Highest(rs) == CHOOSE r \in rs : \A q \in rs : q <= r

\* findEnabledScopeForIp
Pool(s) == IF s.on THEN s.range ELSE {}

\* Mutation: a record holds its address inside an enabled scope too.
HoldersInPools(d, a) == IF a = gateway THEN {} ELSE Unserved(d, a)

\* dnsHoldingRecord: the records that may hold the address.
Holders(d, a) == IF a = gateway \/ a \in Pool(scope) THEN {} ELSE Unserved(d, a)

\* findAHostnameConflict among records: a served record gives the address another
\* hostname.  One with the same hostname is no conflict.
HostnameConflict(a, z, n, r) ==
    \E q \in Served(Dns, a) \ {r} : <<record[q].name, record[q].zone>> # <<n, z>>

\* enabledReservationAt
Reserved(v, a) == v.on /\ v.ip = a

-----------------------------------------------------------------------------
(* The transition table and the assertion every checked write makes.       *)

AllocationTransitions ==
    [admin_reservation |-> {<<"unassigned", "reserved">>, <<"reserved", "reserved">>,
                            <<"reserved", "unassigned">>},
     dns |-> {"unassigned", "reserved", "static_dns"} \X {"static_dns", "reserved"}
               \cup {<<"reserved", "unassigned">>, <<"static_dns", "unassigned">>},
     dhcp_reservation |-> {"unassigned", "reserved", "static_dhcp"} \X {"static_dhcp"}
               \cup {<<"static_dhcp", "unassigned">>},
     dhcp_lease |-> {"unassigned", "dynamic_dhcp"} \X {"dynamic_dhcp"}
               \cup {<<"dynamic_dhcp", "unassigned">>},
     topology |-> {"unassigned", "gateway"} \X {"gateway"} \cup {<<"gateway", "unassigned">>}]

AssertAllocationTransition(a, w, target, source) ==
    /\ target \notin {"unassigned", "gateway"} => a # gateway
    /\ \/ w.state = "unassigned" /\ target = "unassigned"
       \/ <<w.state, target>> \in AllocationTransitions[source]

\* setCanonicalAllocation, keeping detection_source.
Allocated(w, state, source, id) == [w EXCEPT !.state = state, !.source = source, !.id = id]
Freed(w) == Allocated(w, "unassigned", "none", 0)

\* Mutation: a hold is stored under the name it is shown by.
HeldAsShown(w, rs) == Allocated(w, "reserved", "disabled DNS", Lowest(rs))
Held(w, rs) == Allocated(w, "reserved", "dns", Lowest(rs))

\* Mutation: the owner of a reserved row is not looked at.
IsDnsHoldAny(w) == w.state = "reserved"
IsDnsHold(w) == w.state = "reserved" /\ w.source = "dns"
Protected(w) == [Allocated(w, "gateway", "topology", 0) EXCEPT !.det = "none"]

-----------------------------------------------------------------------------
(* DNS claims and holds: each operator maps a row to the row it leaves,    *)
(* and May... is the check that throws.                                    *)

MayAllocateStaticDns(a, w) ==
    /\ a \notin Pool(scope)
    /\ IF a = gateway THEN AssertAllocationTransition(a, w, "gateway", "topology")
                      ELSE AssertAllocationTransition(a, w, "static_dns", "dns")

AllocateStaticDns(a, w, r) ==
    IF a = gateway THEN Protected(w)
    ELSE [Allocated(w, "static_dns", "dns", r) EXCEPT !.det = "none"]

MayDeallocateStaticDns(d, a, w) ==
    \/ w.state = "gateway"
    \/ AssertAllocationTransition(a, w, IF Holders(d, a) # {} THEN "reserved" ELSE "unassigned",
                                  "dns")

\* Mutation: a gateway's row is freed with the record that names it.
DeallocateAnyDns(d, a, w) ==
    IF Holders(d, a) # {} THEN Held(w, Holders(d, a)) ELSE Freed(w)

DeallocateStaticDns(d, a, w) ==
    LET cleared == [w EXCEPT !.det = IF w.state = "static_dns" THEN "none" ELSE @]
    IN  IF w.state = "gateway" THEN w
        ELSE IF Holders(d, a) # {} THEN Held(cleared, Holders(d, a)) ELSE Freed(cleared)

\* Mutation: a hold is taken but never released or moved.
ReconcileDnsHoldKeeps(d, a, w) ==
    IF w.state = "unassigned" /\ Holders(d, a) # {} THEN Held(w, Holders(d, a)) ELSE w

ReconcileDnsHold(d, a, w) ==
    IF w.state # "unassigned" /\ ~IsDnsHold(w) THEN w
    ELSE IF Holders(d, a) # {} THEN Held(w, Holders(d, a))
    ELSE IF IsDnsHold(w) THEN Freed(w) ELSE w

-----------------------------------------------------------------------------
(* DNS routes *)

FreeRecord(r) == record[r] = NoRecord /\ \A q \in Records : q >= r => record[q] = NoRecord

\* POST /zones/:id/records: it also refuses the same name and value in the zone.
CreateRecord(r, z, n, a, on) ==
    LET new == [zone |-> z, name |-> n, ip |-> a, on |-> on]
        d == [Dns EXCEPT !.record[r] = new]
    IN  /\ Idle
        /\ FreeRecord(r)
        /\ ~HostnameConflict(a, z, n, r)
        /\ \A q \in Named(Dns, a) : record[q].zone # z \/ record[q].name # n
        /\ r \in Served(d, a) => MayAllocateStaticDns(a, row[a])
        /\ record' = d.record
        /\ row' = [row EXCEPT ![a] = IF r \in Served(d, a) THEN AllocateStaticDns(a, @, r)
                                                           ELSE ReconcileDnsHold(d, a, @)]
        /\ UNCHANGED <<zone, scope, gateway, reservation, lease, sweep, awaiting>>

\* PUT /zones/:id/records/:id (applyRecordUpdate): name, value and enabled may
\* change, and the result may equal another record.
UpdateRecord(r, n, a, on) ==
    LET old == record[r].ip
        d == [Dns EXCEPT !.record[r] = [@ EXCEPT !.name = n, !.ip = a, !.on = on]]
        was == r \in Served(Dns, old)
        is == r \in Served(d, a)
        leaves == was /\ (~is \/ a # old \/ n # record[r].name)
        Left(b, w) == IF b = old /\ leaves THEN DeallocateStaticDns(d, b, w) ELSE w
        Taken(b, w) == IF b = a /\ is THEN AllocateStaticDns(b, w, r) ELSE w
    IN  /\ Idle
        /\ record[r] # NoRecord
        /\ ~HostnameConflict(a, record[r].zone, n, r)
        /\ leaves => MayDeallocateStaticDns(d, old, row[old])
        /\ is => MayAllocateStaticDns(a, Left(a, row[a]))
        /\ record' = d.record
        /\ row' = [b \in Addresses |->
                     IF b \in {old, a} THEN ReconcileDnsHold(d, b, Taken(b, Left(b, row[b])))
                                       ELSE row[b]]
        /\ UNCHANGED <<zone, scope, gateway, reservation, lease, sweep, awaiting>>

\* DELETE /zones/:id/records/:id (applyRecordDelete)
DeleteRecord(r) ==
    LET a == record[r].ip
        d == [Dns EXCEPT !.record[r] = NoRecord]
    IN  /\ Idle
        /\ record[r] # NoRecord
        /\ r \in Served(Dns, a) => MayDeallocateStaticDns(d, a, row[a])
        /\ record' = d.record
        /\ row' = [row EXCEPT ![a] = IF r \in Served(Dns, a) THEN DeallocateStaticDns(d, a, @)
                                                             ELSE ReconcileDnsHold(d, a, @)]
        /\ UNCHANGED <<zone, scope, gateway, reservation, lease, sweep, awaiting>>

\* reconcileStaticDnsZone: the zone's enabled records leave their claims, take
\* them again if the zone serves now, and every record's hold is re-checked.
ReconcileStaticDnsZone(d, z, served, a) ==
    LET mine == {r \in Named(Dns, a) : record[r].zone = z}
        on == {r \in mine : record[r].on}
        Left(w) == IF on # {} /\ zone[z] THEN DeallocateStaticDns(d, a, w) ELSE w
        Taken(w) == IF on # {} /\ served THEN AllocateStaticDns(a, w, Highest(on)) ELSE w
    IN  [may |-> /\ on # {} /\ zone[z] => MayDeallocateStaticDns(d, a, row[a])
                 /\ on # {} /\ served => MayAllocateStaticDns(a, Left(row[a])),
         row |-> IF mine = {} THEN row[a] ELSE ReconcileDnsHold(d, a, Taken(Left(row[a])))]

\* PUT /zones/:id: enabled or disabled, or (on = zone[z]) renamed; nothing asks
\* whether its records give an address a second hostname.
UpdateZone(z, on) ==
    LET d == [Dns EXCEPT !.zone[z] = on]
    IN  /\ Idle
        /\ \A a \in Addresses : ReconcileStaticDnsZone(d, z, on, a).may
        /\ zone' = d.zone
        /\ row' = [a \in Addresses |-> ReconcileStaticDnsZone(d, z, on, a).row]
        /\ UNCHANGED <<record, scope, gateway, reservation, lease, sweep, awaiting>>

\* DELETE /zones/:id; the name stands for the next zone created, which is enabled.
DeleteZone(z) ==
    LET d == [record |-> [r \in Records |->
                            IF record[r].zone = z THEN NoRecord ELSE record[r]],
              zone |-> [zone EXCEPT ![z] = TRUE]]
    IN  /\ Idle
        /\ \A a \in Addresses : ReconcileStaticDnsZone(d, z, FALSE, a).may
        /\ record' = d.record
        /\ zone' = d.zone
        /\ row' = [a \in Addresses |-> ReconcileStaticDnsZone(d, z, FALSE, a).row]
        /\ UNCHANGED <<scope, gateway, reservation, lease, sweep, awaiting>>

-----------------------------------------------------------------------------
(* DHCP scopes, reservations and leases *)

\* Mutation: static DNS allocations inside the range are not looked for.
DynamicPoolConflictGateway(range) ==
    \E a \in range : a = gateway \/ row[a].state = "gateway"

\* dynamicPoolConflict: the gateway, a served record or a protected row inside.
DynamicPoolConflict(range) ==
    \E a \in range : a = gateway \/ Served(Dns, a) # {} \/ row[a].state = "gateway"

\* POST and PUT /scopes: created enabled; a change to any range, enabled or not.
SaveScope(range, on) ==
    /\ Idle
    /\ range # {}
    /\ scope.range = {} => on
    /\ range # scope.range => gateway \notin range
    /\ on => ~DynamicPoolConflict(range)
    /\ scope' = [range |-> range, on |-> on]
    /\ UNCHANGED <<record, zone, gateway, reservation, lease, row, sweep, awaiting>>

DeleteScope ==
    /\ Idle
    /\ scope.range # {}
    /\ scope' = [range |-> {}, on |-> FALSE]
    /\ UNCHANGED <<record, zone, gateway, reservation, lease, row, sweep, awaiting>>

\* reservationIpRejectionReason, of the route
ReservationIpRejected(a) ==
    a = gateway \/ row[a].state \in {"gateway", "static_dns", "dynamic_dhcp"}

AllocateStaticDhcp(w) ==
    [Allocated(w, "static_dhcp", "dhcp_reservation", 0) EXCEPT !.det = "dhcp_reservation"]

\* deallocateStaticDhcp: a row only the reservation wrote falls to the address's
\* active lease, or goes; any other keeps what was learned about it elsewhere.
DeallocateStaticDhcp(a, w) ==
    IF w.det = "dhcp_reservation" /\ lease[a] # None
    THEN [Allocated(w, "dynamic_dhcp", "dhcp_lease", 0) EXCEPT !.det = "observed"]
    ELSE ReconcileDnsHold(Dns, a, NoRow)

\* The sweep names its rows by id: it no longer finds one deleted meanwhile.
Gone(s) == IF s = "none" THEN s ELSE "gone"
ForgetRow(a) ==
    IF row[a].det = "dhcp_reservation" /\ lease[a] = None
    THEN [sweep EXCEPT ![a] = Gone(@)] ELSE sweep

\* POST /reservations
CreateReservation(c, a) ==
    /\ Idle
    /\ reservation = NoReservation
    /\ ~ReservationIpRejected(a)
    /\ AssertAllocationTransition(a, row[a], "static_dhcp", "dhcp_reservation")
    /\ reservation' = [client |-> c, ip |-> a, on |-> TRUE]
    /\ row' = [row EXCEPT ![a] = AllocateStaticDhcp(@)]
    /\ UNCHANGED <<record, zone, scope, gateway, lease, sweep, awaiting>>

\* A disabled reservation holds no allocation, so it has nothing to release.
HeldLiveAllocation == reservation.on

\* PUT /reservations/:id; given = whether the request names an address.
UpdateReservation(c, a, on, given) ==
    LET old == reservation.ip
        leaves == HeldLiveAllocation /\ (a # old \/ ~on)
        Left(b) == IF b = old /\ leaves THEN DeallocateStaticDhcp(b, row[b]) ELSE row[b]
    IN  /\ Idle
        /\ reservation # NoReservation
        /\ ~given => a = old
        /\ given => ~ReservationIpRejected(a)
        /\ leaves => AssertAllocationTransition(old, row[old], "unassigned", "dhcp_reservation")
        /\ on => AssertAllocationTransition(a, Left(a), "static_dhcp", "dhcp_reservation")
        /\ reservation' = [client |-> c, ip |-> a, on |-> on]
        /\ row' = [b \in Addresses |->
                     IF b = a /\ on THEN AllocateStaticDhcp(Left(b)) ELSE Left(b)]
        /\ sweep' = IF leaves THEN ForgetRow(old) ELSE sweep
        /\ UNCHANGED <<record, zone, scope, gateway, lease, awaiting>>

\* DELETE /reservations/:id
DeleteReservation ==
    LET a == reservation.ip
    IN  /\ Idle
        /\ reservation # NoReservation
        /\ HeldLiveAllocation =>
             AssertAllocationTransition(a, row[a], "unassigned", "dhcp_reservation")
        /\ reservation' = NoReservation
        /\ row' = IF HeldLiveAllocation
                  THEN [row EXCEPT ![a] = DeallocateStaticDhcp(a, @)] ELSE row
        /\ sweep' = IF HeldLiveAllocation THEN ForgetRow(a) ELSE sweep
        /\ UNCHANGED <<record, zone, scope, gateway, lease, awaiting>>

\* dhcpLeaseRejectionReason, of client c's lease on the address
LeaseRejected(a, c) ==
    \/ Reserved(reservation, a) /\ c # reservation.client
    \/ ~Reserved(reservation, a) /\ a \notin Pool(scope)
    \/ ~IF Reserved(reservation, a)
        THEN AssertAllocationTransition(a, row[a], "static_dhcp", "dhcp_reservation")
        ELSE AssertAllocationTransition(a, row[a], "dynamic_dhcp", "dhcp_lease")

\* reconcileExpiredDhcpAllocations, of one row; the leases are those stored.
\* A holder still online loses its source too, which the clock and scans decide.
ReconcileExpired(a, w, stored) ==
    IF w.state = "dynamic_dhcp" /\ stored[a] = None THEN Freed(w) ELSE w

\* observeDhcpLeases, of one row
ObserveLease(a, w, stored) ==
    IF stored[a] = None THEN w
    ELSE IF Reserved(reservation, a)
    THEN [Allocated(w, "static_dhcp", "dhcp_reservation", 0) EXCEPT !.det = "observed"]
    ELSE [Allocated(w, "dynamic_dhcp", "dhcp_lease", 0) EXCEPT !.det = "observed"]

\* removeOtherRowsForMac: once a lease is observed, the dynamic rows its client
\* left behind go; whose they were is a free choice.
LeftBehind(stored, a) ==
    /\ row[a].state = "dynamic_dhcp" /\ stored[a] = None /\ ~Reserved(reservation, a)
    /\ \E b \in Addresses \ {a} : stored[b] # None

\* ingestLeases: the backend's leases, the refused ones left out, replace the
\* stored ones (replaceLeases); an earlier one is kept only as expired.
IngestLeases(read, moved) ==
    LET stored == [a \in Addresses |->
                     IF read[a] # None /\ ~LeaseRejected(a, read[a]) THEN read[a] ELSE None]
    IN  /\ Idle
        /\ \A a \in moved : LeftBehind(stored, a)
        /\ lease' = stored
        /\ row' = [a \in Addresses |->
                     IF a \in moved THEN NoRow
                     ELSE ReconcileExpired(a, ObserveLease(a, row[a], stored), stored)]
        /\ sweep' = [a \in Addresses |-> IF a \in moved THEN Gone(sweep[a]) ELSE sweep[a]]
        /\ UNCHANGED <<record, zone, scope, gateway, reservation, awaiting>>

\* The clock passes a lease's expiry; the row waits for the next sync.
ExpireLease(a) ==
    /\ lease[a] # None
    /\ lease' = [lease EXCEPT ![a] = None]
    /\ UNCHANGED <<record, zone, scope, gateway, reservation, row, sweep, awaiting>>

-----------------------------------------------------------------------------
(* Topology, IP Reservations and observations *)

\* PUT /subnets/:id refuses a gateway inside a DHCP pool, of a disabled scope too.
InsideDhcpPool(g) == g \in scope.range

\* PUT /subnets/:id with another gateway (reconcileTopologyAddresses): a former
\* gateway falls back to a served record's claim, the new one is protected.
UpdateGateway(g) ==
    /\ Idle
    /\ g # gateway
    /\ ~InsideDhcpPool(g)
    /\ g # None => <<row[g].state, "gateway">> \in AllocationTransitions.topology
    /\ gateway' = g
    /\ row' = [a \in Addresses |->
                 IF a = g THEN Protected(row[a])
                 ELSE IF row[a].source # "topology" THEN row[a]
                 ELSE IF Served(Dns, a) # {}
                 THEN [Allocated(row[a], "static_dns", "dns", Lowest(Served(Dns, a)))
                         EXCEPT !.det = "none"]
                 ELSE NoRow]
    /\ UNCHANGED <<record, zone, scope, reservation, lease, sweep, awaiting>>

\* PUT /subnets/:id/ips/:ip/allocation (setManualReservation)
ReserveAddress(a) ==
    /\ Idle
    /\ ~IsDnsHold(row[a])
    /\ AssertAllocationTransition(a, row[a], "reserved", "admin_reservation")
    /\ row' = [row EXCEPT ![a] = [Allocated(@, "reserved", "admin_reservation", 0)
                                    EXCEPT !.det = "none"]]
    /\ UNCHANGED <<record, zone, scope, gateway, reservation, lease, sweep, awaiting>>

ReleaseAddress(a) ==
    /\ Idle
    /\ ~IsDnsHold(row[a])
    /\ a # gateway
    /\ AssertAllocationTransition(a, row[a], "unassigned", "admin_reservation")
    /\ row' = [row EXCEPT ![a] = ReconcileDnsHold(Dns, a, [Freed(@) EXCEPT !.det = "none"])]
    /\ UNCHANGED <<record, zone, scope, gateway, reservation, lease, sweep, awaiting>>

\* A query from the address, or a scan that finds a host there, becomes the source
\* of what is known of it (recordPassiveActivity).
Observe(a) ==
    /\ Idle
    /\ row' = [row EXCEPT ![a].det = "observed"]
    /\ UNCHANGED <<record, zone, scope, gateway, reservation, lease, sweep, awaiting>>

-----------------------------------------------------------------------------
(* The retirement sweep, retireStaleDynamicAddresses *)

\* findRetirementCandidates: of the rows offline for an hour, these qualify.
RetirementCandidate(a) ==
    \/ row[a].state = "dynamic_dhcp"
    \/ /\ row[a].state = "unassigned"
       /\ ~Reserved(reservation, a)
       /\ Served(Dns, a) = {}
       /\ row[a].det = "observed"

\* The first transaction; an active lease among the candidates is released next,
\* and awaited where the backend's release is.
BeginSweep(candidates) ==
    /\ sweep = NoSweep
    /\ candidates # {}
    /\ \A a \in candidates : RetirementCandidate(a)
    /\ awaiting' = (AsyncRelease /\ \E a \in candidates : lease[a] # None)
    /\ sweep' = [a \in Addresses |-> IF a \in candidates THEN row[a].state ELSE "none"]
    /\ UNCHANGED <<record, zone, scope, gateway, reservation, lease, row>>

\* The second transaction, for the candidates whose leases were released; the
\* assertion covers only what was dynamic when the candidates were read.
FinishSweep(eligible) ==
    LET ok == \A a \in eligible :
                sweep[a] = "dynamic_dhcp" =>
                  AssertAllocationTransition(a, row[a], "unassigned", "dhcp_lease")
    IN  /\ sweep # NoSweep
        /\ \A a \in eligible : sweep[a] # "none"
        /\ lease' = IF ok THEN [a \in Addresses |-> IF a \in eligible THEN None ELSE lease[a]]
                          ELSE lease
        /\ row' = IF ok THEN [a \in Addresses |->
                                IF a \in eligible /\ sweep[a] # "gone" THEN NoRow ELSE row[a]]
                        ELSE row
        /\ sweep' = NoSweep
        /\ awaiting' = FALSE
        /\ UNCHANGED facts

-----------------------------------------------------------------------------
(* Start: reconcileDnsHolds, then reconcileStaticDnsAllocations (db/init.js). *)

ReconcileStaticDnsAllocation(a, w) ==
    IF Named(Dns, a) = {} THEN w
    ELSE IF Served(Dns, a) = {} THEN ReconcileDnsHold(Dns, a, w)
    ELSE IF (w.state \in {"gateway", "unassigned"} \/ IsDnsHold(w)) /\ MayAllocateStaticDns(a, w)
    THEN AllocateStaticDns(a, w, Lowest(Served(Dns, a)))
    ELSE w

\* A stop or a crash loses the sweep under way; the next start reconciles.
Restart ==
    /\ UNCHANGED <<record, zone, scope, gateway, reservation, lease>>
    /\ sweep' = NoSweep
    /\ awaiting' = FALSE
    /\ row' = [a \in Addresses |->
                 ReconcileStaticDnsAllocation(a, ReconcileDnsHold(Dns, a, row[a]))]

Next ==
    \/ \E r \in Records, z \in Zones, n \in Names, a \in Addresses, on \in BOOLEAN :
         CreateRecord(r, z, n, a, on)
    \/ \E r \in Records, n \in Names, a \in Addresses, on \in BOOLEAN : UpdateRecord(r, n, a, on)
    \/ \E r \in Records : DeleteRecord(r)
    \/ \E z \in Zones, on \in BOOLEAN : UpdateZone(z, on)
    \/ \E z \in Zones : DeleteZone(z)
    \/ \E range \in SUBSET Addresses, on \in BOOLEAN : SaveScope(range, on)
    \/ DeleteScope
    \/ \E c \in Clients, a \in Addresses : CreateReservation(c, a)
    \/ \E c \in Clients, a \in Addresses, on, given \in BOOLEAN :
         UpdateReservation(c, a, on, given)
    \/ DeleteReservation
    \/ \E read \in [Addresses -> Clients \cup {None}], moved \in SUBSET Addresses :
         IngestLeases(read, moved)
    \/ \E a \in Addresses : ExpireLease(a) \/ ReserveAddress(a) \/ ReleaseAddress(a) \/ Observe(a)
    \/ \E g \in Addresses \cup {None} : UpdateGateway(g)
    \/ \E s \in SUBSET Addresses : BeginSweep(s) \/ FinishSweep(s)
    \/ Restart

Spec == Init /\ [][Next]_vars

-----------------------------------------------------------------------------
(* Properties *)

\* Every table holds what its columns allow.
TypeOK ==
    /\ record \in [Records -> RecordType \cup {NoRecord}]
    /\ zone \in [Zones -> BOOLEAN]
    /\ scope \in [range : SUBSET Addresses, on : BOOLEAN]
    /\ gateway \in Addresses \cup {None}
    /\ reservation \in ReservationType \cup {NoReservation}
    /\ lease \in [Addresses -> Clients \cup {None}]
    /\ row \in [Addresses -> RowType]
    /\ sweep \in [Addresses -> States \cup {"none", "gone"}]
    /\ awaiting \in BOOLEAN

\* No row claims an address for something that is not there: static_dns names
\* a served record of the address and a DNS hold an unserved one, static_dhcp
\* has its enabled DHCP Reservation, gateway is the network's gateway.  Every
\* release path (record, zone, reservation, gateway) has to find the row.
RowHasItsFact ==
    \A a \in Addresses :
        LET w == row[a] IN
        /\ w.state = "static_dns" => w.id \in Served(Dns, a)
        /\ IsDnsHold(w) => w.id \in Unserved(Dns, a)
        /\ w.state = "static_dhcp" => Reserved(reservation, a)
        /\ w.state = "gateway" => a = gateway

\* The converse, for the two facts that own their address whatever else is
\* configured: an enabled DHCP Reservation has its static_dhcp row and the gateway
\* its protected one, so that no DNS route, lease, scan, sweep or restart takes the
\* row from under them.  A served record has no such guarantee (README: twins).
ConfigHasItsRow ==
    \A a \in Addresses :
        /\ Reserved(reservation, a) => row[a].state = "static_dhcp"
        /\ a = gateway => row[a].state = "gateway"

\* No enabled DHCP pool covers a served record's address or the gateway, in
\* either order of configuration: the scope routes look for records, the record
\* and gateway routes for scopes, and a zone's change for both.
PoolsAreFree ==
    \A a \in Pool(scope) : Served(Dns, a) = {} /\ a # gateway

\* "A DNS change cannot release an administrator's IP Reservation" and "each
\* reserved row is released only by its owner" (ADR 004): it gives way only to a
\* claim that is allowed to take it, or to the administrator's own release.
AdminReservationKept ==
    [][\A a \in Addresses :
         row[a].source = "admin_reservation" =>
           \/ row'[a].source = "admin_reservation"
           \/ row'[a].state \in {"static_dhcp", "static_dns"}
           \/ ReleaseAddress(a)]_vars

\* What the code keeps of it when no await splits the sweep: an administrator's
\* reservation of an address no served record names ends as above, and the row of
\* an address's only served record stays its claim for as long as a record is
\* served there, whatever the other handlers do.  The hypotheses leave out the
\* address two served records name: deallocateStaticDns frees its row with the
\* first of them, and with the second whatever owns the row by then.
ClaimsEndWithTheirOwner ==
    [][\A a \in Addresses :
         /\ row[a].source = "admin_reservation" /\ Served(Dns, a) = {} =>
              \/ row'[a].source = "admin_reservation"
              \/ row'[a].state \in {"static_dhcp", "static_dns"}
              \/ ReleaseAddress(a)
         /\ row[a].state = "static_dns" /\ Cardinality(Served(Dns, a)) = 1
              /\ Served(Dns, a)' # {} =>
              row'[a].state \in {"static_dns", "gateway"}]_vars

\* ADR 004's rule for one address: an unserved record holds it exactly when
\* nothing else owns it and no enabled pool covers it, the lowest record first.
HoldsExactly(a) ==
    LET w == row[a]
        rs == IF a \in Pool(scope) THEN {} ELSE Unserved(Dns, a)
        held == w.state = "reserved" /\ w.source = "dns"
    IN  w.state = "unassigned" \/ held =>
          IF rs = {} THEN ~held ELSE held /\ w.id = Lowest(rs)

\* A start brings every address to that rule, whatever drifted before it: a
\* scope created over a held address, one removed from under an unserved
\* record, a lease that ended, a former gateway.
RestartConverges ==
    [][Restart => (\A a \in Addresses : HoldsExactly(a))']_vars
=============================================================================
