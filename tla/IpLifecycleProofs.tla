-------------------------- MODULE IpLifecycleProofs --------------------------
(***************************************************************************)
(* Theorems about IpLifecycle, for any addresses, zones, names, records    *)
(* and clients.  PoolsAreFree and RowHasItsFact hold with or without an    *)
(* awaited sweep; that DHCP Reservations and the gateway keep their rows,  *)
(* that claims end with their owners and that a start restores the holds   *)
(* are proved where none is awaited: TLC refutes the first two otherwise.  *)
(***************************************************************************)
EXTENDS IpLifecycle, TLAPS, WellFoundedInduction, FiniteSetTheorems

-----------------------------------------------------------------------------
(* What the proof needs of the tables: no more than their shapes.          *)

Tables ==
    /\ record \in [Records -> RecordType \cup {NoRecord}]
    /\ zone \in [Zones -> BOOLEAN]
    /\ scope \in [range : SUBSET Addresses, on : BOOLEAN]

\* The inductive invariant: PoolsAreFree is inductive once the tables have
\* their shapes.
PoolInv == Tables /\ PoolsAreFree

\* A fresh network has no scope.
LEMMA InitPoolInv == Init => PoolInv
BY DEF Init, PoolInv, Tables, PoolsAreFree, Pool, RecordType, NoRecord

\* Nothing that leaves the records, the zones, the scope and the gateway alone
\* can put an address into a pool.
LEMMA ConfigUnchanged ==
  ASSUME PoolInv, UNCHANGED <<record, zone, scope, gateway>>
  PROVE  PoolInv'
BY DEF PoolInv, Tables, PoolsAreFree, Pool, Served, Named, Dns

\* A change to the records and zones is safe when every record served after it
\* was served at its address before, or has been checked against the scope.
LEMMA DnsChanged ==
  ASSUME PoolInv, Tables', UNCHANGED <<scope, gateway>>,
         \A a \in Addresses : \A r \in Served(Dns', a) :
            r \in Served(Dns, a) \/ a \notin Pool(scope)
  PROVE  PoolInv'
<1>1. \A a \in Pool(scope) : a \in Addresses
  BY DEF PoolInv, Tables, Pool
<1>2. SUFFICES ASSUME NEW a \in Pool(scope)
               PROVE  Served(Dns', a) = {} /\ a # gateway
  BY DEF PoolInv, PoolsAreFree, Pool, Dns, Served, Named
<1>3. Served(Dns, a) = {} /\ a # gateway
  BY DEF PoolInv, PoolsAreFree
<1>4. QED
  BY <1>1, <1>3

-----------------------------------------------------------------------------
(* The DNS routes.                                                         *)

\* A record the route has written is of the table's kind.
LEMMA RecordWritten ==
  ASSUME Tables, NEW r \in Records, NEW x \in RecordType \cup {NoRecord},
         record' = [record EXCEPT ![r] = x], UNCHANGED <<zone, scope>>
  PROVE  Tables'
BY DEF Tables

\* A new record is served only where allocateStaticDns found no scope.
LEMMA CreateRecordSafe ==
  ASSUME PoolInv, NEW r \in Records, NEW z \in Zones, NEW a \in Addresses,
         NEW n \in Names, NEW on \in BOOLEAN, CreateRecord(r, z, n, a, on)
  PROVE  PoolInv'
<1> DEFINE x == [zone |-> z, name |-> n, ip |-> a, on |-> on]
           d == [Dns EXCEPT !.record[r] = x]
<1>1. /\ record' = [record EXCEPT ![r] = x] /\ UNCHANGED <<zone, scope, gateway>>
      /\ r \in Served(d, a) => MayAllocateStaticDns(a, row[a])
  BY DEF CreateRecord, Dns
<1>2. x \in RecordType
  BY DEF RecordType
<1>3. Tables'
  BY <1>1, <1>2, RecordWritten DEF PoolInv
<1>4. d = Dns'
  BY <1>1 DEF Dns
<1>5. ASSUME NEW b \in Addresses, NEW q \in Served(Dns', b)
      PROVE  q \in Served(Dns, b) \/ b \notin Pool(scope)
  <2>1. CASE q = r
    <3>1. b = a
      BY <2>1, <1>1, <1>5 DEF Served, Named, Dns, PoolInv, Tables
    <3>2. QED
      BY <2>1, <3>1, <1>1, <1>4, <1>5 DEF MayAllocateStaticDns
  <2>2. CASE q # r
    BY <2>2, <1>1, <1>5 DEF Served, Named, Dns, PoolInv, Tables
  <2>3. QED
    BY <2>1, <2>2
<1>6. QED
  BY <1>1, <1>3, <1>5, DnsChanged

\* An updated record is served at its address only where allocateStaticDns
\* found no scope.
LEMMA UpdateRecordSafe ==
  ASSUME PoolInv, NEW r \in Records, NEW n \in Names, NEW a \in Addresses,
         NEW on \in BOOLEAN, UpdateRecord(r, n, a, on)
  PROVE  PoolInv'
<1> DEFINE x == [record[r] EXCEPT !.name = n, !.ip = a, !.on = on]
           d == [Dns EXCEPT !.record[r] = [@ EXCEPT !.name = n, !.ip = a, !.on = on]]
<1>1. /\ record[r] # NoRecord
      /\ record' = d.record /\ UNCHANGED <<zone, scope, gateway>>
      /\ r \in Served(d, a) => a \notin Pool(scope)
  BY DEF UpdateRecord, MayAllocateStaticDns
<1>2. record[r] \in RecordType
  BY <1>1 DEF PoolInv, Tables
<1>3. x \in RecordType /\ x.ip = a
  BY <1>2 DEF RecordType
<1>4. record' = [record EXCEPT ![r] = x]
  BY <1>1 DEF Dns
<1> HIDE DEF x
<1>5. Tables'
  BY <1>1, <1>3, <1>4, RecordWritten DEF PoolInv
<1>6. d = Dns'
  BY <1>1 DEF Dns
<1>7. ASSUME NEW b \in Addresses, NEW q \in Served(Dns', b)
      PROVE  q \in Served(Dns, b) \/ b \notin Pool(scope)
  <2>1. CASE q = r
    <3>1. b = a
      BY <2>1, <1>3, <1>4, <1>7 DEF Served, Named, Dns, PoolInv, Tables
    <3>2. QED
      BY <2>1, <3>1, <1>1, <1>6, <1>7
  <2>2. CASE q # r
    BY <2>2, <1>1, <1>4, <1>7 DEF Served, Named, Dns, PoolInv, Tables
  <2>3. QED
    BY <2>1, <2>2
<1>8. QED
  BY <1>1, <1>5, <1>7, DnsChanged

\* A deleted record is served nowhere.
LEMMA DeleteRecordSafe ==
  ASSUME PoolInv, NEW r \in Records, DeleteRecord(r)
  PROVE  PoolInv'
<1>1. record' = [record EXCEPT ![r] = NoRecord] /\ UNCHANGED <<zone, scope, gateway>>
  BY DEF DeleteRecord, Dns
<1>2. Tables'
  BY <1>1, RecordWritten DEF PoolInv
<1>3. ASSUME NEW b \in Addresses, NEW q \in Served(Dns', b)
      PROVE  q \in Served(Dns, b)
  BY <1>1, <1>3 DEF Served, Named, Dns, PoolInv, Tables
<1>4. QED
  BY <1>1, <1>2, <1>3, DnsChanged

\* A zone that is enabled brings its enabled records into service, each only
\* where allocateStaticDns found no scope.
LEMMA UpdateZoneSafe ==
  ASSUME PoolInv, NEW z \in Zones, NEW on \in BOOLEAN, UpdateZone(z, on)
  PROVE  PoolInv'
<1>1. /\ zone' = [zone EXCEPT ![z] = on] /\ UNCHANGED <<record, scope, gateway>>
      /\ \A a \in Addresses :
            ReconcileStaticDnsZone([Dns EXCEPT !.zone[z] = on], z, on, a).may
  BY DEF UpdateZone, Dns
<1>2. Tables'
  BY <1>1 DEF PoolInv, Tables
<1>3. ASSUME NEW b \in Addresses, NEW q \in Served(Dns', b)
      PROVE  q \in Served(Dns, b) \/ b \notin Pool(scope)
  <2>1. q \in Named(Dns, b) /\ record[q].on /\ zone'[record[q].zone]
    BY <1>1, <1>3 DEF Served, Named, Dns
  <2>2. CASE record[q].zone = z
    <3>1. on
      BY <2>1, <2>2, <1>1 DEF PoolInv, Tables
    <3>2. {r \in {r \in Named(Dns, b) : record[r].zone = z} : record[r].on} # {}
      BY <2>1, <2>2
    <3>3. QED
      BY <1>1, <3>1, <3>2 DEF ReconcileStaticDnsZone, MayAllocateStaticDns
  <2>3. CASE record[q].zone # z
    <3>1. zone[record[q].zone]
      BY <2>1, <2>3, <1>1 DEF PoolInv, Tables, Named, Dns, RecordType
    <3>2. QED
      BY <2>1, <3>1 DEF Served, Dns
  <2>4. QED
    BY <2>2, <2>3
<1>4. QED
  BY <1>1, <1>2, <1>3, DnsChanged

\* A deleted zone takes its records with it.
LEMMA DeleteZoneSafe ==
  ASSUME PoolInv, NEW z \in Zones, DeleteZone(z)
  PROVE  PoolInv'
<1>1. /\ record' = [r \in Records |-> IF record[r].zone = z THEN NoRecord ELSE record[r]]
      /\ zone' = [zone EXCEPT ![z] = TRUE] /\ UNCHANGED <<scope, gateway>>
  BY DEF DeleteZone
<1>2. Tables'
  BY <1>1 DEF PoolInv, Tables
<1>3. ASSUME NEW b \in Addresses, NEW q \in Served(Dns', b)
      PROVE  q \in Served(Dns, b)
  <2>1. q \in Records /\ record[q].zone # z /\ record'[q] = record[q]
    BY <1>1, <1>3 DEF Served, Named, Dns
  <2>2. record[q] \in RecordType
    BY <2>1, <1>3 DEF Served, Named, Dns, PoolInv, Tables
  <2>3. zone'[record[q].zone] = zone[record[q].zone]
    BY <2>1, <2>2, <1>1 DEF PoolInv, Tables, RecordType
  <2>4. QED
    BY <2>1, <2>3, <1>3 DEF Served, Named, Dns
<1>4. QED
  BY <1>1, <1>2, <1>3, DnsChanged

-----------------------------------------------------------------------------
(* The scope and the gateway.                                              *)

\* A scope is enabled only over a range without the gateway and without
\* served records.
LEMMA SaveScopeSafe ==
  ASSUME PoolInv, NEW range \in SUBSET Addresses, NEW on \in BOOLEAN,
         SaveScope(range, on)
  PROVE  PoolInv'
<1>1. /\ scope' = [range |-> range, on |-> on] /\ UNCHANGED <<record, zone, gateway>>
      /\ on => ~DynamicPoolConflict(range)
  BY DEF SaveScope
<1>2. Tables'
  BY <1>1 DEF PoolInv, Tables
<1>3. CASE on
  <2>1. Pool(scope') = range
    BY <1>1, <1>3 DEF Pool
  <2>2. \A a \in range : Served(Dns, a) = {} /\ a # gateway
    BY <1>1, <1>3 DEF DynamicPoolConflict
  <2>3. \A a \in range : Served(Dns', a) = {} /\ a # gateway'
    BY <2>2, <1>1 DEF Served, Named, Dns
  <2>4. QED
    BY <2>1, <2>3, <1>2 DEF PoolInv, PoolsAreFree, Pool, Served, Named, Dns
<1>4. CASE ~on
  <2>1. Pool(scope') = {}
    BY <1>1, <1>4 DEF Pool
  <2>2. QED
    BY <2>1, <1>2 DEF PoolInv, PoolsAreFree, Pool
<1>5. QED
  BY <1>3, <1>4

\* Without a scope there is no pool.
LEMMA DeleteScopeSafe ==
  ASSUME PoolInv, DeleteScope
  PROVE  PoolInv'
BY DEF DeleteScope, PoolInv, Tables, PoolsAreFree, Pool

\* The gateway moves only outside the range of the scope.
LEMMA UpdateGatewaySafe ==
  ASSUME PoolInv, NEW g \in Addresses \cup {None}, UpdateGateway(g)
  PROVE  PoolInv'
<1>1. gateway' = g /\ g \notin scope.range /\ UNCHANGED <<record, zone, scope>>
  BY DEF UpdateGateway, InsideDhcpPool
<1>2. \A a \in Pool(scope) : a # g
  BY <1>1 DEF Pool
<1>3. QED
  BY <1>1, <1>2 DEF PoolInv, Tables, PoolsAreFree, Pool, Served, Named, Dns

-----------------------------------------------------------------------------

\* Every step keeps the invariant; most leave the configuration alone.
LEMMA NextPoolInv == PoolInv /\ [Next]_vars => PoolInv'
<1> SUFFICES ASSUME PoolInv, [Next]_vars PROVE PoolInv'
  OBVIOUS
<1> USE DEF facts
<1>1. ASSUME NEW r \in Records, NEW z \in Zones, NEW n \in Names, NEW a \in Addresses,
             NEW on \in BOOLEAN, CreateRecord(r, z, n, a, on)
      PROVE  PoolInv'
  BY <1>1, CreateRecordSafe
<1>2. ASSUME NEW r \in Records, NEW n \in Names, NEW a \in Addresses, NEW on \in BOOLEAN,
             UpdateRecord(r, n, a, on)
      PROVE  PoolInv'
  BY <1>2, UpdateRecordSafe
<1>3. ASSUME NEW r \in Records, DeleteRecord(r) PROVE PoolInv'
  BY <1>3, DeleteRecordSafe
<1>4. ASSUME NEW z \in Zones, NEW on \in BOOLEAN, UpdateZone(z, on) PROVE PoolInv'
  BY <1>4, UpdateZoneSafe
<1>5. ASSUME NEW z \in Zones, DeleteZone(z) PROVE PoolInv'
  BY <1>5, DeleteZoneSafe
<1>6. ASSUME NEW range \in SUBSET Addresses, NEW on \in BOOLEAN, SaveScope(range, on)
      PROVE  PoolInv'
  BY <1>6, SaveScopeSafe
<1>7. CASE DeleteScope
  BY <1>7, DeleteScopeSafe
<1>8. ASSUME NEW c \in Clients, NEW a \in Addresses, CreateReservation(c, a)
      PROVE  PoolInv'
  BY <1>8, ConfigUnchanged DEF CreateReservation
<1>9. ASSUME NEW c \in Clients, NEW a \in Addresses, NEW on \in BOOLEAN,
             NEW given \in BOOLEAN, UpdateReservation(c, a, on, given)
      PROVE  PoolInv'
  BY <1>9, ConfigUnchanged DEF UpdateReservation
<1>10. CASE DeleteReservation
  BY <1>10, ConfigUnchanged DEF DeleteReservation
<1>11. ASSUME NEW read \in [Addresses -> Clients \cup {None}], NEW moved \in SUBSET Addresses,
              IngestLeases(read, moved)
       PROVE  PoolInv'
  BY <1>11, ConfigUnchanged DEF IngestLeases
<1>12. ASSUME NEW a \in Addresses,
              ExpireLease(a) \/ ReserveAddress(a) \/ ReleaseAddress(a) \/ Observe(a)
       PROVE  PoolInv'
  BY <1>12, ConfigUnchanged DEF ExpireLease, ReserveAddress, ReleaseAddress, Observe
<1>13. ASSUME NEW g \in Addresses \cup {None}, UpdateGateway(g) PROVE PoolInv'
  BY <1>13, UpdateGatewaySafe
<1>14. ASSUME NEW s \in SUBSET Addresses, BeginSweep(s) \/ FinishSweep(s)
       PROVE  PoolInv'
  BY <1>14, ConfigUnchanged DEF BeginSweep, FinishSweep
<1>15. CASE Restart
  BY <1>15, ConfigUnchanged DEF Restart
<1>16. CASE UNCHANGED vars
  BY <1>16, ConfigUnchanged DEF vars
<1>17. QED
  BY <1>1, <1>2, <1>3, <1>4, <1>5, <1>6, <1>7, <1>8, <1>9, <1>10, <1>11, <1>12,
     <1>13, <1>14, <1>15, <1>16 DEF Next

\* No enabled DHCP pool ever covers a served record's address or the gateway,
\* in whatever order records, zones, scopes and gateways are configured: the
\* checks of routes/dns.js, routes/dhcp.js and the topology service close
\* every order.
THEOREM PoolsStayFree == Spec => []PoolsAreFree
<1>1. PoolInv => PoolsAreFree
  BY DEF PoolInv
<1>2. QED
  BY InitPoolInv, NextPoolInv, <1>1, PTL DEF Spec

-----------------------------------------------------------------------------
(* Rows and facts: bounds of a set of records                              *)

\* Every nonempty set of naturals has a least element.
LEMMA NatMin ==
    ASSUME NEW S, S \subseteq Nat, S # {}
    PROVE  \E m \in S : \A n \in S : m <= n
<1> DEFINE R == OpToRel(<, Nat)
<1>1. \A x, y \in S : x < y => <<x, y>> \in R
  BY DEF OpToRel
<1> HIDE DEF R
<1>2. IsWellFoundedOn(R, Nat)
  BY NatLessThanWellFounded DEF R
<1>3. PICK m \in S : \A y \in S : ~ (<<y, m>> \in R)
  BY <1>2, WFMin
<1>4. \A n \in S : ~(n < m)
  BY <1>1, <1>3
<1>5. QED
  BY <1>4

\* Lowest picks a least record of a set that has one.
LEMMA LowestIn ==
    ASSUME NEW rs, rs \subseteq Records, rs # {}
    PROVE  Lowest(rs) \in rs /\ \A q \in rs : Lowest(rs) <= q
<1>1. rs \subseteq Nat
  BY LifecycleAssumption DEF Records
<1>2. \E r \in rs : \A q \in rs : r <= q
  BY <1>1, NatMin
<1>3. QED
  BY <1>2 DEF Lowest

\* Highest picks a record of the set: an upper bound, as records are bounded.
LEMMA HighestIn ==
    ASSUME NEW rs, rs \subseteq Records, rs # {}
    PROVE  Highest(rs) \in rs
<1> DEFINE S == {NumRecords - r : r \in rs}
<1>1. rs \subseteq 1..NumRecords /\ NumRecords \in Nat
  BY LifecycleAssumption DEF Records
<1>2. S \subseteq Nat /\ S # {}
  <2>1. \A r \in rs : NumRecords - r \in Nat
    BY <1>1
  <2>2. QED
    BY <2>1
<1>3. PICK m \in S : \A n \in S : m <= n
  BY <1>2, NatMin
<1>4. PICK r \in rs : m = NumRecords - r
  BY <1>3
<1>5. \A q \in rs : q <= r
  <2> TAKE q \in rs
  <2>1. NumRecords - r <= NumRecords - q
    BY <1>3, <1>4
  <2>2. QED
    BY <1>1, <2>1
<1>6. QED
  BY <1>5 DEF Highest

-----------------------------------------------------------------------------
(* The invariant, one address at a time *)

\* What a row that is no DNS hold claims is there.
Grounded(d, v, g, a, w) ==
    /\ w \in RowType
    /\ w.state = "static_dns" => w.id \in Served(d, a)
    /\ w.state = "static_dhcp" => Reserved(v, a)
    /\ w.state = "gateway" => a = g
    /\ w.state = "gateway" <=> w.source = "topology"
    /\ w.source = "admin_reservation" => w.state = "reserved"

\* ... and a DNS hold names an unserved record of the address.
RowOK(d, v, g, a, w) ==
    /\ Grounded(d, v, g, a, w)
    /\ IsDnsHold(w) => w.id \in Unserved(d, a)

\* A DHCP Reservation and the gateway have the row of their address.
FactOK(v, g, a, w) ==
    /\ Reserved(v, a) => w.state = "static_dhcp"
    /\ a = g => w.state = "gateway"

\* The inductive invariant behind RowHasItsFact.
RowInv ==
    /\ TypeOK
    /\ \A a \in Addresses : RowOK(Dns, reservation, gateway, a, row[a])

-----------------------------------------------------------------------------
(* The lifecycle service's operators *)

\* setCanonicalAllocation writes the three columns and keeps detection_source.
LEMMA AllocatedFacts ==
    ASSUME NEW w \in RowType, NEW s \in States, NEW src \in Sources, NEW i \in 0..NumRecords
    PROVE  /\ Allocated(w, s, src, i) \in RowType
           /\ Allocated(w, s, src, i).state = s /\ Allocated(w, s, src, i).source = src
           /\ Allocated(w, s, src, i).id = i /\ Allocated(w, s, src, i).det = w.det
BY DEF Allocated, RowType

\* A write of detection_source alone.
LEMMA DetFacts ==
    ASSUME NEW w \in RowType, NEW x \in Detections
    PROVE  LET y == [w EXCEPT !.det = x]
           IN  /\ y \in RowType /\ y.state = w.state /\ y.source = w.source /\ y.id = w.id
               /\ y.det = x
BY DEF RowType

\* What the row of an unknown address is.
LEMMA NoRowFacts ==
    /\ NoRow \in RowType /\ NoRow.state = "unassigned" /\ NoRow.source = "none"
    /\ NoRow.det = "none"
<1>1. 0 \in 0..NumRecords
  BY LifecycleAssumption
<1>2. QED
  BY <1>1 DEF NoRow, RowType, States, Sources, Detections

\* A freed row has no owner.
LEMMA FreedFacts ==
    ASSUME NEW w \in RowType
    PROVE  /\ Freed(w) \in RowType /\ Freed(w).state = "unassigned" /\ Freed(w).source = "none"
<1>1. 0 \in 0..NumRecords /\ "unassigned" \in States /\ "none" \in Sources
  BY LifecycleAssumption DEF States, Sources
<1>2. QED
  BY <1>1, AllocatedFacts DEF Freed

\* Records that hold an address are records of it that are not served.
LEMMA HeldFacts ==
    ASSUME NEW w \in RowType, NEW d, NEW a, Holders(d, a) # {}
    PROVE  LET h == Held(w, Holders(d, a))
           IN  /\ h \in RowType /\ h.state = "reserved" /\ h.source = "dns"
               /\ h.id \in Unserved(d, a) /\ h.id = Lowest(Holders(d, a))
<1>1. Holders(d, a) \subseteq Unserved(d, a) /\ Unserved(d, a) \subseteq Records
  BY DEF Holders, Unserved, Named
<1>2. Lowest(Holders(d, a)) \in Unserved(d, a)
  BY <1>1, LowestIn
<1>3. Lowest(Holders(d, a)) \in 0..NumRecords
  BY <1>1, <1>2, LifecycleAssumption DEF Records
<1>4. "reserved" \in States /\ "dns" \in Sources
  BY DEF States, Sources
<1>5. QED
  BY <1>2, <1>3, <1>4, AllocatedFacts DEF Held

\* The gateway's row.
LEMMA ProtectedFacts ==
    ASSUME NEW w \in RowType
    PROVE  Protected(w) \in RowType /\ Protected(w).state = "gateway" /\ Protected(w).source = "topology"
<1> DEFINE y == Allocated(w, "gateway", "topology", 0)
<1>1. 0 \in 0..NumRecords /\ "gateway" \in States /\ "topology" \in Sources /\ "none" \in Detections
  BY LifecycleAssumption DEF States, Sources, Detections
<1>2. y \in RowType /\ y.state = "gateway" /\ y.source = "topology"
  BY <1>1, AllocatedFacts
<1>3. Protected(w) = [y EXCEPT !.det = "none"]
  BY DEF Protected
<1> HIDE DEF y
<1>4. QED
  BY <1>1, <1>2, <1>3, DetFacts

\* allocateStaticDns makes the gateway's row or the record's.
LEMMA AllocateStaticDnsFacts ==
    ASSUME NEW w \in RowType, NEW d, NEW a, NEW r \in Records
    PROVE  LET y == AllocateStaticDns(a, w, r)
           IN  /\ y \in RowType
               /\ a = gateway => y.state = "gateway" /\ y.source = "topology"
               /\ a # gateway => y.state = "static_dns" /\ y.source = "dns" /\ y.id = r
<1>1. CASE a = gateway
  BY <1>1, ProtectedFacts DEF AllocateStaticDns
<1>2. CASE a # gateway
  <2> DEFINE x == Allocated(w, "static_dns", "dns", r)
  <2>1. r \in 0..NumRecords /\ "static_dns" \in States /\ "dns" \in Sources /\ "none" \in Detections
    BY LifecycleAssumption DEF Records, States, Sources, Detections
  <2>2. x \in RowType /\ x.state = "static_dns" /\ x.source = "dns" /\ x.id = r
    BY <2>1, AllocatedFacts
  <2>3. AllocateStaticDns(a, w, r) = [x EXCEPT !.det = "none"]
    BY <1>2 DEF AllocateStaticDns
  <2> HIDE DEF x
  <2>4. QED
    BY <1>2, <2>1, <2>2, <2>3, DetFacts
<1>3. QED
  BY <1>1, <1>2

\* allocateStaticDns for a served record leaves a grounded row.
LEMMA AllocateStaticDnsGrounded ==
    ASSUME NEW w \in RowType, NEW d, NEW v, NEW a, NEW r \in Served(d, a)
    PROVE  /\ Grounded(d, v, gateway, a, AllocateStaticDns(a, w, r))
           /\ AllocateStaticDns(a, w, r).state \in {"static_dns", "gateway"}
           /\ a = gateway => AllocateStaticDns(a, w, r).state = "gateway"
           /\ a # gateway => AllocateStaticDns(a, w, r).state = "static_dns"
<1>1. r \in Records
  BY DEF Served, Named
<1>2. QED
  BY <1>1, AllocateStaticDnsFacts DEF Grounded

\* deallocateStaticDns leaves the gateway's row alone and any other held or free.
LEMMA DeallocateStaticDnsGrounded ==
    ASSUME NEW d, NEW v, NEW a, NEW w \in RowType,
           w.state = "gateway" => a = gateway /\ w.source = "topology"
    PROVE  LET y == DeallocateStaticDns(d, a, w)
           IN  /\ RowOK(d, v, gateway, a, y)
               /\ w.state = "gateway" => y = w
               /\ w.state # "gateway" => y.state \in {"reserved", "unassigned"}
<1> DEFINE c == [w EXCEPT !.det = IF w.state = "static_dns" THEN "none" ELSE @]
<1>1. c \in RowType
  BY DEF RowType, Detections
<1>2. CASE w.state = "gateway"
  <2>1. DeallocateStaticDns(d, a, w) = w
    BY <1>2 DEF DeallocateStaticDns
  <2>2. QED
    BY <1>2, <2>1 DEF RowOK, Grounded, IsDnsHold
<1>3. CASE w.state # "gateway" /\ Holders(d, a) # {}
  <2>1. DeallocateStaticDns(d, a, w) = Held(c, Holders(d, a))
    BY <1>3 DEF DeallocateStaticDns
  <2> HIDE DEF c
  <2>2. QED
    BY <1>1, <1>3, <2>1, HeldFacts DEF RowOK, Grounded, IsDnsHold
<1>4. CASE w.state # "gateway" /\ Holders(d, a) = {}
  <2>1. DeallocateStaticDns(d, a, w) = Freed(c)
    BY <1>4 DEF DeallocateStaticDns
  <2> HIDE DEF c
  <2>2. QED
    BY <1>1, <1>4, <2>1, FreedFacts DEF RowOK, Grounded, IsDnsHold
<1>5. QED
  BY <1>2, <1>3, <1>4

\* reconcileDnsHold touches only free rows and DNS holds.
LEMMA ReconcileDnsHoldFacts ==
    ASSUME NEW d, NEW a, NEW w \in RowType
    PROVE  LET y == ReconcileDnsHold(d, a, w)
           IN  /\ w.state # "unassigned" /\ ~IsDnsHold(w) => y = w
               /\ w.state = "unassigned" \/ IsDnsHold(w) =>
                    /\ y \in RowType
                    /\ Holders(d, a) # {} => /\ y.state = "reserved" /\ y.source = "dns"
                                             /\ y.id \in Unserved(d, a)
                                             /\ y.id = Lowest(Holders(d, a))
                    /\ Holders(d, a) = {} => /\ y.state = "unassigned"
                                             /\ w.state = "unassigned" => y = w
                                             /\ w.state # "unassigned" => y.source = "none"
<1>1. CASE w.state # "unassigned" /\ ~IsDnsHold(w)
  BY <1>1 DEF ReconcileDnsHold
<1>2. CASE (w.state = "unassigned" \/ IsDnsHold(w)) /\ Holders(d, a) # {}
  <2>1. ReconcileDnsHold(d, a, w) = Held(w, Holders(d, a))
    BY <1>2 DEF ReconcileDnsHold
  <2>2. QED
    BY <1>2, <2>1, HeldFacts
<1>3. CASE IsDnsHold(w) /\ Holders(d, a) = {}
  <2>1. ReconcileDnsHold(d, a, w) = Freed(w)
    BY <1>3 DEF ReconcileDnsHold
  <2>2. QED
    BY <1>3, <2>1, FreedFacts DEF IsDnsHold
<1>4. CASE w.state = "unassigned" /\ ~IsDnsHold(w) /\ Holders(d, a) = {}
  BY <1>4 DEF ReconcileDnsHold
<1>5. QED
  BY <1>1, <1>2, <1>3, <1>4

\* After reconcileDnsHold a hold, too, names an unserved record.
LEMMA ReconciledRow ==
    ASSUME NEW d, NEW v, NEW g, NEW a, NEW w, Grounded(d, v, g, a, w)
    PROVE  /\ RowOK(d, v, g, a, ReconcileDnsHold(d, a, w))
           /\ FactOK(v, g, a, w) => FactOK(v, g, a, ReconcileDnsHold(d, a, w))
<1> DEFINE y == ReconcileDnsHold(d, a, w)
<1>1. w \in RowType
  BY DEF Grounded
<1>2. CASE w.state # "unassigned" /\ ~IsDnsHold(w)
  <2>1. y = w
    BY <1>1, <1>2, ReconcileDnsHoldFacts
  <2>2. QED
    BY <1>2, <2>1 DEF RowOK
<1>3. CASE w.state = "unassigned" \/ IsDnsHold(w)
  <2>1. /\ y \in RowType /\ y.state \in {"reserved", "unassigned"}
        /\ y.state = "reserved" => y.source = "dns" /\ y.id \in Unserved(d, a)
        /\ y.state = "unassigned" => (w.state = "unassigned" /\ y = w) \/ y.source = "none"
    BY <1>1, <1>3, ReconcileDnsHoldFacts
  <2> HIDE DEF y
  <2>2. RowOK(d, v, g, a, y)
    BY <2>1 DEF RowOK, Grounded, IsDnsHold
  <2>3. FactOK(v, g, a, w) => FactOK(v, g, a, y)
    BY <1>3 DEF FactOK, IsDnsHold
  <2>4. QED
    BY <2>2, <2>3 DEF y
<1>4. QED
  BY <1>2, <1>3

\* A sweep that does not yield finds its candidates' rows as it read them.
SweepInv ==
    /\ ~awaiting
    /\ \A a \in Addresses : sweep[a] # "none" =>
         sweep[a] \in {"dynamic_dhcp", "unassigned"} /\ row[a].state = sweep[a]

\* The inductive invariant behind ConfigHasItsRow and ClaimsEndWithTheirOwner.
FactInv ==
    /\ RowInv
    /\ ConfigHasItsRow
    /\ SweepInv

\* A step's effect on an administrator's reservation of an address no served
\* record names.
Kept(a) ==
    row[a].source = "admin_reservation" /\ Served(Dns, a) = {} =>
        \/ row'[a].source = "admin_reservation"
        \/ row'[a].state \in {"static_dhcp", "static_dns"}

\* A step's effect on the row of an address's only served record.
Stays(a) ==
    row[a].state = "static_dns" /\ (\A p, q \in Served(Dns, a) : p = q)
      /\ Served(Dns', a) # {} => row'[a].state \in {"static_dns", "gateway"}

Ends(a) == Kept(a) /\ Stays(a)

\* What a step has to show.
KeepsFacts ==
    FactInv => ConfigHasItsRow' /\ \A a \in Addresses : Ends(a)

\* RowInv after a step, from the rows it leaves.
LEMMA RowInvAfter ==
    ASSUME TypeOK', \A a \in Addresses : RowOK(Dns', reservation', gateway', a, row'[a])
    PROVE  RowInv'
BY DEF RowInv, RowOK, Grounded, IsDnsHold, Served, Unserved, Named, Reserved, Dns

\* ConfigHasItsRow after a step, from the rows it leaves.
LEMMA FactsAfter ==
    ASSUME \A a \in Addresses : FactOK(reservation', gateway', a, row'[a])
    PROVE  ConfigHasItsRow'
BY DEF ConfigHasItsRow, FactOK, Reserved

\* FactInv gives the facts of every address.
LEMMA FactsNow ==
    ASSUME FactInv
    PROVE  \A a \in Addresses : FactOK(reservation, gateway, a, row[a])
BY DEF FactInv, ConfigHasItsRow, FactOK

\* Rows are as good as the records they name.
LEMMA SameRecords ==
    ASSUME NEW d, NEW e, NEW v, NEW g, NEW a, NEW w,
           Served(d, a) = Served(e, a), Unserved(d, a) = Unserved(e, a)
    PROVE  RowOK(d, v, g, a, w) => RowOK(e, v, g, a, w)
BY DEF RowOK, Grounded

\* A write to record r changes what is said of r only.
LEMMA OneRecord ==
    ASSUME TypeOK, NEW r \in Records, NEW x, UNCHANGED zone, record' = [record EXCEPT ![r] = x]
    PROVE  /\ \A b : \A q \in Records \ {r} :
                /\ q \in Named(Dns', b) <=> q \in Named(Dns, b)
                /\ q \in Served(Dns', b) <=> q \in Served(Dns, b)
           /\ \A b : r \in Named(Dns', b) <=> x # NoRecord /\ x.ip = b
           /\ \A b : r \in Named(Dns, b) <=> record[r] # NoRecord /\ record[r].ip = b
           /\ \A b : /\ Served(Dns, b) \subseteq Named(Dns, b) /\ Served(Dns', b) \subseteq Named(Dns', b)
                     /\ Named(Dns, b) \subseteq Records /\ Named(Dns', b) \subseteq Records
BY DEF TypeOK, Named, Served, Dns

\* A write to one record keeps the tables' types.
LEMMA RecordTyped ==
    ASSUME TypeOK, NEW r \in Records, NEW x \in RecordType \cup {NoRecord},
           record' = [record EXCEPT ![r] = x], row' \in [Addresses -> RowType],
           UNCHANGED <<zone, scope, gateway, reservation, lease, sweep, awaiting>>
    PROVE  TypeOK'
BY DEF TypeOK

\* POST of a record: served, it takes the address it was checked for; not
\* served, it may hold it.
LEMMA CreateRecordKeeps ==
    ASSUME RowInv, NEW r \in Records, NEW z \in Zones, NEW a \in Addresses,
           NEW n \in Names, NEW on \in BOOLEAN, CreateRecord(r, z, n, a, on)
    PROVE  RowInv' /\ KeepsFacts
<1> DEFINE x == [zone |-> z, name |-> n, ip |-> a, on |-> on]
           d == [Dns EXCEPT !.record[r] = x]
           y == IF r \in Served(d, a) THEN AllocateStaticDns(a, row[a], r)
                                      ELSE ReconcileDnsHold(d, a, row[a])
<1>1. /\ TypeOK
      /\ \A b \in Addresses : RowOK(Dns, reservation, gateway, b, row[b]) /\ row[b] \in RowType
  BY DEF RowInv, RowOK, Grounded
<1>2. /\ record' = [record EXCEPT ![r] = x]
      /\ UNCHANGED <<zone, scope, gateway, reservation, lease, sweep, awaiting>>
      /\ record[r] = NoRecord
      /\ r \in Served(d, a) => MayAllocateStaticDns(a, row[a])
      /\ row' = [row EXCEPT ![a] = y]
  BY DEF CreateRecord, FreeRecord, Dns
<1>3. x \in RecordType /\ x.ip = a
  BY DEF RecordType
<1>4. d = Dns'
  BY <1>2 DEF Dns
<1>5. x # NoRecord
  BY LifecycleAssumption, <1>3 DEF NoRecord
<1> HIDE DEF x, d
<1>6. /\ \A b : \A q \in Records \ {r} :
                /\ q \in Named(d, b) <=> q \in Named(Dns, b)
                /\ q \in Served(d, b) <=> q \in Served(Dns, b)
      /\ \A b : r \in Named(d, b) <=> a = b
      /\ \A b : r \notin Named(Dns, b)
      /\ \A b : /\ Served(Dns, b) \subseteq Named(Dns, b) /\ Served(d, b) \subseteq Named(d, b)
                /\ Named(Dns, b) \subseteq Records /\ Named(d, b) \subseteq Records
  <2>1. TypeOK /\ record' = [record EXCEPT ![r] = x] /\ UNCHANGED zone /\ record[r] = NoRecord
    BY <1>1, <1>2
  <2> HIDE DEF y
  <2>2. /\ \A b : \A q \in Records \ {r} :
                /\ q \in Named(Dns', b) <=> q \in Named(Dns, b)
                /\ q \in Served(Dns', b) <=> q \in Served(Dns, b)
        /\ \A b : r \in Named(Dns', b) <=> x # NoRecord /\ x.ip = b
        /\ \A b : r \in Named(Dns, b) <=> record[r] # NoRecord /\ record[r].ip = b
        /\ \A b : /\ Served(Dns, b) \subseteq Named(Dns, b)
                  /\ Served(Dns', b) \subseteq Named(Dns', b)
                  /\ Named(Dns, b) \subseteq Records /\ Named(Dns', b) \subseteq Records
    BY <2>1, OneRecord
  <2>3. QED
    BY <1>3, <1>4, <1>5, <2>1, <2>2
<1>7. \A b : b # a => Served(d, b) = Served(Dns, b) /\ Unserved(d, b) = Unserved(Dns, b)
  BY <1>6 DEF Unserved
<1>8. Grounded(d, reservation, gateway, a, row[a])
  BY <1>1, <1>6 DEF RowOK, Grounded
<1>9. RowOK(d, reservation, gateway, a, y) /\ y \in RowType
  <2>1. CASE r \in Served(d, a)
    BY <1>1, <2>1, AllocateStaticDnsGrounded, AllocateStaticDnsFacts DEF RowOK, Grounded, IsDnsHold
  <2>2. CASE r \notin Served(d, a)
    <3>1. RowOK(d, reservation, gateway, a, y)
      BY <1>8, <2>2, ReconciledRow
    <3>2. QED
      BY <3>1 DEF RowOK, Grounded
  <2>3. QED
    BY <2>1, <2>2
<1>10. /\ r \in Served(d, a) =>
           /\ y.state \in {"static_dns", "gateway"}
           /\ a = gateway <=> y.state = "gateway"
           /\ a = gateway => row[a].state \in {"unassigned", "gateway"}
           /\ a # gateway => row[a].state \in {"unassigned", "reserved", "static_dns"}
  <2> SUFFICES ASSUME r \in Served(d, a)
               PROVE  /\ y.state \in {"static_dns", "gateway"}
                      /\ a = gateway <=> y.state = "gateway"
                      /\ a = gateway => row[a].state \in {"unassigned", "gateway"}
                      /\ a # gateway => row[a].state \in {"unassigned", "reserved", "static_dns"}
    OBVIOUS
  <2>1. /\ y.state \in {"static_dns", "gateway"}
        /\ a = gateway <=> y.state = "gateway"
    BY <1>1, AllocateStaticDnsFacts
  <2>2. MayAllocateStaticDns(a, row[a])
    BY <1>2
  <2>3. QED
    BY <2>1, <2>2 DEF MayAllocateStaticDns, AssertAllocationTransition, AllocationTransitions
<1>11. r \notin Served(d, a) => y = ReconcileDnsHold(d, a, row[a])
  OBVIOUS
<1> HIDE DEF y
<1>12. row'[a] = y /\ \A b \in Addresses : b # a => row'[b] = row[b]
  BY <1>1, <1>2 DEF TypeOK
<1>13. row' \in [Addresses -> RowType]
  BY <1>1, <1>2, <1>9 DEF TypeOK
<1>14. TypeOK'
  BY <1>1, <1>2, <1>3, <1>13, RecordTyped
<1>15. ASSUME NEW b \in Addresses
       PROVE  RowOK(d, reservation, gateway, b, row'[b])
  BY <1>1, <1>7, <1>9, <1>12, SameRecords
<1>16. RowInv'
  BY <1>2, <1>4, <1>14, <1>15, RowInvAfter
<1>17. ASSUME FactInv
       PROVE  ConfigHasItsRow' /\ \A b \in Addresses : Ends(b)
  <2>1. \A b \in Addresses : FactOK(reservation, gateway, b, row[b])
    BY <1>17, FactsNow
  <2>2. FactOK(reservation, gateway, a, y) /\ Ends(a)
    <3>1. CASE r \in Served(d, a)
      <4>1. FactOK(reservation, gateway, a, row[a]) /\ RowOK(Dns, reservation, gateway, a, row[a])
        BY <1>1, <2>1
      <4>2. FactOK(reservation, gateway, a, y)
        BY <1>10, <3>1, <4>1 DEF FactOK
      <4>3. Ends(a)
        BY <1>10, <1>12, <3>1, <4>1 DEF Ends, Kept, Stays, RowOK, Grounded
      <4>4. QED
        BY <4>2, <4>3
    <3>2. CASE r \notin Served(d, a)
      <4>1. FactOK(reservation, gateway, a, y)
        BY <1>8, <1>11, <2>1, <3>2, ReconciledRow
      <4>2. row[a].source = "admin_reservation" \/ row[a].state = "static_dns" => y = row[a]
        BY <1>1, <1>11, <3>2, ReconcileDnsHoldFacts DEF RowOK, Grounded, IsDnsHold
      <4>3. QED
        BY <1>12, <4>1, <4>2 DEF Ends, Kept, Stays
    <3>3. QED
      BY <3>1, <3>2
  <2>3. \A b \in Addresses : FactOK(reservation, gateway, b, row'[b])
    BY <1>12, <2>1, <2>2
  <2>4. ConfigHasItsRow'
    BY <1>2, <2>3, FactsAfter
  <2>5. \A b \in Addresses : Ends(b)
    BY <1>12, <2>2 DEF Ends, Kept, Stays
  <2>6. QED
    BY <2>4, <2>5
<1>18. QED
  BY <1>16, <1>17 DEF KeepsFacts

\* A record or zone change at one address takes its row from w to y: if L a claim
\* is left, if T one is taken for record r, and the hold is re-checked.
DnsStep(d, a, w, L, T, r, l, t, y) ==
    /\ l = IF L THEN DeallocateStaticDns(d, a, w) ELSE w
    /\ t = IF T THEN AllocateStaticDns(a, l, r) ELSE l
    /\ y = ReconcileDnsHold(d, a, t)
    /\ T => r \in Served(d, a) /\ MayAllocateStaticDns(a, l)
    /\ L => Served(Dns, a) # {} /\ MayDeallocateStaticDns(d, a, w)
    /\ ~T /\ ~L /\ w.state = "static_dns" => w.id \in Served(d, a)

\* What such a change leaves: a grounded row, the configured claims, an IP
\* Reservation where nothing is served, and a record's claim that is not left.
DnsKeeps(d, a, w, L, T, y) ==
    /\ RowOK(d, reservation, gateway, a, y)
    /\ FactOK(reservation, gateway, a, w) =>
         /\ FactOK(reservation, gateway, a, y)
         /\ w.source = "admin_reservation" /\ Served(Dns, a) = {} =>
              y.source = "admin_reservation" \/ y.state \in {"static_dhcp", "static_dns"}
    /\ w.state = "static_dns" /\ (T \/ ~L) => y.state \in {"static_dns", "gateway"}

\* deallocateStaticDns throws on a DHCP Reservation's row and passes the gateway's
\* by; allocateStaticDns refuses both.
LEMMA DnsRow ==
    ASSUME NEW d, NEW a \in Addresses, NEW w, RowOK(Dns, reservation, gateway, a, w),
           NEW L \in BOOLEAN, NEW T \in BOOLEAN, NEW r, NEW l, NEW t, NEW y,
           DnsStep(d, a, w, L, T, r, l, t, y)
    PROVE  DnsKeeps(d, a, w, L, T, y)
<1>0. /\ l = IF L THEN DeallocateStaticDns(d, a, w) ELSE w
      /\ t = IF T THEN AllocateStaticDns(a, l, r) ELSE l
      /\ y = ReconcileDnsHold(d, a, t)
      /\ T => r \in Served(d, a) /\ MayAllocateStaticDns(a, l)
      /\ L => Served(Dns, a) # {} /\ MayDeallocateStaticDns(d, a, w)
      /\ ~T /\ ~L /\ w.state = "static_dns" => w.id \in Served(d, a)
  BY DEF DnsStep
<1> USE <1>0
<1>1. /\ w \in RowType /\ (w.state = "gateway" => a = gateway /\ w.source = "topology")
      /\ w.source = "admin_reservation" => w.state = "reserved"
      /\ Grounded(Dns, reservation, gateway, a, w)
  BY DEF RowOK, Grounded
<1>2. CASE L
  <2>1. /\ l = DeallocateStaticDns(d, a, w)
        /\ RowOK(d, reservation, gateway, a, l)
        /\ w.state = "gateway" => l = w
    BY <1>1, <1>2, DeallocateStaticDnsGrounded
  <2>2. l \in RowType /\ Grounded(d, reservation, gateway, a, l)
    BY <2>1 DEF RowOK, Grounded
  <2>3. Grounded(d, reservation, gateway, a, t)
    <3>1. CASE T
      BY <2>2, <3>1, AllocateStaticDnsGrounded
    <3>2. CASE ~T
      BY <2>2, <3>2
    <3>3. QED
      BY <3>1, <3>2
  <2>4. RowOK(d, reservation, gateway, a, y)
    BY <2>3, ReconciledRow
  <2>5. T => /\ t.state \in {"static_dns", "gateway"} /\ (a = gateway => t.state = "gateway")
             /\ y = t
    <3> SUFFICES ASSUME T
                 PROVE  /\ t.state \in {"static_dns", "gateway"}
                        /\ a = gateway => t.state = "gateway"
                        /\ y = t
      OBVIOUS
    <3>1. t.state \in {"static_dns", "gateway"} /\ (a = gateway => t.state = "gateway")
      BY <2>2, AllocateStaticDnsGrounded
    <3>2. t \in RowType
      BY <2>3 DEF Grounded
    <3>3. QED
      BY <3>1, <3>2, ReconcileDnsHoldFacts DEF IsDnsHold
  <2>6. ASSUME FactOK(reservation, gateway, a, w)
        PROVE  FactOK(reservation, gateway, a, y)
    <3>1. w.state \in {"unassigned", "reserved", "static_dns", "gateway"}
      BY <1>2 DEF MayDeallocateStaticDns, AssertAllocationTransition, AllocationTransitions
    <3>2. ~Reserved(reservation, a) /\ (a = gateway => w.state = "gateway")
      BY <2>6, <3>1 DEF FactOK
    <3>3. FactOK(reservation, gateway, a, t)
      BY <2>1, <2>5, <3>2 DEF FactOK
    <3>4. QED
      BY <2>3, <3>3, ReconciledRow
  <2>7. QED
    BY <1>2, <2>4, <2>5, <2>6 DEF DnsKeeps
<1>3. CASE ~L
  <2>1. l = w
    BY <1>3
  <2>2. Grounded(d, reservation, gateway, a, t)
    <3>1. CASE T
      BY <1>1, <2>1, <3>1, AllocateStaticDnsGrounded
    <3>2. CASE ~T
      BY <1>1, <1>3, <2>1, <3>2 DEF Grounded
    <3>3. QED
      BY <3>1, <3>2
  <2>3. RowOK(d, reservation, gateway, a, y)
    BY <2>2, ReconciledRow
  <2>4. t \in RowType
    BY <2>2 DEF Grounded
  <2>5. CASE T
    <3>1. /\ t.state \in {"static_dns", "gateway"} /\ (a = gateway => t.state = "gateway")
          /\ a # gateway => t.state = "static_dns"
      BY <1>1, <2>1, <2>5, AllocateStaticDnsGrounded
    <3>2. /\ a = gateway => w.state \in {"unassigned", "gateway"}
          /\ a # gateway => w.state \in {"unassigned", "reserved", "static_dns"}
      BY <2>1, <2>5 DEF MayAllocateStaticDns, AssertAllocationTransition, AllocationTransitions
    <3>3. FactOK(reservation, gateway, a, w) => FactOK(reservation, gateway, a, t)
      BY <3>1, <3>2 DEF FactOK
    <3>4. y = t
      BY <2>4, <3>1, ReconcileDnsHoldFacts DEF IsDnsHold
    <3>5. QED
      BY <1>1, <2>3, <3>1, <3>2, <3>3, <3>4 DEF DnsKeeps
  <2>6. CASE ~T
    <3>1. t = w
      BY <2>1, <2>6
    <3>2. FactOK(reservation, gateway, a, w) => FactOK(reservation, gateway, a, y)
      BY <2>2, <3>1, ReconciledRow
    <3>3. w.source = "admin_reservation" \/ w.state = "static_dns" => y = w
      BY <1>1, <3>1, ReconcileDnsHoldFacts DEF IsDnsHold
    <3>4. QED
      BY <2>3, <3>2, <3>3 DEF DnsKeeps
  <2>7. QED
    BY <2>5, <2>6
<1>4. QED
  BY <1>2, <1>3

\* PUT of a record: the old address is left before the new one is taken.
LEMMA UpdateRecordKeeps ==
    ASSUME RowInv, NEW r \in Records, NEW n \in Names, NEW a \in Addresses,
           NEW on \in BOOLEAN, UpdateRecord(r, n, a, on)
    PROVE  RowInv' /\ KeepsFacts
<1> DEFINE x == [record[r] EXCEPT !.name = n, !.ip = a, !.on = on]
           old == record[r].ip
           d == [Dns EXCEPT !.record[r] = [@ EXCEPT !.name = n, !.ip = a, !.on = on]]
           was == r \in Served(Dns, old)
           is == r \in Served(d, a)
           leaves == was /\ (~is \/ a # old \/ n # record[r].name)
           L(b) == b = old /\ leaves
           T(b) == b = a /\ is
           Left(b, w) == IF b = old /\ leaves THEN DeallocateStaticDns(d, b, w) ELSE w
           Taken(b, w) == IF b = a /\ is THEN AllocateStaticDns(b, w, r) ELSE w
<1>1. /\ TypeOK
      /\ \A b \in Addresses : RowOK(Dns, reservation, gateway, b, row[b]) /\ row[b] \in RowType
  BY DEF RowInv, RowOK, Grounded
<1>2. /\ record' = d.record
      /\ UNCHANGED <<zone, scope, gateway, reservation, lease, sweep, awaiting>>
      /\ record[r] # NoRecord
      /\ leaves => MayDeallocateStaticDns(d, old, row[old])
      /\ is => MayAllocateStaticDns(a, Left(a, row[a]))
      /\ row' = [b \in Addresses |->
                   IF b \in {old, a} THEN ReconcileDnsHold(d, b, Taken(b, Left(b, row[b])))
                                     ELSE row[b]]
  BY DEF UpdateRecord
<1>3. record[r] \in RecordType
  BY <1>1, <1>2 DEF TypeOK
<1>4. x \in RecordType /\ x.ip = a /\ old \in Addresses
  BY <1>3 DEF RecordType
<1>5. record' = [record EXCEPT ![r] = x]
  BY <1>2 DEF Dns
<1>6. d = Dns'
  BY <1>2 DEF Dns
<1>7. x # NoRecord
  BY LifecycleAssumption, <1>4 DEF NoRecord
<1> HIDE DEF x, d
<1>8. /\ \A b : \A q \in Records \ {r} :
                /\ q \in Named(d, b) <=> q \in Named(Dns, b)
                /\ q \in Served(d, b) <=> q \in Served(Dns, b)
      /\ \A b : r \in Named(d, b) <=> a = b
      /\ \A b : r \in Named(Dns, b) <=> old = b
      /\ \A b : /\ Served(Dns, b) \subseteq Named(Dns, b) /\ Served(d, b) \subseteq Named(d, b)
                /\ Named(Dns, b) \subseteq Records /\ Named(d, b) \subseteq Records
  BY <1>1, <1>2, <1>4, <1>5, <1>6, <1>7, OneRecord
<1>9. \A b : b \notin {old, a} => Served(d, b) = Served(Dns, b) /\ Unserved(d, b) = Unserved(Dns, b)
  BY <1>8 DEF Unserved
<1>10. ASSUME NEW b \in {old, a}
       PROVE  /\ RowOK(d, reservation, gateway, b, row'[b])
              /\ FactInv => FactOK(reservation, gateway, b, row'[b]) /\ Ends(b)
  <2> DEFINE w == row[b]
             l == Left(b, w)
             t == Taken(b, l)
  <2>1. b \in Addresses
    BY <1>4
  <2>2. row'[b] = ReconcileDnsHold(d, b, t)
    BY <1>2, <2>1
  <2>3. /\ L(b) \in BOOLEAN /\ T(b) \in BOOLEAN
        /\ l = IF L(b) THEN DeallocateStaticDns(d, b, w) ELSE w
        /\ t = IF T(b) THEN AllocateStaticDns(b, l, r) ELSE l
    OBVIOUS
  <2>4. T(b) => r \in Served(d, b) /\ MayAllocateStaticDns(b, l)
    BY <1>2
  <2>5. L(b) => r \in Served(Dns, b) /\ MayDeallocateStaticDns(d, b, w)
    BY <1>2
  <2>6. ~T(b) /\ ~L(b) => r \notin Served(Dns, b) /\ r \notin Served(d, b)
    BY <1>8
  <2>7. ~T(b) /\ L(b) => r \notin Served(d, b)
    BY <1>8
  <2> HIDE DEF L, T, l, t
  <2>8. RowOK(Dns, reservation, gateway, b, w)
    BY <1>1, <2>1
  <2>9. ~T(b) /\ ~L(b) /\ w.state = "static_dns" => w.id \in Served(d, b)
    BY <1>8, <2>6, <2>8 DEF RowOK, Grounded
  <2>10. (\A p, q \in Served(Dns, b) : p = q) /\ Served(d, b) # {} => T(b) \/ ~L(b)
    <3>1. \A q \in Served(d, b) : q = r \/ q \in Served(Dns, b)
      BY <1>8
    <3>2. QED
      BY <2>5, <2>7, <3>1
  <2>11. L(b) => Served(Dns, b) # {} /\ MayDeallocateStaticDns(d, b, w)
    BY <2>5
  <2> DEFINE y == ReconcileDnsHold(d, b, t)
  <2> HIDE DEF w, y
  <2>12. y = ReconcileDnsHold(d, b, t)
    BY DEF y
  <2>13. DnsKeeps(d, b, w, L(b), T(b), y)
    <3>1. DnsStep(d, b, w, L(b), T(b), r, l, t, y)
      BY <2>3, <2>4, <2>9, <2>11, <2>12 DEF DnsStep
    <3>2. QED
      BY <2>1, <2>3, <2>8, <3>1, DnsRow
  <2>14. FactInv => FactOK(reservation, gateway, b, w)
    BY <2>1, FactsNow DEF w
  <2>15. row[b] = w /\ row'[b] = y
    BY <2>2 DEF w, y
  <2>16. Stays(b)
    BY <1>6, <2>10, <2>13, <2>15 DEF Stays, DnsKeeps
  <2>17. FactInv => Kept(b)
    BY <2>13, <2>14, <2>15 DEF Kept, DnsKeeps
  <2>18. QED
    BY <2>13, <2>14, <2>15, <2>16, <2>17 DEF Ends, DnsKeeps
<1>11. \A b \in Addresses : b \notin {old, a} => row'[b] = row[b]
  BY <1>2
<1>12. \A b \in Addresses : RowOK(d, reservation, gateway, b, row'[b]) /\ row'[b] \in RowType
  <2> TAKE b \in Addresses
  <2>1. RowOK(d, reservation, gateway, b, row'[b])
    BY <1>1, <1>9, <1>10, <1>11, SameRecords
  <2>2. QED
    BY <2>1 DEF RowOK, Grounded
<1>13. row' \in [Addresses -> RowType]
  BY <1>2, <1>12
<1>14. TypeOK'
  BY <1>1, <1>2, <1>4, <1>5, <1>13, RecordTyped
<1>16. RowInv'
  BY <1>2, <1>6, <1>12, <1>14, RowInvAfter
<1>17. ASSUME FactInv
       PROVE  ConfigHasItsRow' /\ \A b \in Addresses : Ends(b)
  <2>1. \A b \in Addresses : FactOK(reservation, gateway, b, row[b])
    BY <1>17, FactsNow
  <2>2. \A b \in Addresses : FactOK(reservation, gateway, b, row'[b])
    BY <1>10, <1>11, <1>17, <2>1
  <2>3. ConfigHasItsRow'
    BY <1>2, <2>2, FactsAfter
  <2>4. \A b \in Addresses : Ends(b)
    BY <1>10, <1>11, <1>17 DEF Ends, Kept, Stays
  <2>5. QED
    BY <2>3, <2>4
<1>18. QED
  BY <1>16, <1>17 DEF KeepsFacts

\* DELETE of a record releases its claim or its hold.
LEMMA DeleteRecordKeeps ==
    ASSUME RowInv, NEW r \in Records, DeleteRecord(r)
    PROVE  RowInv' /\ KeepsFacts
<1> DEFINE d == [Dns EXCEPT !.record[r] = NoRecord]
<1>1. /\ TypeOK
      /\ \A b \in Addresses : RowOK(Dns, reservation, gateway, b, row[b]) /\ row[b] \in RowType
  BY DEF RowInv, RowOK, Grounded
<1>2. record[r] # NoRecord
  BY DEF DeleteRecord
<1>3. PICK a \in Addresses : a = record[r].ip
  BY <1>1, <1>2 DEF TypeOK, RecordType
<1> DEFINE w == row[a]
           y == IF r \in Served(Dns, a) THEN DeallocateStaticDns(d, a, w)
                                        ELSE ReconcileDnsHold(d, a, w)
<1>4. /\ record' = [record EXCEPT ![r] = NoRecord]
      /\ UNCHANGED <<zone, scope, gateway, reservation, lease, sweep, awaiting>>
      /\ r \in Served(Dns, a) => MayDeallocateStaticDns(d, a, w)
      /\ row' = [row EXCEPT ![a] = y]
  BY <1>3 DEF DeleteRecord, Dns
<1>5. d = Dns'
  BY <1>4 DEF Dns
<1> HIDE DEF d
<1>6. /\ \A b : \A q \in Records \ {r} :
                /\ q \in Named(d, b) <=> q \in Named(Dns, b)
                /\ q \in Served(d, b) <=> q \in Served(Dns, b)
      /\ \A b : r \notin Named(d, b)
      /\ \A b : r \in Named(Dns, b) <=> a = b
      /\ \A b : /\ Served(Dns, b) \subseteq Named(Dns, b) /\ Served(d, b) \subseteq Named(d, b)
                /\ Named(Dns, b) \subseteq Records /\ Named(d, b) \subseteq Records
  BY <1>1, <1>2, <1>3, <1>4, <1>5, OneRecord
<1>7. \A b : b # a => Served(d, b) = Served(Dns, b) /\ Unserved(d, b) = Unserved(Dns, b)
  BY <1>6 DEF Unserved
<1>8. RowOK(Dns, reservation, gateway, a, w) /\ w \in RowType /\ Grounded(Dns, reservation, gateway, a, w)
  BY <1>1 DEF RowOK
<1>9. /\ RowOK(d, reservation, gateway, a, y)
      /\ FactInv => FactOK(reservation, gateway, a, y)
      /\ w.source = "admin_reservation" /\ Served(Dns, a) = {} => y = w
      /\ w.state = "static_dns" /\ (\A p, q \in Served(Dns, a) : p = q)
           /\ Served(d, a) # {} => y = w
  <2>1. CASE r \in Served(Dns, a)
    <3>1. y = DeallocateStaticDns(d, a, w)
      BY <2>1
    <3> HIDE DEF y
    <3>2. RowOK(d, reservation, gateway, a, y) /\ (w.state = "gateway" => y = w)
      BY <1>8, <3>1, DeallocateStaticDnsGrounded DEF Grounded
    <3>3. w.state \in {"unassigned", "reserved", "static_dns", "gateway"}
      BY <1>4, <2>1 DEF MayDeallocateStaticDns, AssertAllocationTransition,
                        AllocationTransitions
    <3>4. FactInv => FactOK(reservation, gateway, a, y)
      BY <3>2, <3>3, FactsNow DEF FactOK
    <3>5. (\A p, q \in Served(Dns, a) : p = q) => Served(d, a) = {}
      BY <1>6, <2>1
    <3>6. QED
      BY <2>1, <3>2, <3>4, <3>5
  <2>2. CASE r \notin Served(Dns, a)
    <3>1. y = ReconcileDnsHold(d, a, w)
      BY <2>2
    <3> HIDE DEF y
    <3>2. \A q : q \in Served(d, a) <=> q \in Served(Dns, a)
      BY <1>6, <2>2
    <3>3. Grounded(d, reservation, gateway, a, w)
      BY <1>8, <3>2 DEF Grounded
    <3>4. RowOK(d, reservation, gateway, a, y)
      BY <3>1, <3>3, ReconciledRow
    <3>5. w.source = "admin_reservation" \/ w.state = "static_dns" => y = w
      BY <1>8, <3>1, ReconcileDnsHoldFacts DEF Grounded, IsDnsHold
    <3>6. FactInv => FactOK(reservation, gateway, a, y)
      BY <3>1, <3>3, FactsNow, ReconciledRow
    <3>7. QED
      BY <3>4, <3>5, <3>6
  <2>3. QED
    BY <2>1, <2>2
<1> HIDE DEF y
<1>10. row'[a] = y /\ \A b \in Addresses : b # a => row'[b] = row[b]
  BY <1>1, <1>4 DEF TypeOK
<1>11. y \in RowType
  BY <1>9 DEF RowOK, Grounded
<1>12. row' \in [Addresses -> RowType]
  BY <1>1, <1>4, <1>11 DEF TypeOK
<1>13. TypeOK'
  BY <1>1, <1>4, <1>12, RecordTyped
<1>14. \A b \in Addresses : RowOK(d, reservation, gateway, b, row'[b])
  BY <1>1, <1>7, <1>9, <1>10, SameRecords
<1>15. RowInv'
  BY <1>4, <1>5, <1>13, <1>14, RowInvAfter
<1>16. ASSUME FactInv
       PROVE  ConfigHasItsRow' /\ \A b \in Addresses : Ends(b)
  <2>1. \A b \in Addresses : FactOK(reservation, gateway, b, row[b])
    BY <1>16, FactsNow
  <2>2. \A b \in Addresses : FactOK(reservation, gateway, b, row'[b])
    BY <1>9, <1>10, <1>16, <2>1
  <2>3. ConfigHasItsRow'
    BY <1>4, <2>2, FactsAfter
  <2>4. Ends(a)
    BY <1>5, <1>9, <1>10 DEF Ends, Kept, Stays
  <2>5. \A b \in Addresses : b # a => Ends(b)
    BY <1>10 DEF Ends, Kept, Stays
  <2>6. QED
    BY <2>3, <2>4, <2>5
<1>17. QED
  BY <1>15, <1>16 DEF KeepsFacts

\* reconcileStaticDnsZone at one address.
LEMMA ZoneRow ==
    ASSUME RowInv, NEW z \in Zones, NEW served \in BOOLEAN, NEW d, NEW a \in Addresses,
           Named(d, a) \subseteq Named(Dns, a),
           \A q \in Named(Dns, a) : record[q].zone # z =>
                q \in Named(d, a) /\ (q \in Served(d, a) <=> q \in Served(Dns, a)),
           \A q \in Named(Dns, a) : record[q].zone = z =>
                (q \in Served(d, a) <=> record[q].on /\ served),
           ReconcileStaticDnsZone(d, z, served, a).may
    PROVE  LET y == ReconcileStaticDnsZone(d, z, served, a).row
           IN  /\ RowOK(d, reservation, gateway, a, y)
               /\ FactInv => /\ FactOK(reservation, gateway, a, y)
                             /\ row[a].source = "admin_reservation" /\ Served(Dns, a) = {} =>
                                  \/ y.source = "admin_reservation"
                                  \/ y.state \in {"static_dhcp", "static_dns"}
               /\ row[a].state = "static_dns" /\ (\A p, q \in Served(Dns, a) : p = q)
                    /\ Served(d, a) # {} => y.state \in {"static_dns", "gateway"}
<1> DEFINE w == row[a]
           mine == {r \in Named(Dns, a) : record[r].zone = z}
           on == {r \in mine : record[r].on}
           L == on # {} /\ zone[z]
           T == on # {} /\ served
           l == IF on # {} /\ zone[z] THEN DeallocateStaticDns(d, a, w) ELSE w
           t == IF on # {} /\ served THEN AllocateStaticDns(a, l, Highest(on)) ELSE l
           y == ReconcileDnsHold(d, a, t)
<1>1. /\ RowOK(Dns, reservation, gateway, a, w) /\ TypeOK /\ Grounded(Dns, reservation, gateway, a, w)
      /\ zone[z] \in BOOLEAN
  BY DEF RowInv, RowOK, TypeOK
<1>2. /\ ReconcileStaticDnsZone(d, z, served, a).row = IF mine = {} THEN w ELSE y
      /\ T => MayAllocateStaticDns(a, l)
      /\ L => MayDeallocateStaticDns(d, a, w)
  BY DEF ReconcileStaticDnsZone
<1>3. Served(d, a) \subseteq Named(d, a) /\ Served(Dns, a) \subseteq Named(Dns, a)
  BY DEF Served
<1>4. CASE mine = {}
  <2>1. \A q : (q \in Served(d, a) <=> q \in Served(Dns, a)) /\ (q \in Named(d, a) <=> q \in Named(Dns, a))
    BY <1>3, <1>4
  <2>2. Served(d, a) = Served(Dns, a) /\ Unserved(d, a) = Unserved(Dns, a)
    BY <2>1 DEF Unserved
  <2>3. RowOK(d, reservation, gateway, a, w)
    BY <1>1, <2>2, SameRecords
  <2>4. FactInv => FactOK(reservation, gateway, a, w)
    BY FactsNow
  <2>5. QED
    BY <1>2, <1>4, <2>3, <2>4
<1>5. CASE mine # {}
  <2>1. ReconcileStaticDnsZone(d, z, served, a).row = y
    BY <1>2, <1>5
  <2>2. \A q \in on : /\ q \in Named(Dns, a) /\ record[q].zone = z
                      /\ zone[z] => q \in Served(Dns, a)
                      /\ served => q \in Served(d, a)
    BY DEF Served, Dns
  <2>3. on \subseteq Records
    BY DEF Named
  <2>4. T => Highest(on) \in Served(d, a)
    BY <2>2, <2>3, HighestIn
  <2>5. L => Served(Dns, a) # {}
    BY <2>2
  <2>6. \A q \in Served(Dns, a) : record[q].zone = z => q \in on /\ zone[z]
    BY <1>3 DEF Served, Dns
  <2>7. ~T /\ ~L /\ w.state = "static_dns" => w.id \in Served(d, a)
    BY <1>1, <1>3, <2>6 DEF Grounded
  <2>8. \A q \in Served(d, a) : record[q].zone = z => q \in on /\ served
    BY <1>3
  <2>9. (\A p, q \in Served(Dns, a) : p = q) /\ Served(d, a) # {} => T \/ ~L
    BY <1>3, <2>2, <2>8
  <2>10. /\ l = IF L THEN DeallocateStaticDns(d, a, w) ELSE w
         /\ t = IF T THEN AllocateStaticDns(a, l, Highest(on)) ELSE l
         /\ y = ReconcileDnsHold(d, a, t)
         /\ L \in BOOLEAN /\ T \in BOOLEAN
    BY <1>1
  <2> HIDE DEF w, mine, on, L, T, l, t, y
  <2>11. L => Served(Dns, a) # {} /\ MayDeallocateStaticDns(d, a, w)
    BY <1>2, <2>5
  <2>12. DnsKeeps(d, a, w, L, T, y)
    <3>1. DnsStep(d, a, w, L, T, Highest(on), l, t, y)
      BY <1>2, <2>4, <2>7, <2>10, <2>11 DEF DnsStep
    <3>2. QED
      BY <1>1, <2>10, <3>1, DnsRow
  <2>13. FactInv => FactOK(reservation, gateway, a, w)
    BY FactsNow DEF w
  <2>14. QED
    BY <2>1, <2>9, <2>12, <2>13 DEF w, DnsKeeps
<1>6. QED
  BY <1>4, <1>5

\* A change to a zone, once the tables are as their types say.
LEMMA ZoneKeeps ==
    ASSUME RowInv, NEW z \in Zones, NEW served \in BOOLEAN, NEW d, d = Dns',
           record' \in [Records -> RecordType \cup {NoRecord}], zone' \in [Zones -> BOOLEAN],
           UNCHANGED <<scope, gateway, reservation, lease, sweep, awaiting>>,
           \A a \in Addresses :
              /\ Named(d, a) \subseteq Named(Dns, a)
              /\ \A q \in Named(Dns, a) : record[q].zone # z =>
                    q \in Named(d, a) /\ (q \in Served(d, a) <=> q \in Served(Dns, a))
              /\ \A q \in Named(Dns, a) : record[q].zone = z =>
                    (q \in Served(d, a) <=> record[q].on /\ served)
              /\ ReconcileStaticDnsZone(d, z, served, a).may,
           row' = [a \in Addresses |-> ReconcileStaticDnsZone(d, z, served, a).row]
    PROVE  RowInv' /\ KeepsFacts
<1>1. ASSUME NEW a \in Addresses
      PROVE  /\ RowOK(d, reservation, gateway, a, row'[a]) /\ row'[a] \in RowType
             /\ FactInv => FactOK(reservation, gateway, a, row'[a]) /\ Ends(a)
  <2>1. row'[a] = ReconcileStaticDnsZone(d, z, served, a).row
    OBVIOUS
  <2>2. /\ RowOK(d, reservation, gateway, a, row'[a])
        /\ FactInv => /\ FactOK(reservation, gateway, a, row'[a])
                      /\ row[a].source = "admin_reservation" /\ Served(Dns, a) = {} =>
                           \/ row'[a].source = "admin_reservation"
                           \/ row'[a].state \in {"static_dhcp", "static_dns"}
        /\ row[a].state = "static_dns" /\ (\A p, q \in Served(Dns, a) : p = q)
             /\ Served(d, a) # {} => row'[a].state \in {"static_dns", "gateway"}
    BY <2>1, ZoneRow
  <2>3. row'[a] \in RowType
    BY <2>2 DEF RowOK, Grounded
  <2>4. QED
    BY <2>2, <2>3 DEF Ends, Kept, Stays
<1>2. row' \in [Addresses -> RowType]
  BY <1>1
<1>3. TypeOK'
  BY <1>2 DEF RowInv, TypeOK
<1>4. RowInv'
  BY <1>1, <1>3, RowInvAfter
<1>5. FactInv => ConfigHasItsRow'
  BY <1>1, FactsAfter
<1>6. QED
  BY <1>1, <1>4, <1>5 DEF KeepsFacts

\* PUT of a zone, whether or not it gives an address a second hostname.
LEMMA UpdateZoneKeeps ==
    ASSUME RowInv, NEW z \in Zones, NEW on \in BOOLEAN, UpdateZone(z, on)
    PROVE  RowInv' /\ KeepsFacts
<1> DEFINE d == [Dns EXCEPT !.zone[z] = on]
<1>1. /\ zone' = [zone EXCEPT ![z] = on]
      /\ UNCHANGED <<record, scope, gateway, reservation, lease, sweep, awaiting>>
      /\ \A a \in Addresses : ReconcileStaticDnsZone(d, z, on, a).may
      /\ row' = [a \in Addresses |-> ReconcileStaticDnsZone(d, z, on, a).row]
  BY DEF UpdateZone, Dns
<1>2. d = Dns'
  BY <1>1 DEF Dns
<1>3. /\ record \in [Records -> RecordType \cup {NoRecord}] /\ zone \in [Zones -> BOOLEAN]
      /\ zone' \in [Zones -> BOOLEAN] /\ record' \in [Records -> RecordType \cup {NoRecord}]
  BY <1>1 DEF RowInv, TypeOK
<1>4. \A q \in Records : record[q] # NoRecord => record[q] \in RecordType /\ record[q].zone \in Zones
  BY <1>3 DEF RecordType
<1>5. d.record = record /\ d.zone = zone'
  BY <1>1 DEF Dns
<1> HIDE DEF d
<1>6. ASSUME NEW a \in Addresses
      PROVE  /\ Named(d, a) \subseteq Named(Dns, a)
             /\ \A q \in Named(Dns, a) : record[q].zone # z =>
                   q \in Named(d, a) /\ (q \in Served(d, a) <=> q \in Served(Dns, a))
             /\ \A q \in Named(Dns, a) : record[q].zone = z =>
                   (q \in Served(d, a) <=> record[q].on /\ on)
  BY <1>1, <1>3, <1>4, <1>5 DEF Named, Served, Dns
<1>7. QED
  BY <1>1, <1>2, <1>3, <1>6, ZoneKeeps

\* DELETE of a zone takes its records, and their claims and holds, with it.
LEMMA DeleteZoneKeeps ==
    ASSUME RowInv, NEW z \in Zones, DeleteZone(z)
    PROVE  RowInv' /\ KeepsFacts
<1> DEFINE d == [record |-> [r \in Records |->
                               IF record[r].zone = z THEN NoRecord ELSE record[r]],
                 zone |-> [zone EXCEPT ![z] = TRUE]]
<1>0. PICK served \in BOOLEAN : served = FALSE
  OBVIOUS
<1>1. /\ record' = d.record /\ zone' = d.zone
      /\ UNCHANGED <<scope, gateway, reservation, lease, sweep, awaiting>>
      /\ \A a \in Addresses : ReconcileStaticDnsZone(d, z, served, a).may
      /\ row' = [a \in Addresses |-> ReconcileStaticDnsZone(d, z, served, a).row]
  BY <1>0 DEF DeleteZone
<1>2. d = Dns'
  BY <1>1 DEF Dns
<1>3. /\ record \in [Records -> RecordType \cup {NoRecord}] /\ zone \in [Zones -> BOOLEAN]
      /\ zone' \in [Zones -> BOOLEAN] /\ record' \in [Records -> RecordType \cup {NoRecord}]
  BY <1>1 DEF RowInv, TypeOK
<1>4. \A q \in Records : record[q] # NoRecord => record[q] \in RecordType /\ record[q].zone \in Zones
  BY <1>3 DEF RecordType
<1>5. /\ \A q \in Records : d.record[q] = IF record[q].zone = z THEN NoRecord ELSE record[q]
      /\ \A x \in Zones \ {z} : d.zone[x] = zone[x]
  BY <1>3
<1> HIDE DEF d
<1>6. ASSUME NEW a \in Addresses
      PROVE  /\ Named(d, a) \subseteq Named(Dns, a)
             /\ \A q \in Named(Dns, a) : record[q].zone # z =>
                   q \in Named(d, a) /\ (q \in Served(d, a) <=> q \in Served(Dns, a))
             /\ \A q \in Named(Dns, a) : record[q].zone = z => q \notin Served(d, a)
  BY <1>4, <1>5 DEF Named, Served, Dns
<1>7. \A a \in Addresses : \A q \in Named(Dns, a) : record[q].zone = z =>
                   (q \in Served(d, a) <=> record[q].on /\ served)
  BY <1>0, <1>6
<1>8. QED
  BY <1>1, <1>2, <1>3, <1>6, <1>7, ZoneKeeps

\* A step that leaves the records and zones alone, given its rows.
LEMMA RowsKeep ==
    ASSUME RowInv, TypeOK', UNCHANGED <<record, zone>>,
           \A a \in Addresses : RowOK(Dns, reservation', gateway', a, row'[a]),
           FactInv => \A a \in Addresses : FactOK(reservation', gateway', a, row'[a])
    PROVE  RowInv' /\ (FactInv => ConfigHasItsRow')
<1>1. Dns' = Dns
  BY DEF Dns
<1>2. RowInv'
  BY <1>1, RowInvAfter
<1>3. FactInv => ConfigHasItsRow'
  BY <1>1, FactsAfter
<1>4. QED
  BY <1>2, <1>3

\* A step that leaves rows and facts alone.
LEMMA SameRowsKeep ==
    ASSUME RowInv, TypeOK', UNCHANGED <<record, zone, gateway, reservation, row>>
    PROVE  RowInv' /\ KeepsFacts
<1>1. \A a \in Addresses : RowOK(Dns, reservation', gateway', a, row'[a])
  BY DEF RowInv
<1>2. FactInv => \A a \in Addresses : FactOK(reservation', gateway', a, row'[a])
  BY FactsNow
<1>3. \A a \in Addresses : Ends(a)
  BY DEF Ends, Kept, Stays
<1>4. QED
  BY <1>1, <1>2, <1>3, RowsKeep DEF KeepsFacts

\* Scopes and lease expiry change no row.
LEMMA ScopeKeeps ==
    ASSUME RowInv,
           \/ \E range \in SUBSET Addresses, on \in BOOLEAN : SaveScope(range, on)
           \/ DeleteScope
           \/ \E a \in Addresses : ExpireLease(a)
    PROVE  RowInv' /\ KeepsFacts
<1>1. UNCHANGED <<record, zone, gateway, reservation, row>>
  BY DEF SaveScope, DeleteScope, ExpireLease
<1>2. TypeOK'
  <2>1. CASE \E range \in SUBSET Addresses, on \in BOOLEAN : SaveScope(range, on)
    BY <2>1 DEF SaveScope, RowInv, TypeOK
  <2>2. CASE DeleteScope
    BY <2>2 DEF DeleteScope, RowInv, TypeOK
  <2>3. CASE \E a \in Addresses : ExpireLease(a)
    BY <2>3 DEF ExpireLease, RowInv, TypeOK
  <2>4. QED
    BY <2>1, <2>2, <2>3
<1>3. QED
  BY <1>1, <1>2, SameRowsKeep

-----------------------------------------------------------------------------
(* DHCP Reservations and leases *)

\* allocateStaticDhcp makes the reservation's row.
LEMMA AllocateStaticDhcpFacts ==
    ASSUME NEW w \in RowType
    PROVE  /\ AllocateStaticDhcp(w) \in RowType /\ AllocateStaticDhcp(w).state = "static_dhcp"
           /\ AllocateStaticDhcp(w).source = "dhcp_reservation"
<1> DEFINE y == Allocated(w, "static_dhcp", "dhcp_reservation", 0)
<1>1. /\ 0 \in 0..NumRecords /\ "static_dhcp" \in States /\ "dhcp_reservation" \in Sources
      /\ "dhcp_reservation" \in Detections
  BY LifecycleAssumption DEF States, Sources, Detections
<1>2. y \in RowType /\ y.state = "static_dhcp" /\ y.source = "dhcp_reservation"
  BY <1>1, AllocatedFacts
<1>3. AllocateStaticDhcp(w) = [y EXCEPT !.det = "dhcp_reservation"]
  BY DEF AllocateStaticDhcp
<1> HIDE DEF y
<1>4. QED
  BY <1>1, <1>2, <1>3, DetFacts

\* deallocateStaticDhcp leaves the lease's row, a hold or a free row.
LEMMA DeallocateStaticDhcpFacts ==
    ASSUME NEW w \in RowType, NEW a, NEW v, NEW g
    PROVE  LET y == DeallocateStaticDhcp(a, w)
           IN  /\ RowOK(Dns, v, g, a, y)
               /\ y.state \in {"dynamic_dhcp", "reserved", "unassigned"}
<1>1. CASE w.det = "dhcp_reservation" /\ lease[a] # None
  <2> DEFINE x == Allocated(w, "dynamic_dhcp", "dhcp_lease", 0)
             y == [x EXCEPT !.det = "observed"]
  <2>1. DeallocateStaticDhcp(a, w) = y
    BY <1>1 DEF DeallocateStaticDhcp
  <2>2. /\ 0 \in 0..NumRecords /\ "dynamic_dhcp" \in States /\ "dhcp_lease" \in Sources
        /\ "observed" \in Detections
    BY LifecycleAssumption DEF States, Sources, Detections
  <2>3. x \in RowType /\ x.state = "dynamic_dhcp" /\ x.source = "dhcp_lease"
    BY <2>2, AllocatedFacts
  <2> HIDE DEF x
  <2>4. y \in RowType /\ y.state = "dynamic_dhcp" /\ y.source = "dhcp_lease"
    BY <2>2, <2>3, DetFacts
  <2> HIDE DEF y
  <2>5. QED
    BY <2>1, <2>4 DEF RowOK, Grounded, IsDnsHold
<1>2. CASE ~(w.det = "dhcp_reservation" /\ lease[a] # None)
  <2> DEFINE y == ReconcileDnsHold(Dns, a, NoRow)
  <2>1. DeallocateStaticDhcp(a, w) = y
    BY <1>2 DEF DeallocateStaticDhcp
  <2>2. Grounded(Dns, v, g, a, NoRow)
    BY NoRowFacts DEF Grounded
  <2>3. RowOK(Dns, v, g, a, y)
    BY <2>2, ReconciledRow
  <2>4. y.state \in {"reserved", "unassigned"}
    BY NoRowFacts, ReconcileDnsHoldFacts
  <2>5. QED
    BY <2>1, <2>3, <2>4
<1>3. QED
  BY <1>1, <1>2

\* No DHCP Reservation reserves nothing.
LEMMA NotReserved == \A a \in Addresses : ~Reserved(NoReservation, a)
BY DEF Reserved, NoReservation

\* POST of a reservation takes an address nothing is configured at.
LEMMA CreateReservationKeeps ==
    ASSUME RowInv, NEW c \in Clients, NEW a \in Addresses, CreateReservation(c, a)
    PROVE  RowInv' /\ KeepsFacts
<1> DEFINE y == AllocateStaticDhcp(row[a])
           v == [client |-> c, ip |-> a, on |-> TRUE]
<1>1. /\ TypeOK
      /\ \A b \in Addresses : RowOK(Dns, reservation, gateway, b, row[b]) /\ row[b] \in RowType
  BY DEF RowInv, RowOK, Grounded
<1>2. /\ reservation = NoReservation
      /\ a # gateway /\ row[a].state \notin {"gateway", "static_dns", "dynamic_dhcp"}
      /\ reservation' = v /\ row' = [row EXCEPT ![a] = y]
      /\ UNCHANGED <<record, zone, scope, gateway, lease, sweep, awaiting>>
  BY DEF CreateReservation, ReservationIpRejected
<1>3. y \in RowType /\ y.state = "static_dhcp" /\ y.source = "dhcp_reservation"
  BY <1>1, AllocateStaticDhcpFacts
<1>4. v \in ReservationType /\ \A b : Reserved(v, b) <=> b = a
  BY DEF ReservationType, Reserved
<1> HIDE DEF y, v
<1>5. TypeOK'
  BY <1>1, <1>2, <1>3, <1>4 DEF TypeOK
<1>6. row'[a] = y /\ \A b \in Addresses : b # a => row'[b] = row[b]
  BY <1>1, <1>2 DEF TypeOK
<1>7. ASSUME NEW b \in Addresses
      PROVE  RowOK(Dns, v, gateway, b, row'[b])
  <2>1. CASE b = a
    BY <1>3, <1>4, <1>6, <2>1 DEF RowOK, Grounded, IsDnsHold
  <2>2. CASE b # a
    BY <1>1, <1>2, <1>6, <2>2, NotReserved DEF RowOK, Grounded
  <2>3. QED
    BY <2>1, <2>2
<1>8. ASSUME FactInv, NEW b \in Addresses
      PROVE  FactOK(v, gateway, b, row'[b]) /\ Ends(b)
  <2>1. FactOK(reservation, gateway, b, row[b])
    BY <1>8, FactsNow
  <2>2. CASE b = a
    BY <1>2, <1>3, <1>6, <2>1, <2>2 DEF FactOK, Ends, Kept, Stays
  <2>3. CASE b # a
    BY <1>4, <1>6, <2>1, <2>3 DEF FactOK, Ends, Kept, Stays
  <2>4. QED
    BY <2>2, <2>3
<1>9. QED
  BY <1>2, <1>5, <1>7, <1>8, RowsKeep DEF KeepsFacts

\* PUT of a reservation: the old address is left before the new one is taken.
LEMMA UpdateReservationKeeps ==
    ASSUME RowInv, NEW c \in Clients, NEW a \in Addresses, NEW on \in BOOLEAN,
           NEW given \in BOOLEAN, UpdateReservation(c, a, on, given)
    PROVE  RowInv' /\ KeepsFacts
<1> DEFINE old == reservation.ip
           leaves == reservation.on /\ (a # old \/ ~on)
           Left(b) == IF b = old /\ leaves THEN DeallocateStaticDhcp(b, row[b]) ELSE row[b]
           v == [client |-> c, ip |-> a, on |-> on]
<1>1. /\ TypeOK
      /\ \A b \in Addresses : RowOK(Dns, reservation, gateway, b, row[b]) /\ row[b] \in RowType
  BY DEF RowInv, RowOK, Grounded
<1>2. /\ reservation # NoReservation
      /\ on => AssertAllocationTransition(a, Left(a), "static_dhcp", "dhcp_reservation")
      /\ reservation' = v
      /\ row' = [b \in Addresses |->
                   IF b = a /\ on THEN AllocateStaticDhcp(Left(b)) ELSE Left(b)]
      /\ sweep' = IF leaves THEN ForgetRow(old) ELSE sweep
      /\ UNCHANGED <<record, zone, scope, gateway, lease, awaiting>>
  BY DEF UpdateReservation, HeldLiveAllocation
<1>3. reservation \in ReservationType
  BY <1>1, <1>2 DEF TypeOK
<1>4. old \in Addresses /\ reservation.on \in BOOLEAN
  BY <1>3 DEF ReservationType
<1>5. v \in ReservationType /\ \A b : Reserved(v, b) <=> on /\ b = a
  BY DEF ReservationType, Reserved
<1>6. \A b : Reserved(reservation, b) <=> reservation.on /\ b = old
  BY DEF Reserved
<1>7. ASSUME NEW b \in Addresses
      PROVE  /\ b = old /\ leaves => /\ RowOK(Dns, v, gateway, b, Left(b))
                                     /\ Left(b).state # "static_dhcp"
             /\ ~(b = old /\ leaves) => Left(b) = row[b]
             /\ Left(b) \in RowType
  <2>1. RowOK(Dns, v, gateway, b, DeallocateStaticDhcp(b, row[b]))
    BY <1>1, DeallocateStaticDhcpFacts
  <2>2. DeallocateStaticDhcp(b, row[b]).state \in {"dynamic_dhcp", "reserved", "unassigned"}
    BY <1>1, DeallocateStaticDhcpFacts
  <2>3. DeallocateStaticDhcp(b, row[b]) \in RowType
    BY <2>1 DEF RowOK, Grounded
  <2>4. QED
    BY <1>1, <2>1, <2>2, <2>3
<1>8. on => a # gateway /\ Left(a).state \in {"unassigned", "reserved", "static_dhcp"}
  <2>1. \A w : AssertAllocationTransition(a, w, "static_dhcp", "dhcp_reservation") =>
                 a # gateway /\ w.state \in {"unassigned", "reserved", "static_dhcp"}
    BY DEF AssertAllocationTransition, AllocationTransitions
  <2>2. QED
    BY <1>2, <2>1
<1>9. sweep' \in [Addresses -> States \cup {"none", "gone"}]
  <2>1. ForgetRow(old) \in [Addresses -> States \cup {"none", "gone"}]
    BY <1>1 DEF ForgetRow, Gone, TypeOK
  <2>2. QED
    BY <1>1, <1>2, <2>1 DEF TypeOK
<1> HIDE DEF Left, v
<1>10. ASSUME NEW b \in Addresses
       PROVE  /\ b = a /\ on => /\ row'[b] \in RowType /\ row'[b].state = "static_dhcp"
                                /\ row'[b].source = "dhcp_reservation"
              /\ ~(b = a /\ on) => row'[b] = Left(b)
              /\ row'[b] \in RowType
  BY <1>2, <1>7, AllocateStaticDhcpFacts
<1>11. row' \in [Addresses -> RowType]
  BY <1>2, <1>10
<1>12. TypeOK'
  BY <1>1, <1>2, <1>5, <1>9, <1>11 DEF TypeOK
<1>13. ASSUME NEW b \in Addresses
       PROVE  RowOK(Dns, v, gateway, b, row'[b])
  <2>1. CASE b = a /\ on
    BY <1>5, <1>10, <2>1 DEF RowOK, Grounded, IsDnsHold
  <2>2. CASE ~(b = a /\ on) /\ b = old /\ leaves
    BY <1>7, <1>10, <2>2
  <2>3. CASE ~(b = a /\ on) /\ ~(b = old /\ leaves)
    <3>1. row'[b] = row[b] /\ ~Reserved(reservation, b)
      BY <1>4, <1>6, <1>7, <1>10, <2>3
    <3>2. QED
      BY <1>1, <3>1 DEF RowOK, Grounded
  <2>4. QED
    BY <2>1, <2>2, <2>3
<1>14. ASSUME FactInv, NEW b \in Addresses
       PROVE  FactOK(v, gateway, b, row'[b]) /\ Ends(b)
  <2>1. FactOK(reservation, gateway, b, row[b]) /\ Grounded(Dns, reservation, gateway, b, row[b])
    BY <1>1, <1>14, FactsNow DEF RowOK
  <2>2. CASE b = a /\ on
    <3>1. Left(a) = row[a]
      BY <1>7, <2>2
    <3>2. QED
      BY <1>8, <1>10, <2>1, <2>2, <3>1 DEF FactOK, Ends, Kept, Stays
  <2>3. CASE ~(b = a /\ on) /\ b = old /\ leaves
    <3>1. row[b].state = "static_dhcp"
      BY <1>6, <2>1, <2>3 DEF FactOK
    <3>2. ~Reserved(v, b)
      BY <1>5, <2>3
    <3>3. QED
      BY <2>1, <3>1, <3>2 DEF FactOK, Ends, Kept, Stays, Grounded
  <2>4. CASE ~(b = a /\ on) /\ ~(b = old /\ leaves)
    <3>1. row'[b] = row[b]
      BY <1>7, <1>10, <2>4
    <3>2. ~Reserved(v, b)
      BY <1>5, <2>4
    <3>3. QED
      BY <2>1, <3>1, <3>2 DEF FactOK, Ends, Kept, Stays
  <2>5. QED
    BY <2>2, <2>3, <2>4
<1>15. QED
  BY <1>2, <1>12, <1>13, <1>14, RowsKeep DEF KeepsFacts

\* DELETE of a reservation releases its address if it held one.
LEMMA DeleteReservationKeeps ==
    ASSUME RowInv, DeleteReservation
    PROVE  RowInv' /\ KeepsFacts
<1>1. /\ TypeOK
      /\ \A b \in Addresses : RowOK(Dns, reservation, gateway, b, row[b]) /\ row[b] \in RowType
  BY DEF RowInv, RowOK, Grounded
<1>2. reservation # NoReservation
  BY DEF DeleteReservation
<1>3. reservation \in ReservationType
  BY <1>1, <1>2 DEF TypeOK
<1>4. PICK a \in Addresses : a = reservation.ip
  BY <1>3 DEF ReservationType
<1> DEFINE y == DeallocateStaticDhcp(a, row[a])
<1>5. /\ reservation' = NoReservation
      /\ row' = IF reservation.on THEN [row EXCEPT ![a] = y] ELSE row
      /\ sweep' = IF reservation.on THEN ForgetRow(a) ELSE sweep
      /\ UNCHANGED <<record, zone, scope, gateway, lease, awaiting>>
  BY <1>4 DEF DeleteReservation, HeldLiveAllocation
<1>6. \A b : Reserved(reservation, b) <=> reservation.on /\ b = a
  BY <1>4 DEF Reserved
<1>7. /\ RowOK(Dns, NoReservation, gateway, a, y) /\ y \in RowType
  <2>1. RowOK(Dns, NoReservation, gateway, a, y)
    BY <1>1, DeallocateStaticDhcpFacts
  <2>2. QED
    BY <2>1 DEF RowOK, Grounded
<1>8. sweep' \in [Addresses -> States \cup {"none", "gone"}]
  <2>1. ForgetRow(a) \in [Addresses -> States \cup {"none", "gone"}]
    BY <1>1 DEF ForgetRow, Gone, TypeOK
  <2>2. QED
    BY <1>1, <1>5, <2>1 DEF TypeOK
<1> HIDE DEF y
<1>9. TypeOK'
  BY <1>1, <1>5, <1>7, <1>8 DEF TypeOK
<1>10. /\ reservation.on => row'[a] = y
       /\ \A b \in Addresses : ~(reservation.on /\ b = a) => row'[b] = row[b]
  BY <1>1, <1>5 DEF TypeOK
<1>11. ASSUME NEW b \in Addresses
       PROVE  RowOK(Dns, NoReservation, gateway, b, row'[b])
  <2>1. CASE reservation.on /\ b = a
    BY <1>7, <1>10, <2>1
  <2>2. CASE ~(reservation.on /\ b = a)
    <3>1. row'[b] = row[b] /\ ~Reserved(reservation, b)
      BY <1>6, <1>10, <2>2
    <3>2. QED
      BY <1>1, <3>1 DEF RowOK, Grounded
  <2>3. QED
    BY <2>1, <2>2
<1>12. ASSUME FactInv, NEW b \in Addresses
       PROVE  FactOK(NoReservation, gateway, b, row'[b]) /\ Ends(b)
  <2>1. FactOK(reservation, gateway, b, row[b]) /\ Grounded(Dns, reservation, gateway, b, row[b])
    BY <1>1, <1>12, FactsNow DEF RowOK
  <2>2. CASE reservation.on /\ b = a
    <3>1. row[b].state = "static_dhcp"
      BY <1>6, <2>1, <2>2 DEF FactOK
    <3>2. QED
      BY <2>1, <3>1, NotReserved DEF FactOK, Ends, Kept, Stays, Grounded
  <2>3. CASE ~(reservation.on /\ b = a)
    BY <1>10, <2>1, <2>3, NotReserved DEF FactOK, Ends, Kept, Stays
  <2>4. QED
    BY <2>2, <2>3
<1>13. QED
  BY <1>5, <1>9, <1>11, <1>12, RowsKeep DEF KeepsFacts

\* A step that changes rows only, each to one as good as before.
LEMMA RowStepKeeps ==
    ASSUME RowInv, row' \in [Addresses -> RowType],
           lease' \in [Addresses -> Clients \cup {None}],
           sweep' \in [Addresses -> States \cup {"none", "gone"}], awaiting' \in BOOLEAN,
           UNCHANGED <<record, zone, scope, gateway, reservation>>,
           \A a \in Addresses : RowOK(Dns, reservation, gateway, a, row'[a]),
           FactInv => \A a \in Addresses : FactOK(reservation, gateway, a, row'[a])
    PROVE  RowInv' /\ (FactInv => ConfigHasItsRow')
<1>1. TypeOK'
  BY DEF RowInv, TypeOK
<1>2. /\ \A a \in Addresses : RowOK(Dns, reservation', gateway', a, row'[a])
      /\ FactInv => \A a \in Addresses : FactOK(reservation', gateway', a, row'[a])
  OBVIOUS
<1>3. UNCHANGED <<record, zone>>
  OBVIOUS
<1>4. QED
  BY <1>1, <1>2, <1>3, RowsKeep

\* The row a lease leaves, by what the lease and the reservation say of it.
LEMMA LeaseRow ==
    ASSUME NEW a, NEW w \in RowType, NEW stored
    PROVE  LET y == ReconcileExpired(a, ObserveLease(a, w, stored), stored)
           IN  /\ stored[a] = None /\ w.state # "dynamic_dhcp" => y = w
               /\ stored[a] = None /\ w.state = "dynamic_dhcp" =>
                    y \in RowType /\ y.state = "unassigned" /\ y.source = "none"
               /\ stored[a] # None /\ Reserved(reservation, a) =>
                    y \in RowType /\ y.state = "static_dhcp" /\ y.source = "dhcp_reservation"
               /\ stored[a] # None /\ ~Reserved(reservation, a) =>
                    y \in RowType /\ y.state = "dynamic_dhcp" /\ y.source = "dhcp_lease"
<1> DEFINE s == Allocated(w, "static_dhcp", "dhcp_reservation", 0)
           t == Allocated(w, "dynamic_dhcp", "dhcp_lease", 0)
           y == ReconcileExpired(a, ObserveLease(a, w, stored), stored)
<1>1. /\ 0 \in 0..NumRecords /\ {"static_dhcp", "dynamic_dhcp"} \subseteq States
      /\ {"dhcp_reservation", "dhcp_lease"} \subseteq Sources /\ "observed" \in Detections
  BY LifecycleAssumption DEF States, Sources, Detections
<1>2. /\ s \in RowType /\ s.state = "static_dhcp" /\ s.source = "dhcp_reservation"
      /\ t \in RowType /\ t.state = "dynamic_dhcp" /\ t.source = "dhcp_lease"
  BY <1>1, AllocatedFacts
<1>3. /\ stored[a] # None /\ Reserved(reservation, a) => y = [s EXCEPT !.det = "observed"]
      /\ stored[a] # None /\ ~Reserved(reservation, a) => y = [t EXCEPT !.det = "observed"]
      /\ stored[a] = None /\ w.state # "dynamic_dhcp" => y = w
      /\ stored[a] = None /\ w.state = "dynamic_dhcp" => y = Freed(w)
  BY DEF ReconcileExpired, ObserveLease
<1> HIDE DEF s, t, y
<1>4. /\ [s EXCEPT !.det = "observed"] \in RowType
      /\ [s EXCEPT !.det = "observed"].state = "static_dhcp"
      /\ [s EXCEPT !.det = "observed"].source = "dhcp_reservation"
  BY <1>1, <1>2, DetFacts
<1>5. /\ [t EXCEPT !.det = "observed"] \in RowType
      /\ [t EXCEPT !.det = "observed"].state = "dynamic_dhcp"
      /\ [t EXCEPT !.det = "observed"].source = "dhcp_lease"
  BY <1>1, <1>2, DetFacts
<1>6. QED
  BY <1>3, <1>4, <1>5, FreedFacts DEF y

\* A sync stores leases only where the row admits one.
LEMMA IngestLeasesKeeps ==
    ASSUME RowInv, NEW read \in [Addresses -> Clients \cup {None}],
           NEW moved \in SUBSET Addresses, IngestLeases(read, moved)
    PROVE  RowInv' /\ KeepsFacts
<1> DEFINE stored == [a \in Addresses |->
                        IF read[a] # None /\ ~LeaseRejected(a, read[a]) THEN read[a] ELSE None]
<1>1. /\ TypeOK
      /\ \A b \in Addresses : RowOK(Dns, reservation, gateway, b, row[b]) /\ row[b] \in RowType
  BY DEF RowInv, RowOK, Grounded
<1>2. /\ lease' = stored
      /\ \A a \in moved : LeftBehind(stored, a)
      /\ row' = [a \in Addresses |->
                   IF a \in moved THEN NoRow
                   ELSE ReconcileExpired(a, ObserveLease(a, row[a], stored), stored)]
      /\ sweep' = [a \in Addresses |-> IF a \in moved THEN Gone(sweep[a]) ELSE sweep[a]]
      /\ UNCHANGED <<record, zone, scope, gateway, reservation, awaiting>>
  BY DEF IngestLeases
<1>3. stored \in [Addresses -> Clients \cup {None}]
  OBVIOUS
<1>4. ASSUME NEW a \in Addresses, stored[a] # None
      PROVE  /\ a # gateway
             /\ Reserved(reservation, a) =>
                  row[a].state \in {"unassigned", "reserved", "static_dhcp"}
             /\ ~Reserved(reservation, a) => row[a].state \in {"unassigned", "dynamic_dhcp"}
  <2>1. ~LeaseRejected(a, read[a])
    BY <1>4
  <2>2. QED
    BY <2>1 DEF LeaseRejected, AssertAllocationTransition, AllocationTransitions
<1> HIDE DEF stored
<1>5. ASSUME NEW a \in Addresses
      PROVE  /\ stored[a] = None /\ row[a].state # "dynamic_dhcp" => row'[a] = row[a]
             /\ stored[a] = None /\ row[a].state = "dynamic_dhcp" =>
                  /\ row'[a] \in RowType /\ row'[a].state = "unassigned"
                  /\ row'[a].source = "none"
             /\ stored[a] # None /\ Reserved(reservation, a) =>
                  /\ row'[a] \in RowType /\ row'[a].state = "static_dhcp"
                  /\ row'[a].source = "dhcp_reservation"
             /\ stored[a] # None /\ ~Reserved(reservation, a) =>
                  /\ row'[a] \in RowType /\ row'[a].state = "dynamic_dhcp"
                  /\ row'[a].source = "dhcp_lease"
  <2> DEFINE y == ReconcileExpired(a, ObserveLease(a, row[a], stored), stored)
  <2>1. a \notin moved => row'[a] = y
    BY <1>2
  <2>2. row[a] \in RowType
    BY <1>1
  <2>3. /\ stored[a] = None /\ row[a].state # "dynamic_dhcp" => y = row[a]
        /\ stored[a] = None /\ row[a].state = "dynamic_dhcp" =>
             y \in RowType /\ y.state = "unassigned" /\ y.source = "none"
        /\ stored[a] # None /\ Reserved(reservation, a) =>
             y \in RowType /\ y.state = "static_dhcp" /\ y.source = "dhcp_reservation"
        /\ stored[a] # None /\ ~Reserved(reservation, a) =>
             y \in RowType /\ y.state = "dynamic_dhcp" /\ y.source = "dhcp_lease"
    BY <2>2, LeaseRow
  <2> HIDE DEF y
  <2>4. a \in moved => /\ row'[a] = NoRow /\ stored[a] = None
                       /\ row[a].state = "dynamic_dhcp"
    BY <1>2 DEF LeftBehind
  <2>5. QED
    BY <2>1, <2>3, <2>4, NoRowFacts
<1>6. ASSUME NEW a \in Addresses
      PROVE  RowOK(Dns, reservation, gateway, a, row'[a])
  BY <1>1, <1>5 DEF RowOK, Grounded, IsDnsHold
<1>7. row' \in [Addresses -> RowType]
  BY <1>2, <1>6 DEF RowOK, Grounded
<1>8. ASSUME FactInv, NEW a \in Addresses
      PROVE  FactOK(reservation, gateway, a, row'[a]) /\ Ends(a)
  <2>1. FactOK(reservation, gateway, a, row[a]) /\ Grounded(Dns, reservation, gateway, a, row[a])
    BY <1>1, <1>8, FactsNow DEF RowOK
  <2>2. CASE stored[a] = None /\ row[a].state # "dynamic_dhcp"
    BY <1>5, <2>1, <2>2 DEF Ends, Kept, Stays
  <2>3. CASE stored[a] = None /\ row[a].state = "dynamic_dhcp"
    BY <1>5, <2>1, <2>3 DEF FactOK, Ends, Kept, Stays, Grounded
  <2>4. CASE stored[a] # None /\ Reserved(reservation, a)
    BY <1>4, <1>5, <2>1, <2>4 DEF FactOK, Ends, Kept, Stays
  <2>5. CASE stored[a] # None /\ ~Reserved(reservation, a)
    BY <1>4, <1>5, <2>1, <2>5 DEF FactOK, Ends, Kept, Stays, Grounded
  <2>6. QED
    BY <2>2, <2>3, <2>4, <2>5
<1>9. /\ lease' \in [Addresses -> Clients \cup {None}]
      /\ sweep' \in [Addresses -> States \cup {"none", "gone"}] /\ awaiting' \in BOOLEAN
  BY <1>1, <1>2, <1>3 DEF TypeOK, Gone
<1>10. RowInv' /\ (FactInv => ConfigHasItsRow')
  BY <1>2, <1>6, <1>7, <1>8, <1>9, RowStepKeeps
<1>11. QED
  BY <1>8, <1>10 DEF KeepsFacts

-----------------------------------------------------------------------------
(* Topology, IP Reservations, observations, the sweep and the start *)

\* A new gateway: the former one falls back to a served record or to nothing.
LEMMA UpdateGatewayKeeps ==
    ASSUME RowInv, NEW g \in Addresses \cup {None}, UpdateGateway(g)
    PROVE  RowInv' /\ KeepsFacts
<1> DEFINE Claimed(a) == [Allocated(row[a], "static_dns", "dns", Lowest(Served(Dns, a)))
                            EXCEPT !.det = "none"]
<1>1. /\ TypeOK
      /\ \A b \in Addresses : RowOK(Dns, reservation, gateway, b, row[b]) /\ row[b] \in RowType
  BY DEF RowInv, RowOK, Grounded
<1>2. /\ gateway' = g
      /\ g # None => <<row[g].state, "gateway">> \in AllocationTransitions.topology
      /\ row' = [a \in Addresses |->
                   IF a = g THEN Protected(row[a])
                   ELSE IF row[a].source # "topology" THEN row[a]
                   ELSE IF Served(Dns, a) # {} THEN Claimed(a) ELSE NoRow]
      /\ UNCHANGED <<record, zone, scope, reservation, lease, sweep, awaiting>>
  BY DEF UpdateGateway
<1>3. g \in Addresses => row[g].state \in {"unassigned", "gateway"}
  BY <1>2, LifecycleAssumption DEF AllocationTransitions
<1>4. ASSUME NEW a \in Addresses, Served(Dns, a) # {}
      PROVE  /\ Claimed(a) \in RowType /\ Claimed(a).state = "static_dns"
             /\ Claimed(a).source = "dns" /\ Claimed(a).id \in Served(Dns, a)
  <2> DEFINE x == Allocated(row[a], "static_dns", "dns", Lowest(Served(Dns, a)))
  <2>1. Served(Dns, a) \subseteq Records
    BY DEF Served, Named
  <2>2. Lowest(Served(Dns, a)) \in Served(Dns, a)
    BY <1>4, <2>1, LowestIn
  <2>3. Lowest(Served(Dns, a)) \in 0..NumRecords
    BY <2>1, <2>2, LifecycleAssumption DEF Records
  <2>4. "static_dns" \in States /\ "dns" \in Sources /\ "none" \in Detections
    BY DEF States, Sources, Detections
  <2>5. /\ x \in RowType /\ x.state = "static_dns" /\ x.source = "dns"
        /\ x.id = Lowest(Served(Dns, a))
    BY <1>1, <2>3, <2>4, AllocatedFacts
  <2> HIDE DEF x
  <2>6. /\ [x EXCEPT !.det = "none"] \in RowType
        /\ [x EXCEPT !.det = "none"].state = x.state
        /\ [x EXCEPT !.det = "none"].source = x.source
        /\ [x EXCEPT !.det = "none"].id = x.id
    BY <2>4, <2>5, DetFacts
  <2>7. Claimed(a) = [x EXCEPT !.det = "none"]
    BY DEF x
  <2> HIDE DEF Claimed
  <2>8. QED
    BY <2>2, <2>5, <2>6, <2>7
<1> HIDE DEF Claimed
<1>5. ASSUME NEW a \in Addresses
      PROVE  /\ a = g => /\ row'[a] \in RowType /\ row'[a].state = "gateway"
                         /\ row'[a].source = "topology"
             /\ a # g /\ row[a].source # "topology" => row'[a] = row[a]
             /\ a # g /\ row[a].source = "topology" /\ Served(Dns, a) # {} =>
                  /\ row'[a] \in RowType /\ row'[a].state = "static_dns"
                  /\ row'[a].source = "dns" /\ row'[a].id \in Served(Dns, a)
             /\ a # g /\ row[a].source = "topology" /\ Served(Dns, a) = {} => row'[a] = NoRow
  <2>1. CASE a = g
    BY <1>1, <1>2, <2>1, ProtectedFacts
  <2>2. CASE a # g
    BY <1>2, <1>4, <2>2
  <2>3. QED
    BY <2>1, <2>2
<1>6. ASSUME NEW a \in Addresses
      PROVE  RowOK(Dns, reservation, g, a, row'[a])
  <2>1. CASE a = g
    BY <1>5, <2>1 DEF RowOK, Grounded, IsDnsHold
  <2>2. CASE a # g /\ row[a].source # "topology"
    BY <1>1, <1>5, <2>2 DEF RowOK, Grounded
  <2>3. CASE a # g /\ row[a].source = "topology" /\ Served(Dns, a) # {}
    BY <1>5, <2>3 DEF RowOK, Grounded, IsDnsHold
  <2>4. CASE a # g /\ row[a].source = "topology" /\ Served(Dns, a) = {}
    BY <1>5, <2>4, NoRowFacts DEF RowOK, Grounded, IsDnsHold
  <2>5. QED
    BY <2>1, <2>2, <2>3, <2>4
<1>7. row' \in [Addresses -> RowType]
  BY <1>2, <1>6 DEF RowOK, Grounded
<1>8. TypeOK'
  BY <1>1, <1>2, <1>7 DEF TypeOK
<1>9. ASSUME FactInv, NEW a \in Addresses
      PROVE  FactOK(reservation, g, a, row'[a]) /\ Ends(a)
  <2>1. FactOK(reservation, gateway, a, row[a]) /\ Grounded(Dns, reservation, gateway, a, row[a])
    BY <1>1, <1>9, FactsNow DEF RowOK
  <2>2. CASE a = g
    BY <1>3, <1>5, <2>1, <2>2 DEF FactOK, Ends, Kept, Stays, Grounded
  <2>3. CASE a # g /\ row[a].source # "topology"
    BY <1>5, <2>1, <2>3 DEF FactOK, Ends, Kept, Stays
  <2>4. CASE a # g /\ row[a].source = "topology" /\ Served(Dns, a) # {}
    BY <1>5, <2>1, <2>4 DEF FactOK, Ends, Kept, Stays, Grounded
  <2>5. CASE a # g /\ row[a].source = "topology" /\ Served(Dns, a) = {}
    BY <1>5, <2>1, <2>5 DEF FactOK, Ends, Kept, Stays, Grounded
  <2>6. QED
    BY <2>2, <2>3, <2>4, <2>5
<1>10. /\ \A a \in Addresses : RowOK(Dns, reservation', gateway', a, row'[a])
       /\ FactInv => \A a \in Addresses : FactOK(reservation', gateway', a, row'[a])
  BY <1>2, <1>6, <1>9
<1>11. UNCHANGED <<record, zone>>
  BY <1>2
<1>12. RowInv' /\ (FactInv => ConfigHasItsRow')
  BY <1>8, <1>10, <1>11, RowsKeep
<1>13. QED
  BY <1>9, <1>12 DEF KeepsFacts

\* A step that writes one row.
LEMMA OneRowKeeps ==
    ASSUME RowInv, NEW a \in Addresses, NEW y, row' = [row EXCEPT ![a] = y],
           RowOK(Dns, reservation, gateway, a, y),
           FactInv => FactOK(reservation, gateway, a, y),
           UNCHANGED <<record, zone, scope, gateway, reservation, lease, sweep, awaiting>>
    PROVE  /\ RowInv' /\ (FactInv => ConfigHasItsRow')
           /\ \A b \in Addresses \ {a} : Ends(b)
           /\ row'[a] = y
<1>1. /\ TypeOK
      /\ \A b \in Addresses : RowOK(Dns, reservation, gateway, b, row[b])
  BY DEF RowInv
<1>2. y \in RowType
  BY DEF RowOK, Grounded
<1>3. row'[a] = y /\ \A b \in Addresses : b # a => row'[b] = row[b]
  BY <1>1 DEF TypeOK
<1>4. /\ row' \in [Addresses -> RowType] /\ lease' \in [Addresses -> Clients \cup {None}]
      /\ sweep' \in [Addresses -> States \cup {"none", "gone"}] /\ awaiting' \in BOOLEAN
  BY <1>1, <1>2 DEF TypeOK
<1>5. \A b \in Addresses : RowOK(Dns, reservation, gateway, b, row'[b])
  BY <1>1, <1>3
<1>6. FactInv => \A b \in Addresses : FactOK(reservation, gateway, b, row'[b])
  BY <1>3, FactsNow
<1>7. \A b \in Addresses \ {a} : Ends(b)
  BY <1>3 DEF Ends, Kept, Stays
<1>8. RowInv' /\ (FactInv => ConfigHasItsRow')
  BY <1>4, <1>5, <1>6, RowStepKeeps
<1>9. QED
  BY <1>3, <1>7, <1>8

\* An IP Reservation takes a free address, or one already reserved for it.
LEMMA ReserveAddressKeeps ==
    ASSUME RowInv, NEW a \in Addresses, ReserveAddress(a)
    PROVE  RowInv' /\ KeepsFacts
<1> DEFINE x == Allocated(row[a], "reserved", "admin_reservation", 0)
           y == [x EXCEPT !.det = "none"]
<1>1. row[a] \in RowType
  BY DEF RowInv, TypeOK
<1>2. /\ 0 \in 0..NumRecords /\ "reserved" \in States /\ "admin_reservation" \in Sources
      /\ "none" \in Detections
  BY LifecycleAssumption DEF States, Sources, Detections
<1>3. x \in RowType /\ x.state = "reserved" /\ x.source = "admin_reservation"
  BY <1>1, <1>2, AllocatedFacts
<1>4. /\ row' = [row EXCEPT ![a] = y]
      /\ UNCHANGED <<record, zone, scope, gateway, reservation, lease, sweep, awaiting>>
  BY DEF ReserveAddress
<1>5. a # gateway /\ row[a].state \in {"unassigned", "reserved"}
  BY DEF ReserveAddress, AssertAllocationTransition, AllocationTransitions
<1> HIDE DEF x
<1>6. y \in RowType /\ y.state = "reserved" /\ y.source = "admin_reservation"
  BY <1>2, <1>3, DetFacts
<1> HIDE DEF y
<1>7. RowOK(Dns, reservation, gateway, a, y)
  BY <1>6 DEF RowOK, Grounded, IsDnsHold
<1>8. FactInv => FactOK(reservation, gateway, a, y)
  BY <1>5, FactsNow DEF FactOK
<1>9. /\ RowInv' /\ (FactInv => ConfigHasItsRow')
      /\ \A b \in Addresses \ {a} : Ends(b)
      /\ row'[a] = y
  BY <1>4, <1>7, <1>8, OneRowKeeps
<1>10. Ends(a)
  BY <1>5, <1>6, <1>9 DEF Ends, Kept, Stays
<1>11. QED
  BY <1>9, <1>10 DEF KeepsFacts

\* The one step that may end an IP Reservation, and only at its own address.
LEMMA ReleaseAddressKeeps ==
    ASSUME RowInv, NEW a \in Addresses, ReleaseAddress(a)
    PROVE  /\ RowInv' /\ (FactInv => ConfigHasItsRow')
           /\ \A b \in Addresses \ {a} : Ends(b)
           /\ Stays(a)
<1> DEFINE x == [Freed(row[a]) EXCEPT !.det = "none"]
           y == ReconcileDnsHold(Dns, a, x)
<1>1. row[a] \in RowType
  BY DEF RowInv, TypeOK
<1>2. /\ row' = [row EXCEPT ![a] = y]
      /\ UNCHANGED <<record, zone, scope, gateway, reservation, lease, sweep, awaiting>>
  BY DEF ReleaseAddress
<1>3. a # gateway /\ row[a].state \in {"unassigned", "reserved"}
  BY DEF ReleaseAddress, AssertAllocationTransition, AllocationTransitions
<1>4. "none" \in Detections
  BY DEF Detections
<1>5. x \in RowType /\ x.state = "unassigned" /\ x.source = "none"
  BY <1>1, <1>4, FreedFacts, DetFacts
<1> HIDE DEF x
<1>6. Grounded(Dns, reservation, gateway, a, x)
  BY <1>5 DEF Grounded
<1>7. FactInv => FactOK(reservation, gateway, a, x)
  BY <1>3, <1>5, FactsNow DEF FactOK
<1>8. RowOK(Dns, reservation, gateway, a, y) /\ (FactInv => FactOK(reservation, gateway, a, y))
  BY <1>6, <1>7, ReconciledRow
<1> HIDE DEF y
<1>9. Stays(a)
  BY <1>3 DEF Stays
<1>10. QED
  BY <1>2, <1>8, <1>9, OneRowKeeps

\* An observation writes detection_source only.
LEMMA ObserveKeeps ==
    ASSUME RowInv, NEW a \in Addresses, Observe(a)
    PROVE  RowInv' /\ KeepsFacts
<1> DEFINE y == [row[a] EXCEPT !.det = "observed"]
<1>1. row[a] \in RowType /\ RowOK(Dns, reservation, gateway, a, row[a])
  BY DEF RowInv, TypeOK
<1>2. /\ row' = [row EXCEPT ![a] = y]
      /\ UNCHANGED <<record, zone, scope, gateway, reservation, lease, sweep, awaiting>>
  BY DEF Observe
<1>3. "observed" \in Detections
  BY DEF Detections
<1>4. y \in RowType /\ y.state = row[a].state /\ y.source = row[a].source /\ y.id = row[a].id
  BY <1>1, <1>3, DetFacts
<1> HIDE DEF y
<1>5. RowOK(Dns, reservation, gateway, a, y)
  BY <1>1, <1>4 DEF RowOK, Grounded, IsDnsHold
<1>6. FactInv => FactOK(reservation, gateway, a, y)
  BY <1>4, FactsNow DEF FactOK
<1>7. /\ RowInv' /\ (FactInv => ConfigHasItsRow')
      /\ \A b \in Addresses \ {a} : Ends(b)
      /\ row'[a] = y
  BY <1>2, <1>5, <1>6, OneRowKeeps
<1>8. Ends(a)
  BY <1>4, <1>7 DEF Ends, Kept, Stays
<1>9. QED
  BY <1>7, <1>8 DEF KeepsFacts

\* The sweep's first transaction writes no row.
LEMMA BeginSweepKeeps ==
    ASSUME RowInv, NEW s \in SUBSET Addresses, BeginSweep(s)
    PROVE  RowInv' /\ KeepsFacts
<1>1. UNCHANGED <<record, zone, gateway, reservation, row>>
  BY DEF BeginSweep
<1>2. \A a \in Addresses : row[a].state \in States
  BY DEF RowInv, TypeOK, RowType
<1>3. sweep' \in [Addresses -> States \cup {"none", "gone"}]
  BY <1>2 DEF BeginSweep
<1>4. awaiting' \in BOOLEAN
  BY LifecycleAssumption DEF BeginSweep
<1>5. TypeOK'
  BY <1>3, <1>4 DEF BeginSweep, RowInv, TypeOK
<1>6. QED
  BY <1>1, <1>5, SameRowsKeep

\* Between the two transactions of a sweep that does not yield, nothing has
\* taken the addresses it is about to clear.
LEMMA FinishSweepKeeps ==
    ASSUME RowInv, NEW s \in SUBSET Addresses, FinishSweep(s)
    PROVE  RowInv' /\ KeepsFacts
<1>1. /\ TypeOK
      /\ \A b \in Addresses : RowOK(Dns, reservation, gateway, b, row[b]) /\ row[b] \in RowType
  BY DEF RowInv, RowOK, Grounded
<1>2. /\ \A a \in s : sweep[a] # "none"
      /\ sweep' = NoSweep /\ awaiting' = FALSE
      /\ UNCHANGED <<record, zone, scope, gateway, reservation>>
  BY DEF FinishSweep, facts
<1>3. /\ row' \in [Addresses -> RowType] /\ lease' \in [Addresses -> Clients \cup {None}]
      /\ \A a \in Addresses : row'[a] = row[a] \/ (a \in s /\ row'[a] = NoRow)
  BY <1>1, NoRowFacts DEF FinishSweep, TypeOK
<1>4. sweep' \in [Addresses -> States \cup {"none", "gone"}] /\ awaiting' \in BOOLEAN
  BY <1>2 DEF NoSweep
<1>5. \A a \in Addresses : RowOK(Dns, reservation, gateway, a, row'[a])
  BY <1>1, <1>3, NoRowFacts DEF RowOK, Grounded, IsDnsHold
<1>6. ASSUME FactInv, NEW a \in Addresses
      PROVE  FactOK(reservation, gateway, a, row'[a]) /\ Ends(a)
  <2>1. FactOK(reservation, gateway, a, row[a]) /\ Grounded(Dns, reservation, gateway, a, row[a])
    BY <1>1, <1>6, FactsNow DEF RowOK
  <2>2. CASE row'[a] = row[a]
    BY <2>1, <2>2 DEF Ends, Kept, Stays
  <2>3. CASE a \in s /\ row'[a] = NoRow
    <3>1. row[a].state \in {"dynamic_dhcp", "unassigned"}
      BY <1>2, <1>6, <2>3 DEF FactInv, SweepInv
    <3>2. QED
      BY <2>1, <2>3, <3>1 DEF FactOK, Ends, Kept, Stays, Grounded
  <2>4. QED
    BY <1>3, <2>2, <2>3
<1>7. RowInv' /\ (FactInv => ConfigHasItsRow')
  BY <1>2, <1>3, <1>4, <1>5, <1>6, RowStepKeeps
<1>8. QED
  BY <1>6, <1>7 DEF KeepsFacts

\* What the start leaves of a row.
LEMMA RestartedRow ==
    ASSUME NEW a \in Addresses, NEW v, NEW w, RowOK(Dns, v, gateway, a, w)
    PROVE  LET y == ReconcileStaticDnsAllocation(a, ReconcileDnsHold(Dns, a, w))
           IN  /\ RowOK(Dns, v, gateway, a, y)
               /\ FactOK(v, gateway, a, w) => FactOK(v, gateway, a, y)
               /\ w.source = "admin_reservation" \/ w.state = "static_dns" => y = w
<1> DEFINE x == ReconcileDnsHold(Dns, a, w)
           y == ReconcileStaticDnsAllocation(a, x)
           r == Lowest(Served(Dns, a))
<1>1. w \in RowType /\ Grounded(Dns, v, gateway, a, w)
  BY DEF RowOK, Grounded
<1>2. /\ RowOK(Dns, v, gateway, a, x)
      /\ FactOK(v, gateway, a, w) => FactOK(v, gateway, a, x)
  BY <1>1, ReconciledRow
<1>3. /\ w.source = "admin_reservation" => x = w /\ w.state = "reserved"
      /\ w.state = "static_dns" => x = w
  BY <1>1, ReconcileDnsHoldFacts DEF Grounded, IsDnsHold
<1> HIDE DEF x
<1>4. Grounded(Dns, v, gateway, a, x) /\ x \in RowType
  BY <1>2 DEF RowOK, Grounded
<1>5. CASE y = x
  BY <1>2, <1>3, <1>5 DEF x
<1>6. CASE y = ReconcileDnsHold(Dns, a, x)
  <2>1. /\ RowOK(Dns, v, gateway, a, y)
        /\ FactOK(v, gateway, a, x) => FactOK(v, gateway, a, y)
    BY <1>4, <1>6, ReconciledRow
  <2>2. w.source = "admin_reservation" \/ w.state = "static_dns" => y = w
    BY <1>3, <1>4, <1>6, ReconcileDnsHoldFacts DEF IsDnsHold
  <2>3. QED
    BY <1>2, <2>1, <2>2 DEF x
<1>7. CASE /\ Served(Dns, a) # {} /\ y = AllocateStaticDns(a, x, r)
           /\ x.state \in {"gateway", "unassigned"} \/ IsDnsHold(x)
  <2>1. r \in Served(Dns, a)
    <3>1. Served(Dns, a) \subseteq Records
      BY DEF Served, Named
    <3>2. QED
      BY <1>7, <3>1, LowestIn
  <2> HIDE DEF r
  <2>2. /\ Grounded(Dns, v, gateway, a, y) /\ y.state \in {"static_dns", "gateway"}
        /\ a = gateway => y.state = "gateway"
    BY <1>4, <1>7, <2>1, AllocateStaticDnsGrounded
  <2> HIDE DEF y
  <2>3. RowOK(Dns, v, gateway, a, y)
    BY <2>2 DEF RowOK, IsDnsHold
  <2>4. FactOK(v, gateway, a, x) => FactOK(v, gateway, a, y)
    BY <1>7, <2>2 DEF FactOK, IsDnsHold
  <2>5. w.source # "admin_reservation" /\ w.state # "static_dns"
    BY <1>3, <1>7 DEF IsDnsHold
  <2>6. QED
    BY <1>2, <2>3, <2>4, <2>5 DEF x, y
<1>8. QED
  BY <1>5, <1>6, <1>7 DEF ReconcileStaticDnsAllocation

\* The start keeps rows and facts together.
LEMMA RestartKeeps ==
    ASSUME RowInv, Restart
    PROVE  RowInv' /\ KeepsFacts
<1>1. /\ TypeOK
      /\ \A b \in Addresses : RowOK(Dns, reservation, gateway, b, row[b])
  BY DEF RowInv
<1>2. /\ row' = [a \in Addresses |->
                   ReconcileStaticDnsAllocation(a, ReconcileDnsHold(Dns, a, row[a]))]
      /\ sweep' = NoSweep /\ awaiting' = FALSE
      /\ UNCHANGED <<record, zone, scope, gateway, reservation, lease>>
  BY DEF Restart
<1>3. ASSUME NEW a \in Addresses
      PROVE  /\ RowOK(Dns, reservation, gateway, a, row'[a])
             /\ FactOK(reservation, gateway, a, row[a]) =>
                  FactOK(reservation, gateway, a, row'[a])
             /\ row[a].source = "admin_reservation" \/ row[a].state = "static_dns" =>
                  row'[a] = row[a]
  <2> DEFINE y == ReconcileStaticDnsAllocation(a, ReconcileDnsHold(Dns, a, row[a]))
  <2>1. row'[a] = y
    BY <1>2
  <2>2. RowOK(Dns, reservation, gateway, a, row[a])
    BY <1>1
  <2>3. /\ RowOK(Dns, reservation, gateway, a, y)
        /\ FactOK(reservation, gateway, a, row[a]) =>
             FactOK(reservation, gateway, a, y)
        /\ row[a].source = "admin_reservation" \/ row[a].state = "static_dns" => y = row[a]
    BY <2>2, RestartedRow
  <2> HIDE DEF y
  <2>4. QED
    BY <2>1, <2>3
<1>4. row' \in [Addresses -> RowType]
  BY <1>2, <1>3 DEF RowOK, Grounded
<1>5. /\ lease' \in [Addresses -> Clients \cup {None}] /\ awaiting' \in BOOLEAN
      /\ sweep' \in [Addresses -> States \cup {"none", "gone"}]
  BY <1>1, <1>2 DEF TypeOK, NoSweep
<1>6. /\ \A a \in Addresses : RowOK(Dns, reservation, gateway, a, row'[a])
      /\ FactInv => \A a \in Addresses : FactOK(reservation, gateway, a, row'[a])
  BY <1>3, FactsNow
<1>7. RowInv' /\ (FactInv => ConfigHasItsRow')
  BY <1>2, <1>4, <1>5, <1>6, RowStepKeeps
<1>8. \A a \in Addresses : Ends(a)
  BY <1>3 DEF Ends, Kept, Stays
<1>9. QED
  BY <1>7, <1>8 DEF KeepsFacts

-----------------------------------------------------------------------------
(* The sweep, when its releases are not awaited *)

\* No handler runs inside such a sweep.
LEMMA SweepKeeps ==
    ASSUME FactInv, ~AsyncRelease, Next
    PROVE  SweepInv'
<1>1. /\ ~awaiting /\ awaiting \in BOOLEAN
      /\ \A a \in Addresses : sweep[a] # "none" =>
           sweep[a] \in {"dynamic_dhcp", "unassigned"} /\ row[a].state = sweep[a]
  BY DEF FactInv, RowInv, TypeOK, SweepInv
<1>2. CASE sweep' = NoSweep /\ ~awaiting'
  BY <1>2 DEF SweepInv, NoSweep
<1>3. CASE Idle /\ UNCHANGED <<sweep, awaiting>>
  BY <1>1, <1>2, <1>3 DEF Idle
<1>4. CASE \E a \in Addresses : ExpireLease(a)
  BY <1>1, <1>4 DEF ExpireLease, SweepInv
<1>5. ASSUME NEW s \in SUBSET Addresses, BeginSweep(s)
      PROVE  SweepInv'
  BY <1>1, <1>5 DEF BeginSweep, SweepInv, RetirementCandidate
<1>6. CASE \/ DeleteReservation
           \/ \E c \in Clients, a \in Addresses, on, given \in BOOLEAN :
                UpdateReservation(c, a, on, given)
           \/ \E read \in [Addresses -> Clients \cup {None}], moved \in SUBSET Addresses :
                IngestLeases(read, moved)
  <2>1. Idle /\ UNCHANGED awaiting
    BY <1>6 DEF DeleteReservation, UpdateReservation, IngestLeases
  <2>2. sweep = NoSweep
    BY <1>1, <2>1 DEF Idle
  <2>3. \A a : ForgetRow(a) = NoSweep
    BY <2>2 DEF ForgetRow, Gone, NoSweep
  <2>4. \A moved : [a \in Addresses |-> IF a \in moved THEN Gone(sweep[a]) ELSE sweep[a]] = NoSweep
    BY <2>2 DEF Gone, NoSweep
  <2>5. sweep' = NoSweep
    BY <1>6, <2>2, <2>3, <2>4 DEF DeleteReservation, UpdateReservation, IngestLeases
  <2>6. QED
    BY <1>1, <1>2, <2>1, <2>5
<1>7. CASE Restart
  BY <1>2, <1>7 DEF Restart
<1>8. CASE \E s \in SUBSET Addresses : FinishSweep(s)
  BY <1>2, <1>8 DEF FinishSweep
<1>9. CASE \/ \E r \in Records, z \in Zones, n \in Names, a \in Addresses, on \in BOOLEAN :
                CreateRecord(r, z, n, a, on)
           \/ \E r \in Records, n \in Names, a \in Addresses, on \in BOOLEAN :
                UpdateRecord(r, n, a, on)
           \/ \E r \in Records : DeleteRecord(r)
           \/ \E z \in Zones, on \in BOOLEAN : UpdateZone(z, on)
           \/ \E z \in Zones : DeleteZone(z)
  <2>1. ASSUME NEW r \in Records, NEW z \in Zones, NEW n \in Names, NEW a \in Addresses,
               NEW on \in BOOLEAN, CreateRecord(r, z, n, a, on)
        PROVE  Idle /\ UNCHANGED <<sweep, awaiting>>
    BY <2>1 DEF CreateRecord
  <2>2. ASSUME NEW r \in Records, NEW n \in Names, NEW a \in Addresses, NEW on \in BOOLEAN,
               UpdateRecord(r, n, a, on)
        PROVE  Idle /\ UNCHANGED <<sweep, awaiting>>
    BY <2>2 DEF UpdateRecord
  <2>3. ASSUME NEW r \in Records, DeleteRecord(r)
        PROVE  Idle /\ UNCHANGED <<sweep, awaiting>>
    BY <2>3 DEF DeleteRecord
  <2>4. ASSUME NEW z \in Zones, NEW on \in BOOLEAN, UpdateZone(z, on)
        PROVE  Idle /\ UNCHANGED <<sweep, awaiting>>
    BY <2>4 DEF UpdateZone
  <2>5. ASSUME NEW z \in Zones, DeleteZone(z)
        PROVE  Idle /\ UNCHANGED <<sweep, awaiting>>
    BY <2>5 DEF DeleteZone
  <2>6. Idle /\ UNCHANGED <<sweep, awaiting>>
    BY <1>9, <2>1, <2>2, <2>3, <2>4, <2>5
  <2>7. QED
    BY <1>3, <2>6
<1>10. CASE \/ \E range \in SUBSET Addresses, on \in BOOLEAN : SaveScope(range, on)
            \/ DeleteScope
            \/ \E c \in Clients, a \in Addresses : CreateReservation(c, a)
            \/ \E g \in Addresses \cup {None} : UpdateGateway(g)
            \/ \E a \in Addresses : ReserveAddress(a) \/ ReleaseAddress(a) \/ Observe(a)
  BY <1>3, <1>10 DEF SaveScope, DeleteScope, CreateReservation, UpdateGateway,
                     ReserveAddress, ReleaseAddress, Observe
<1>11. QED
  BY <1>4, <1>5, <1>6, <1>7, <1>8, <1>9, <1>10 DEF Next

-----------------------------------------------------------------------------
(* Together *)

\* A fresh network.
LEMMA InitRows == Init => RowInv /\ FactInv
<1> SUFFICES ASSUME Init PROVE RowInv /\ FactInv
  OBVIOUS
<1>1. TypeOK
  BY NoRowFacts DEF Init, TypeOK, NoSweep
<1>2. \A a \in Addresses : row[a] = NoRow
  BY DEF Init
<1>3. \A a \in Addresses : Served(Dns, a) = {} /\ a # gateway /\ ~Reserved(reservation, a)
  BY LifecycleAssumption, NotReserved DEF Init, Served, Named, Dns
<1>4. \A a \in Addresses : RowOK(Dns, reservation, gateway, a, row[a])
  BY <1>2, NoRowFacts DEF RowOK, Grounded, IsDnsHold
<1>5. ConfigHasItsRow
  BY <1>3 DEF ConfigHasItsRow
<1>6. SweepInv
  BY DEF Init, SweepInv, NoSweep
<1>7. QED
  BY <1>1, <1>4, <1>5, <1>6 DEF RowInv, FactInv

\* A stuttering step.
LEMMA StutterRows ==
    ASSUME RowInv, UNCHANGED vars
    PROVE  RowInv' /\ (FactInv => FactInv')
<1>1. TypeOK'
  BY DEF RowInv, TypeOK, vars
<1>2. UNCHANGED <<record, zone, gateway, reservation, row>>
  BY DEF vars
<1>3. RowInv' /\ KeepsFacts
  BY <1>1, <1>2, SameRowsKeep
<1>4. SweepInv => SweepInv'
  BY DEF SweepInv, vars
<1>5. QED
  BY <1>3, <1>4 DEF KeepsFacts, FactInv

\* Every step, one action at a time.
LEMMA NextRows ==
    ASSUME RowInv, Next
    PROVE  /\ RowInv'
           /\ FactInv => /\ ConfigHasItsRow'
                         /\ \A a \in Addresses : (Kept(a) \/ ReleaseAddress(a)) /\ Stays(a)
<1> DEFINE Goal == /\ RowInv'
                   /\ FactInv =>
                        /\ ConfigHasItsRow'
                        /\ \A a \in Addresses : (Kept(a) \/ ReleaseAddress(a)) /\ Stays(a)
<1> SUFFICES Goal
  OBVIOUS
<1>0. RowInv' /\ KeepsFacts => Goal
  BY DEF KeepsFacts, Ends
<1>1. CASE \E r \in Records, z \in Zones, n \in Names, a \in Addresses, on \in BOOLEAN :
             CreateRecord(r, z, n, a, on)
  BY <1>0, <1>1, CreateRecordKeeps
<1>2. CASE \E r \in Records, n \in Names, a \in Addresses, on \in BOOLEAN :
             UpdateRecord(r, n, a, on)
  BY <1>0, <1>2, UpdateRecordKeeps
<1>3. CASE \E r \in Records : DeleteRecord(r)
  BY <1>0, <1>3, DeleteRecordKeeps
<1>4. CASE \E z \in Zones : DeleteZone(z)
  BY <1>0, <1>4, DeleteZoneKeeps
<1>5. CASE \E c \in Clients, a \in Addresses : CreateReservation(c, a)
  BY <1>0, <1>5, CreateReservationKeeps
<1>6. CASE \E c \in Clients, a \in Addresses, on, given \in BOOLEAN :
             UpdateReservation(c, a, on, given)
  BY <1>0, <1>6, UpdateReservationKeeps
<1>7. CASE DeleteReservation
  BY <1>0, <1>7, DeleteReservationKeeps
<1>8. CASE \E read \in [Addresses -> Clients \cup {None}], moved \in SUBSET Addresses :
             IngestLeases(read, moved)
  BY <1>0, <1>8, IngestLeasesKeeps
<1>9. CASE \/ \E range \in SUBSET Addresses, on \in BOOLEAN : SaveScope(range, on)
           \/ DeleteScope
           \/ \E a \in Addresses : ExpireLease(a)
  BY <1>0, <1>9, ScopeKeeps
<1>10. CASE \E g \in Addresses \cup {None} : UpdateGateway(g)
  BY <1>0, <1>10, UpdateGatewayKeeps
<1>11. CASE \E a \in Addresses : ReserveAddress(a)
  BY <1>0, <1>11, ReserveAddressKeeps
<1>12. CASE \E a \in Addresses : Observe(a)
  BY <1>0, <1>12, ObserveKeeps
<1>13. CASE \E s \in SUBSET Addresses : BeginSweep(s)
  BY <1>0, <1>13, BeginSweepKeeps
<1>14. CASE \E s \in SUBSET Addresses : FinishSweep(s)
  BY <1>0, <1>14, FinishSweepKeeps
<1>15. CASE Restart
  BY <1>0, <1>15, RestartKeeps
<1>16. CASE \E z \in Zones, on \in BOOLEAN : UpdateZone(z, on)
  BY <1>0, <1>16, UpdateZoneKeeps
<1>17. ASSUME NEW a \in Addresses, ReleaseAddress(a)
       PROVE  Goal
  <2>1. /\ RowInv' /\ (FactInv => ConfigHasItsRow')
        /\ \A b \in Addresses \ {a} : Ends(b)
        /\ Stays(a)
    BY <1>17, ReleaseAddressKeeps
  <2>2. \A b \in Addresses : (Kept(b) \/ ReleaseAddress(b)) /\ Stays(b)
    BY <1>17, <2>1 DEF Ends
  <2>3. QED
    BY <2>1, <2>2
<1> HIDE DEF Goal
<1>18. CASE \E a \in Addresses :
              ExpireLease(a) \/ ReserveAddress(a) \/ ReleaseAddress(a) \/ Observe(a)
  <2>1. PICK a \in Addresses :
           ExpireLease(a) \/ ReserveAddress(a) \/ ReleaseAddress(a) \/ Observe(a)
    BY <1>18
  <2>2. CASE ReleaseAddress(a)
    BY <1>17, <2>2
  <2>3. QED
    BY <1>9, <1>11, <1>12, <2>1, <2>2
<1>19. CASE \E s \in SUBSET Addresses : BeginSweep(s) \/ FinishSweep(s)
  BY <1>13, <1>14, <1>19
<1>20. QED
  BY <1>1, <1>2, <1>3, <1>4, <1>5, <1>6, <1>7, <1>8, <1>9, <1>10, <1>15, <1>16, <1>18, <1>19
     DEF Next

\* The inductive step where no await splits the sweep.
LEMMA NextFacts ==
    ASSUME ~AsyncRelease, FactInv, [Next]_vars
    PROVE  FactInv'
<1>1. RowInv
  BY DEF FactInv
<1>2. CASE Next
  BY <1>1, <1>2, NextRows, SweepKeeps DEF FactInv
<1>3. CASE UNCHANGED vars
  BY <1>1, <1>3, StutterRows
<1>4. QED
  BY <1>2, <1>3

\* Where one record is served, it is the only one.
LEMMA OnlyServed ==
    ASSUME NEW a, Cardinality(Served(Dns, a)) = 1
    PROVE  \A p, q \in Served(Dns, a) : p = q
<1> SUFFICES ASSUME NEW p \in Served(Dns, a), NEW q \in Served(Dns, a), p # q
             PROVE  FALSE
  OBVIOUS
<1>1. IsFiniteSet(Served(Dns, a))
  <2>1. Served(Dns, a) \subseteq 1..NumRecords
    BY DEF Served, Named, Records
  <2>2. IsFiniteSet(1..NumRecords)
    BY LifecycleAssumption, FS_Interval
  <2>3. QED
    BY <2>1, <2>2, FS_Subset
<1>2. {p} \cup {q} \subseteq Served(Dns, a)
  OBVIOUS
<1>3. Cardinality({p} \cup {q}) = 2
  <2>1. IsFiniteSet({p}) /\ Cardinality({p}) = 1
    BY FS_Singleton
  <2>2. q \notin {p}
    OBVIOUS
  <2>3. Cardinality({p} \cup {q}) = Cardinality({p}) + 1
    BY <2>1, <2>2, FS_AddElement
  <2>4. QED
    BY <2>1, <2>3
<1>4. Cardinality({p} \cup {q}) <= Cardinality(Served(Dns, a))
  BY <1>1, <1>2, FS_Subset
<1>5. QED
  BY <1>3, <1>4

\* A start leaves the holds exactly where ADR 004 wants them.
LEMMA RestartHolds ==
    ASSUME FactInv, PoolsAreFree, Restart, NEW a \in Addresses
    PROVE  HoldsExactly(a)'
<1> DEFINE w == row[a]
           x == ReconcileDnsHold(Dns, a, w)
           y == ReconcileStaticDnsAllocation(a, x)
           rs == IF a \in Pool(scope) THEN {} ELSE Unserved(Dns, a)
<1>1. /\ w \in RowType /\ FactOK(reservation, gateway, a, w)
      /\ Grounded(Dns, reservation, gateway, a, w)
  BY FactsNow DEF FactInv, RowInv, RowOK, Grounded
<1>2. row'[a] = y /\ UNCHANGED <<record, zone, scope>>
  BY DEF Restart
<1>3. (y.state = "unassigned" \/ IsDnsHold(y)) =>
        IF rs = {} THEN ~IsDnsHold(y) ELSE IsDnsHold(y) /\ y.id = Lowest(rs)
  <2>1. CASE w.state # "unassigned" /\ ~IsDnsHold(w)
    <3>1. x = w
      BY <1>1, <2>1, ReconcileDnsHoldFacts
    <3> HIDE DEF x
    <3>2. y = w \/ (y.state \in {"static_dns", "gateway"})
      <4>1. ReconcileDnsHold(Dns, a, w) = w
        BY <1>1, <2>1, ReconcileDnsHoldFacts
      <4>2. CASE Served(Dns, a) # {}
        <5>1. Served(Dns, a) \subseteq Records
          BY DEF Served, Named
        <5>2. Lowest(Served(Dns, a)) \in Served(Dns, a)
          BY <4>2, <5>1, LowestIn
        <5>3. AllocateStaticDns(a, w, Lowest(Served(Dns, a))).state \in {"static_dns", "gateway"}
          BY <1>1, <5>2, AllocateStaticDnsGrounded
        <5>4. QED
          BY <3>1, <4>1, <4>2, <5>3 DEF ReconcileStaticDnsAllocation
      <4>3. CASE Served(Dns, a) = {}
        BY <3>1, <4>1, <4>3 DEF ReconcileStaticDnsAllocation
      <4>4. QED
        BY <4>2, <4>3
    <3> HIDE DEF y
    <3>3. QED
      BY <2>1, <3>2 DEF IsDnsHold
  <2>2. CASE w.state = "unassigned" \/ IsDnsHold(w)
    <3>1. a # gateway
      BY <1>1, <2>2 DEF FactOK, IsDnsHold
    <3>2. Holders(Dns, a) = rs
      BY <3>1 DEF Holders
    <3> HIDE DEF rs
    <3>3. /\ x \in RowType
          /\ rs # {} => x.state = "reserved" /\ x.source = "dns" /\ x.id = Lowest(rs)
          /\ rs = {} => x.state = "unassigned"
      BY <1>1, <2>2, <3>2, ReconcileDnsHoldFacts
    <3> HIDE DEF x
    <3>4. CASE Served(Dns, a) = {}
      <4>1. y = x \/ y = ReconcileDnsHold(Dns, a, x)
        BY <3>4 DEF ReconcileStaticDnsAllocation
      <4> HIDE DEF y
      <4>2. /\ rs # {} => y.state = "reserved" /\ y.source = "dns" /\ y.id = Lowest(rs)
            /\ rs = {} => y.state = "unassigned"
        BY <3>2, <3>3, <4>1, ReconcileDnsHoldFacts DEF IsDnsHold
      <4>3. QED
        BY <4>2 DEF IsDnsHold
    <3>5. CASE Served(Dns, a) # {}
      <4>1. a \notin Pool(scope)
        BY <3>5 DEF PoolsAreFree
      <4>2. x.state = "unassigned" \/ IsDnsHold(x)
        BY <3>3 DEF IsDnsHold
      <4>3. MayAllocateStaticDns(a, x)
        BY <3>1, <4>1, <4>2 DEF MayAllocateStaticDns, AssertAllocationTransition,
                                AllocationTransitions, IsDnsHold
      <4>4. Served(Dns, a) \subseteq Named(Dns, a) /\ Served(Dns, a) \subseteq Records
        BY DEF Served, Named
      <4>5. y = AllocateStaticDns(a, x, Lowest(Served(Dns, a)))
        BY <3>5, <4>2, <4>3, <4>4 DEF ReconcileStaticDnsAllocation
      <4>6. Lowest(Served(Dns, a)) \in Served(Dns, a)
        BY <3>5, <4>4, LowestIn
      <4> HIDE DEF y
      <4>7. y.state = "static_dns"
        BY <3>1, <3>3, <4>5, <4>6, AllocateStaticDnsGrounded
      <4>8. QED
        BY <4>7 DEF IsDnsHold
    <3>6. QED
      BY <3>4, <3>5
  <2>3. QED
    BY <2>1, <2>2
<1> HIDE DEF y
<1>4. rs = (IF a \in Pool(scope) THEN {} ELSE Unserved(Dns, a))'
  BY <1>2 DEF Pool, Unserved, Served, Named, Dns
<1> HIDE DEF rs
<1>5. QED
  BY <1>2, <1>3, <1>4 DEF HoldsExactly, IsDnsHold

-----------------------------------------------------------------------------
(* The theorems *)

\* RowInv is inductive whatever the constants: every route, the sync, the sweep
\* (awaited or not) and the start leave each row grounded in a fact.
THEOREM RowInvariant == Spec => []RowInv
<1>1. Init => RowInv
  BY InitRows
<1>2. RowInv /\ [Next]_vars => RowInv'
  BY NextRows, StutterRows
<1>3. QED
  BY <1>1, <1>2, PTL DEF Spec

\* The lifecycle tables always hold what their columns allow: every write of
\* allocation_state and its source is one of the schema's values.
THEOREM LifecycleTypeCorrect == Spec => []TypeOK
<1>1. RowInv => TypeOK
  BY DEF RowInv
<1>2. QED
  BY <1>1, RowInvariant, PTL

\* No row claims an address for something that is not there: every release
\* path (record, zone, reservation, gateway, sweep, start) finds the row, even
\* where a sweep awaits its releases or two records give an address two names.
THEOREM RowsHaveFacts == Spec => []RowHasItsFact
<1>1. RowInv => RowHasItsFact
  BY DEF RowInv, RowHasItsFact, RowOK, Grounded
<1>2. QED
  BY <1>1, RowInvariant, PTL

\* FactInv is inductive where no release is awaited, whatever records share an
\* address.
THEOREM ConfigInvariant == ~AsyncRelease /\ Spec => []FactInv
<1> SUFFICES ASSUME ~AsyncRelease PROVE Spec => []FactInv
  OBVIOUS
<1>1. Init => FactInv
  BY InitRows
<1>2. FactInv /\ [Next]_vars => FactInv'
  BY NextFacts
<1>3. QED
  BY <1>1, <1>2, PTL DEF Spec

\* An enabled DHCP Reservation and the gateway have the row of their address, so
\* that the transition checks refuse every other claim on it: no DNS route, lease
\* sync, sweep or start takes the row from under them.
THEOREM ConfigHasRows == ~AsyncRelease /\ Spec => []ConfigHasItsRow
<1>1. FactInv => ConfigHasItsRow
  BY DEF FactInv
<1>2. QED
  BY <1>1, ConfigInvariant, PTL

\* Where no served record names the address, nothing but an administrator's
\* release, a DHCP Reservation or a new record ends an IP Reservation; and an only
\* served record keeps its row while a record is served there.
THEOREM ClaimsEndProperly == ~AsyncRelease /\ Spec => ClaimsEndWithTheirOwner
<1> SUFFICES ASSUME ~AsyncRelease PROVE Spec => ClaimsEndWithTheirOwner
  OBVIOUS
<1> DEFINE A == \A a \in Addresses :
                  /\ row[a].source = "admin_reservation" /\ Served(Dns, a) = {} =>
                       \/ row'[a].source = "admin_reservation"
                       \/ row'[a].state \in {"static_dhcp", "static_dns"}
                       \/ ReleaseAddress(a)
                  /\ row[a].state = "static_dns" /\ Cardinality(Served(Dns, a)) = 1
                       /\ Served(Dns, a)' # {} =>
                       row'[a].state \in {"static_dns", "gateway"}
<1>1. FactInv /\ [Next]_vars => [A]_vars
  <2> SUFFICES ASSUME FactInv, Next, NEW a \in Addresses
               PROVE  /\ row[a].source = "admin_reservation" /\ Served(Dns, a) = {} =>
                           \/ row'[a].source = "admin_reservation"
                           \/ row'[a].state \in {"static_dhcp", "static_dns"}
                           \/ ReleaseAddress(a)
                      /\ row[a].state = "static_dns" /\ Cardinality(Served(Dns, a)) = 1
                           /\ Served(Dns, a)' # {} =>
                           row'[a].state \in {"static_dns", "gateway"}
    OBVIOUS
  <2>1. RowInv
    BY DEF FactInv
  <2>2. (Kept(a) \/ ReleaseAddress(a)) /\ Stays(a)
    BY <2>1, NextRows
  <2>3. Served(Dns, a)' = Served(Dns', a)
    BY DEF Served, Named, Dns
  <2>4. Cardinality(Served(Dns, a)) = 1 => \A p, q \in Served(Dns, a) : p = q
    BY OnlyServed
  <2>5. QED
    BY <2>2, <2>3, <2>4 DEF Kept, Stays
<1>2. QED
  BY <1>1, ConfigInvariant, PTL DEF Spec, ClaimsEndWithTheirOwner

\* A start (reconcileDnsHolds, then reconcileStaticDnsAllocations) brings every
\* address to ADR 004's rule, whatever scopes, leases and twin records did to it.
THEOREM RestartRestoresHolds == ~AsyncRelease /\ Spec => RestartConverges
<1> DEFINE A == Restart => (\A a \in Addresses : HoldsExactly(a))'
<1>1. FactInv /\ PoolsAreFree => [A]_vars
  <2> SUFFICES ASSUME FactInv, PoolsAreFree, Restart
               PROVE  (\A a \in Addresses : HoldsExactly(a))'
    OBVIOUS
  <2>1. \A a \in Addresses : HoldsExactly(a)'
    BY RestartHolds
  <2>2. QED
    BY <2>1
<1>2. QED
  BY <1>1, ConfigInvariant, PoolsStayFree, PTL DEF Spec, RestartConverges
=============================================================================
