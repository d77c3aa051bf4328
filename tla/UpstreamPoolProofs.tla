------------------------- MODULE UpstreamPoolProofs -------------------------
(***************************************************************************)
(* What UpstreamPool's runs check on a small instance, proved for any      *)
(* queries, addresses, id space, retries and time limits: type             *)
(* correctness, the four safety invariants and the refinement of           *)
(* Resolution.  All of it rests on PoolInv, which says how the calls, the  *)
(* connections, the pool's map and the frames on the wire fit together.    *)
(*                                                                         *)
(* Two lemmas carry the induction.  AttemptKeeps: attempt(), the only step *)
(* that takes a connection and an id, keeps PoolInv; query() and its       *)
(* continuation are instances.  EventKeeps: an event that settles calls    *)
(* and takes connections down keeps it; the socket events, the timers and  *)
(* closeAll() are instances.                                               *)
(***************************************************************************)
EXTENDS UpstreamPool, TLAPS, WellFoundedInduction, FiniteSetTheorems

\* Every nonempty set of naturals has a least element.
LEMMA NatMin ==
    ASSUME NEW S, S \subseteq Nat, S # {}
    PROVE  \E m \in S : \A n \in S : m <= n
<1> DEFINE R == OpToRel(<, Nat)
<1>1. \A x, y \in S : x < y => <<x, y>> \in R
  BY DEF OpToRel
<1> HIDE DEF R
<1>2. IsWellFoundedOn(R, Nat)
  BY NatLessThanWellFounded DEF R
<1>3. PICK m \in S : \A y \in S : ~ (<<y, m>> \in R)
  BY <1>2, WFMin
<1>4. \A n \in S : ~(n < m)
  BY <1>1, <1>3
<1>5. QED
  BY <1>4

\* The constants.
LEMMA PoolConstants ==
    /\ NumIds \in Nat \ {0} /\ Timeout \in Nat \ {0} /\ Budget \in Nat \ {0}
    /\ ClosedRetries \in Nat /\ MaxTime \in Nat /\ MaxConns \in Nat
    /\ 0 \in Ids
    /\ \A x \in Nat : x % NumIds \in Ids
<1>1. /\ NumIds \in Nat \ {0} /\ Timeout \in Nat \ {0} /\ Budget \in Nat \ {0}
      /\ ClosedRetries \in Nat /\ MaxTime \in Nat /\ MaxConns \in Nat
  BY PoolAssumption
<1>2. QED
  BY <1>1 DEF Ids

\* allocateId gives an id no call in flight has, when there is one.
LEMMA AllocateIdFacts ==
    ASSUME NEW c, NEW k \in ConnType, FreeIds(c, k) # {}
    PROVE  /\ AllocateId(c, k) \in Ids
           /\ \A p \in InFlight(c) : call[p].id # AllocateId(c, k)
<1>1. FreeIds(c, k) \subseteq Nat /\ k.nextId \in Nat
  BY DEF FreeIds, Ids, ConnType
<1>2. \E i \in FreeIds(c, k) : \A j \in FreeIds(c, k) : i <= j
  BY <1>1, NatMin
<1> DEFINE i == CHOOSE i \in FreeIds(c, k) : \A j \in FreeIds(c, k) : i <= j
<1>3. i \in FreeIds(c, k)
  BY <1>2
<1>4. AllocateId(c, k) = (k.nextId + i) % NumIds
  BY DEF AllocateId
<1> HIDE DEF i
<1>5. i \in Nat
  BY <1>1, <1>3
<1>6. k.nextId + i \in Nat
  BY <1>1, <1>5
<1>7. (k.nextId + i) % NumIds \in Ids
  BY <1>6, PoolConstants
<1>8. QED
  BY <1>3, <1>4, <1>7 DEF FreeIds

\* A call that settles keeps what query() needs to go on.
LEMMA SettleFacts ==
    ASSUME NEW r \in CallType, NEW x \in Results
    PROVE  /\ Settle(r, x) \in CallType
           /\ Settle(r, x).phase = "settled" /\ Settle(r, x).result = x
           /\ Settle(r, x).list = r.list /\ Settle(r, x).at = r.at
           /\ Settle(r, x).deadline = r.deadline
           /\ Settle(r, x).resent = r.resent /\ Settle(r, x).retry = r.retry
<1>1. 0 \in Ids /\ 0 \in 0..MaxTime
  BY PoolConstants
<1>2. Settle(r, x) \in CallType
  BY <1>1 DEF Settle, CallType
<1>3. QED
  BY <1>2 DEF Settle, CallType

\* A new connection, and one that has ended.
LEMMA NewConnectionFacts ==
    ASSUME NEW kind \in {"dot", "h2", "h1"}
    PROVE  /\ NewConnection(kind) \in ConnType
           /\ NewConnection(kind).kind = kind /\ NewConnection(kind).state = "up"
           /\ NewConnection(kind).open <=> kind = "h1"
           /\ ~NewConnection(kind).draining
           /\ NewConnection(kind).failure = "none" /\ NewConnection(kind).wire = {}
<1>1. (kind = "h1") \in BOOLEAN
  OBVIOUS
<1>2. NewConnection(kind) \in ConnType
  BY <1>1, PoolConstants DEF NewConnection, ConnType
<1>3. QED
  BY <1>2 DEF NewConnection

\* A connection that has ended: neither open nor draining, with nothing on the wire.
LEMMA EndedFacts ==
    /\ EndedConnection \in ConnType
    /\ EndedConnection.kind = "dot" /\ EndedConnection.state = "ended"
    /\ ~EndedConnection.open /\ ~EndedConnection.draining
    /\ EndedConnection.failure = "none" /\ EndedConnection.wire = {}
BY NewConnectionFacts DEF EndedConnection, ConnType

\* close() of a connection.
LEMMA ClosedFacts ==
    ASSUME NEW k \in ConnType
    PROVE  /\ Closed(k) \in ConnType
           /\ k.state = "ended" \/ k.kind = "h1" => Closed(k) = EndedConnection
           /\ ~(k.state = "ended" \/ k.kind = "h1") =>
                /\ Closed(k).kind = k.kind /\ Closed(k).state = "closing"
                /\ Closed(k).open = k.open /\ Closed(k).draining = k.draining
                /\ Closed(k).failure = k.failure /\ Closed(k).wire = {}
BY EndedFacts DEF Closed, ConnType

\* What a query in flight fails with.
LEMMA EndFailureFacts ==
    ASSUME NEW k \in ConnType
    PROVE  /\ EndFailure(k) \in Fails
           /\ EndFailure(k) = "downgrade" => k.failure = "downgrade"
BY DEF EndFailure, ConnType, Fails

-----------------------------------------------------------------------------
(* The inductive invariant *)

\* A call in flight, and one whose continuation is pending.
Waiting(q) == call[q].phase = "wait"
Settled(q) == call[q].phase = "settled"

\* query()'s calls: none has another's answer, and one in flight is on a connection to
\* the address it is at.
CallInv ==
    \A q \in Queries :
      /\ call[q].result # "wrong"
      /\ call[q].phase = "idle" => call[q] = NoCall
      /\ Waiting(q) \/ Settled(q) => call[q].at \in 1..Len(call[q].list)
      /\ Waiting(q) => /\ call[q].on \in Conns
                       /\ call[q].on[1] = call[q].list[call[q].at]

\* The connections: each kind belongs to its protocol, only an open one drains, and
\* an HTTP/1.1 agent is up until it is closed.
ConnInv ==
    \A c \in Conns :
      /\ conn[c].draining => conn[c].open
      /\ conn[c].kind = "h1" => conn[c].open /\ conn[c].state = "up"
      /\ conn[c].kind = "h2" => protocol = "doh"
      /\ conn[c].kind = "dot" /\ conn[c].state # "ended" => protocol = "dot"

\* The map: an address's entry is a connection to it, every connection in service is
\* in it, and one refused for speaking only HTTP/1.1 stays in it until its 'close'
\* (so that no second session is opened beside it), unless closeAll() clears the map.
MapInv ==
    /\ \A a \in Addresses : connections[a] # None => connections[a][1] = a
    /\ \A c \in Conns :
         /\ conn[c].state = "up" /\ ~conn[c].draining => connections[c[1]] = c
         /\ conn[c].failure = "downgrade" =>
              /\ conn[c].kind = "h2" /\ conn[c].state = "closing"
              /\ ~conn[c].open /\ ~conn[c].draining
              /\ ~retired => connections[c[1]] = c

\* The frames of a DoT connection that is up: each belongs to a call in flight on it
\* with its id, and no two calls in flight have the same id.
WireInv ==
    \A c \in Conns : conn[c].kind = "dot" /\ conn[c].state = "up" =>
      /\ \A f \in conn[c].wire : f.query \in InFlight(c) /\ call[f.query].id = f.id
      /\ \A p, q \in InFlight(c) : call[p].id = call[q].id => p = q

\* No query can be put on an HTTP/2 session to a any more.
NoSession(a) ==
    connections[a] # None /\ Usable(connections[a]) => conn[connections[a]].kind # "h2"

\* Downgrades, before closeAll(): a call resent for one is not on an HTTP/2 session again, so that it
\* cannot be refused twice; and while one waits to be acted on, its address has no
\* session and nothing else settled but its companions, or their own timeouts.
DowngradeInv ==
    ~retired => \A q \in Queries :
      /\ Waiting(q) /\ call[q].resent /\ call[q].retry = 0 => conn[call[q].on].kind # "h2"
      /\ Settled(q) /\ call[q].resent /\ call[q].retry = 0 => call[q].result # "downgrade"
      /\ Settled(q) /\ call[q].result = "downgrade" =>
           /\ protocol = "doh"
           /\ NoSession(call[q].list[call[q].at])
           /\ \A p \in Queries : Settled(p) => call[p].result \in {"downgrade", "timeout"}

\* The inductive invariant.
PoolInv ==
    /\ TypeOK
    /\ CallInv
    /\ WaitingIsWatched
    /\ ConnInv
    /\ MapInv
    /\ WireInv
    /\ DowngradeInv
    /\ DowngradeIsResent

-----------------------------------------------------------------------------
\* r went on: it is still the same send of the same query.
Goes(x, r) ==
    /\ x.list = r.list /\ x.at = r.at /\ x.deadline = r.deadline
    /\ x.resent = r.resent /\ x.retry = r.retry

\* y is k but for its ids and its frames.
Alike(y, k) ==
    /\ y.kind = k.kind /\ y.state = k.state /\ y.open = k.open
    /\ y.draining = k.draining /\ y.failure = k.failure

\* What a send leaves: x, the call, and y, its connection.
Sent(q, x, c, k, y) ==
    \/ x.phase = "settled" /\ x.result = "closed" /\ k.kind = "dot" /\ y = k
    \/ /\ x.phase = "wait" /\ x.result = "none" /\ x.on = c
       /\ clock <= x.timer /\ x.timer <= x.deadline
       /\ y.wire = k.wire \cup {[id |-> x.id, query |-> q]}
       /\ k.kind = "dot" => \A p \in InFlight(c) : call[p].id # x.id

\* send() settles the call with CLOSED (a DoT connection out of ids), or leaves it
\* waiting with an id no call in flight has and a timer due by its deadline.
LEMMA SendFacts ==
    ASSUME clock \in 0..MaxTime, NEW q \in Queries, NEW r \in CallType,
           NEW c \in Conns, NEW k \in ConnType, clock < r.deadline, Send(q, r, c, k)
    PROVE  \E x \in CallType, y \in ConnType :
             /\ call' = [call EXCEPT ![q] = x] /\ conn' = [conn EXCEPT ![c] = y]
             /\ Goes(x, r) /\ Alike(y, k) /\ Sent(q, x, c, k, y)
<1>1. CASE k.kind = "dot" /\ FreeIds(c, k) = {}
  <2> DEFINE x == Settle(r, "closed")
  <2>1. x \in CallType /\ x.phase = "settled" /\ x.result = "closed" /\ Goes(x, r)
    BY SettleFacts DEF Goes, Results, Fails
  <2>2. call' = [call EXCEPT ![q] = x] /\ conn' = [conn EXCEPT ![c] = k]
    BY <1>1 DEF Send
  <2>3. Sent(q, x, c, k, k) /\ Alike(k, k)
    BY <1>1, <2>1 DEF Sent, Alike
  <2> HIDE DEF x
  <2>4. QED
    BY <2>1, <2>2, <2>3
<1>2. CASE ~(k.kind = "dot" /\ FreeIds(c, k) = {})
  <2> DEFINE id == IF k.kind = "dot" THEN AllocateId(c, k) ELSE 0
             t == clock + Least(Timeout, r.deadline - clock)
             x == [r EXCEPT !.phase = "wait", !.result = "none", !.on = c, !.id = id,
                            !.timer = t]
             y == [k EXCEPT !.nextId = (id + 1) % NumIds,
                            !.wire = @ \cup {[id |-> id, query |-> q]}]
  <2>1. /\ id \in Ids
        /\ k.kind = "dot" => \A p \in InFlight(c) : call[p].id # id
    BY <1>2, AllocateIdFacts, PoolConstants
  <2>2. call' = [call EXCEPT ![q] = x] /\ conn' = [conn EXCEPT ![c] = y]
    BY <1>2 DEF Send
  <2> HIDE DEF id
  <2>3. (id + 1) % NumIds \in Ids
    BY <2>1, PoolConstants DEF Ids
  <2>4. r.deadline \in 0..MaxTime
    BY DEF CallType
  <2>5. t \in 0..MaxTime /\ clock <= t /\ t <= r.deadline
    BY <2>4, PoolConstants DEF Least
  <2> HIDE DEF t
  <2>6. x \in CallType
    BY <2>1, <2>5 DEF CallType, Results
  <2>7. Goes(x, r) /\ x.phase = "wait" /\ x.result = "none" /\ x.on = c /\ x.id = id /\ x.timer = t
    BY DEF Goes, CallType
  <2>8. [id |-> id, query |-> q] \in [id : Ids, query : Queries]
    BY <2>1
  <2>9. y \in ConnType
    BY <2>3, <2>8 DEF ConnType
  <2>10. Alike(y, k) /\ y.wire = k.wire \cup {[id |-> id, query |-> q]}
    BY DEF Alike, ConnType
  <2> HIDE DEF x, y
  <2>11. Sent(q, x, c, k, y)
    BY <2>1, <2>5, <2>7, <2>10 DEF Sent, Goes
  <2>12. QED
    BY <2>2, <2>6, <2>7, <2>9, <2>10, <2>11
<1>3. QED
  BY <1>1, <1>2

\* The connection an attempt takes: the one in the map, or a new one.
Taken(c, k, a, h1) ==
    \/ connections[a] = c /\ Usable(c) /\ k = conn[c]
    \/ /\ ~(connections[a] # None /\ Usable(connections[a]))
       /\ conn[c].state = "ended"
       /\ k = NewConnection(KindFor(a, h1))

\* connectionFor() hands out a connection to the address asked for.
LEMMA ConnectionForFacts ==
    ASSUME TypeOK, MapInv, NEW a \in Addresses, NEW h1,
           NEW ck \in ConnectionFor(a, h1)
    PROVE  /\ ck[1] \in Conns /\ ck[1][1] = a
           /\ ck[2] \in ConnType
           /\ Taken(ck[1], ck[2], a, h1)
<1>1. CASE connections[a] # None /\ Usable(connections[a])
  <2>1. ck = <<connections[a], conn[connections[a]]>>
    BY <1>1 DEF ConnectionFor
  <2>2. connections[a] \in Conns /\ connections[a][1] = a
    BY <1>1 DEF TypeOK, MapInv
  <2>3. QED
    BY <1>1, <2>1, <2>2 DEF Taken, TypeOK
<1>2. CASE ~(connections[a] # None /\ Usable(connections[a]))
  <2>1. PICK c \in FreeConns(a) : ck = <<c, NewConnection(KindFor(a, h1))>>
    BY <1>2 DEF ConnectionFor
  <2>2. c \in Conns /\ c[1] = a /\ conn[c].state = "ended"
    BY DEF FreeConns, Conns
  <2>3. KindFor(a, h1) \in {"dot", "h2", "h1"}
    BY DEF KindFor
  <2>4. NewConnection(KindFor(a, h1)) \in ConnType
    BY <2>3, NewConnectionFacts
  <2>5. QED
    BY <1>2, <2>1, <2>2, <2>4 DEF Taken
<1>3. QED
  BY <1>1, <1>2

\* attempt() settles the call with TIMEOUT, or sends it on a connection to its
\* address, which is then the one in the map.
LEMMA AttemptFacts ==
    ASSUME TypeOK, MapInv, NEW q \in Queries, NEW r \in CallType,
           r.at \in 1..Len(r.list), NEW h1, Attempt(q, r, h1)
    PROVE  /\ http1Only' = h1
           /\ r.list[r.at] \in Addresses
           /\ \E x \in CallType :
                /\ call' = [call EXCEPT ![q] = x] /\ Goes(x, r)
                /\ \/ /\ x.phase = "settled" /\ x.result = "timeout"
                      /\ UNCHANGED <<conn, connections>>
                   \/ \E c \in Conns, k \in ConnType, y \in ConnType :
                        /\ c[1] = r.list[r.at] /\ Taken(c, k, r.list[r.at], h1)
                        /\ connections' = [connections EXCEPT ![r.list[r.at]] = c]
                        /\ conn' = [conn EXCEPT ![c] = y]
                        /\ Alike(y, k) /\ Sent(q, x, c, k, y)
<1> DEFINE a == r.list[r.at]
<1>1. r.list \in Seq(Addresses)
  BY DEF CallType
<1>2. a \in Addresses
  BY <1>1
<1>3. CASE r.deadline <= clock /\ call' = [call EXCEPT ![q] = Settle(r, "timeout")] /\ UNCHANGED <<conn, connections>>
  <2> DEFINE x == Settle(r, "timeout")
  <2>1. x \in CallType /\ x.phase = "settled" /\ x.result = "timeout" /\ Goes(x, r)
    BY SettleFacts DEF Goes, Results, Fails
  <2> HIDE DEF x
  <2>2. QED
    BY <1>2, <1>3, <2>1 DEF Attempt, x
<1>4. CASE /\ r.deadline > clock
          /\ \E ck \in ConnectionFor(a, h1) :
                /\ connections' = [connections EXCEPT ![a] = ck[1]]
                /\ Send(q, r, ck[1], ck[2])
  <2>1. PICK ck \in ConnectionFor(a, h1) :
                /\ connections' = [connections EXCEPT ![a] = ck[1]]
                /\ Send(q, r, ck[1], ck[2])
    BY <1>4
  <2> DEFINE c == ck[1]
             k == ck[2]
  <2>2. c \in Conns /\ c[1] = a /\ k \in ConnType /\ Taken(c, k, a, h1)
    BY <1>2, ConnectionForFacts
  <2>3. clock \in 0..MaxTime /\ clock < r.deadline /\ Send(q, r, c, k)
    BY <1>4, <2>1 DEF TypeOK, CallType
  <2> HIDE DEF c, k
  <2>4. \E x \in CallType, y \in ConnType :
             /\ call' = [call EXCEPT ![q] = x] /\ conn' = [conn EXCEPT ![c] = y]
             /\ Goes(x, r) /\ Alike(y, k) /\ Sent(q, x, c, k, y)
    BY <2>2, <2>3, SendFacts
  <2>5. http1Only' = h1 /\ connections' = [connections EXCEPT ![a] = c]
    BY <2>1 DEF Attempt, c
  <2> HIDE DEF a
  <2>6. QED
    BY <1>2, <2>2, <2>4, <2>5 DEF a
<1>5. QED
  BY <1>3, <1>4 DEF Attempt

\* A connection is not the map's "no connection".
LEMMA ConnsAreNotNone ==
    \A c \in Conns : c # None
<1>1. \A c \in Conns : Len(c) = 2
  BY DEF Conns
<1>2. Len(None) = 0
  BY DEF None
<1>3. QED
  BY <1>1, <1>2

\* attempt() keeps the invariant, for a call that is not in flight.  A query resent
\* after a downgrade goes to an address known to speak only HTTP/1.1; any other
\* attempt comes when no downgrade waits to be acted on.
LEMMA AttemptKeeps ==
    ASSUME PoolInv, NEW q \in Queries, ~Waiting(q), NEW r \in CallType,
           r.at \in 1..Len(r.list), NEW h1 \in SUBSET Addresses, Attempt(q, r, h1),
           UNCHANGED <<protocol, retired, clock>>,
           ~retired /\ r.resent /\ r.retry = 0 => r.list[r.at] \in h1 /\ NoSession(r.list[r.at]),
           \/ retired \/ r.list[r.at] \in h1
           \/ \A p \in Queries \ {q} : ~(Settled(p) /\ call[p].result = "downgrade")
    PROVE  PoolInv'
<1> DEFINE a == r.list[r.at]
<1>0. TypeOK /\ MapInv
  BY DEF PoolInv
<1>1. PICK x \in CallType :
        /\ call' = [call EXCEPT ![q] = x] /\ Goes(x, r)
        /\ \/ /\ x.phase = "settled" /\ x.result = "timeout"
              /\ UNCHANGED <<conn, connections>>
           \/ \E c \in Conns, k \in ConnType, y \in ConnType :
                /\ c[1] = a /\ Taken(c, k, a, h1)
                /\ connections' = [connections EXCEPT ![a] = c]
                /\ conn' = [conn EXCEPT ![c] = y]
                /\ Alike(y, k) /\ Sent(q, x, c, k, y)
  BY <1>0, AttemptFacts
<1>2. http1Only' = h1 /\ a \in Addresses
  BY <1>0, AttemptFacts
<1>3. call'[q] = x /\ \A p \in Queries : p # q => call'[p] = call[p]
  BY <1>0, <1>1 DEF TypeOK
<1>4. call' \in [Queries -> CallType]
  BY <1>0, <1>1 DEF TypeOK
<1>5. CASE x.phase = "settled" /\ x.result = "timeout" /\ UNCHANGED <<conn, connections>>
  <2>1. TypeOK'
    BY <1>0, <1>2, <1>4, <1>5 DEF TypeOK
  <2>2. CallInv'
    BY <1>1, <1>3, <1>5 DEF PoolInv, CallInv, Waiting, Settled, Goes
  <2>3. WaitingIsWatched'
    BY <1>3, <1>5 DEF PoolInv, WaitingIsWatched
  <2>4. ConnInv' /\ MapInv'
    BY <1>5 DEF PoolInv, ConnInv, MapInv
  <2>5. \A d : InFlight(d)' = InFlight(d)
    BY <1>3, <1>5 DEF InFlight, Waiting
  <2>6. WireInv'
    BY <1>3, <1>5, <2>5 DEF PoolInv, WireInv, InFlight
  <2>7. \A b : NoSession(b)' <=> NoSession(b)
    BY <1>5 DEF NoSession, Usable
  <2>8. DowngradeInv'
    BY <1>3, <1>5, <2>7 DEF PoolInv, DowngradeInv, Waiting, Settled
  <2>9. DowngradeIsResent'
    BY <1>3, <1>5 DEF PoolInv, DowngradeIsResent
  <2>10. QED
    BY <2>1, <2>2, <2>3, <2>4, <2>6, <2>8, <2>9 DEF PoolInv
<1>6. ASSUME NEW c \in Conns, NEW k \in ConnType, NEW y \in ConnType,
             c[1] = a, Taken(c, k, a, h1),
             connections' = [connections EXCEPT ![a] = c],
             conn' = [conn EXCEPT ![c] = y],
             Alike(y, k), Sent(q, x, c, k, y)
      PROVE  PoolInv'
  <2>1. /\ conn'[c] = y /\ \A d \in Conns : d # c => conn'[d] = conn[d]
        /\ conn' \in [Conns -> ConnType]
    BY <1>0, <1>6 DEF TypeOK
  <2>2. /\ connections'[a] = c /\ \A b \in Addresses : b # a => connections'[b] = connections[b]
        /\ connections' \in [Addresses -> Conns \cup {None}]
    BY <1>0, <1>2, <1>6 DEF TypeOK
  <2>3. KindFor(a, h1) \in {"dot", "h2", "h1"} 
    BY DEF KindFor
  <2>4. /\ c # None /\ y.kind = k.kind /\ y.state = k.state /\ y.open = k.open
        /\ y.draining = k.draining /\ y.failure = k.failure
    <3>1. c # None
      BY ConnsAreNotNone
    <3>2. QED
      BY <1>6, <3>1 DEF Alike
  <2>5. \/ connections[a] = c /\ Usable(c) /\ k = conn[c] /\ k.state # "ended"
        \/ /\ ~(connections[a] # None /\ Usable(connections[a]))
           /\ conn[c].state = "ended" /\ InFlight(c) = {}
           /\ k.kind = KindFor(a, h1) /\ k.state = "up" /\ (k.open <=> k.kind = "h1")
           /\ ~k.draining /\ k.failure = "none" /\ k.wire = {}
    <3>1. CASE connections[a] = c /\ Usable(c) /\ k = conn[c]
      BY <3>1 DEF Usable
    <3>2. CASE /\ ~(connections[a] # None /\ Usable(connections[a]))
               /\ conn[c].state = "ended"
               /\ k = NewConnection(KindFor(a, h1))
      <4>1. InFlight(c) = {}
        BY <3>2 DEF PoolInv, WaitingIsWatched, InFlight
      <4>2. QED
        BY <2>3, <3>2, <4>1, NewConnectionFacts
    <3>3. QED
      BY <1>6, <3>1, <3>2 DEF Taken
  <2>6. /\ KindFor(a, h1) = "h2" => protocol = "doh" /\ a \notin h1
        /\ KindFor(a, h1) = "dot" <=> protocol = "dot"
        /\ protocol \in {"dot", "doh"}
    BY <1>0 DEF KindFor, TypeOK
  <2>7. \/ x.phase = "settled" /\ x.result = "closed" /\ k.kind = "dot" /\ y = k
        \/ /\ x.phase = "wait" /\ x.result = "none" /\ x.on = c
           /\ clock <= x.timer /\ x.timer <= x.deadline
           /\ y.wire = k.wire \cup {[id |-> x.id, query |-> q]}
           /\ k.kind = "dot" => \A p \in InFlight(c) : call[p].id # x.id
    BY <1>6 DEF Sent
  <2> HIDE DEF a
  <2>8. TypeOK'
    BY <1>0, <1>2, <1>4, <2>1, <2>2 DEF TypeOK
  <2>9. CallInv'
    <3> SUFFICES ASSUME NEW p \in Queries
                 PROVE  /\ call'[p].result # "wrong"
                        /\ call'[p].phase = "idle" => call'[p] = NoCall
                        /\ Waiting(p)' \/ Settled(p)' => call'[p].at \in 1..Len(call'[p].list)
                        /\ Waiting(p)' => /\ call'[p].on \in Conns
                                          /\ call'[p].on[1] = call'[p].list[call'[p].at]
      BY DEF CallInv, NoCall
    <3>1. CASE p = q
      BY <1>1, <1>3, <1>6, <2>7, <3>1 DEF Waiting, Settled, Goes, a
    <3>2. CASE p # q
      BY <1>3, <3>2 DEF PoolInv, CallInv, Waiting, Settled
    <3>3. QED
      BY <3>1, <3>2
  <2>10. WaitingIsWatched'
    <3> SUFFICES ASSUME NEW p \in Queries, call'[p].phase = "wait"
                 PROVE  /\ conn'[call'[p].on].state # "ended"
                        /\ clock <= call'[p].timer /\ call'[p].timer <= call'[p].deadline
      BY DEF WaitingIsWatched
    <3>1. CASE p = q
      BY <1>3, <2>1, <2>4, <2>5, <2>7, <3>1
    <3>2. CASE p # q
      <4>1. /\ call'[p] = call[p] /\ call[p].on \in Conns /\ conn[call[p].on].state # "ended"
            /\ clock <= call[p].timer /\ call[p].timer <= call[p].deadline
        BY <1>3, <3>2 DEF PoolInv, WaitingIsWatched, CallInv, Waiting
      <4>2. QED
        BY <2>1, <2>4, <2>5, <4>1
    <3>3. QED
      BY <3>1, <3>2
  <2>11. ConnInv'
    <3> SUFFICES ASSUME NEW d \in Conns
                 PROVE  /\ conn'[d].draining => conn'[d].open
                        /\ conn'[d].kind = "h1" => conn'[d].open /\ conn'[d].state = "up"
                        /\ conn'[d].kind = "h2" => protocol' = "doh"
                        /\ conn'[d].kind = "dot" /\ conn'[d].state # "ended"
                             => protocol' = "dot"
      BY DEF ConnInv
    <3>1. /\ conn[d].draining => conn[d].open
          /\ conn[d].kind = "h1" => conn[d].open /\ conn[d].state = "up"
          /\ conn[d].kind = "h2" => protocol = "doh"
          /\ conn[d].kind = "dot" /\ conn[d].state # "ended" => protocol = "dot"
      BY DEF PoolInv, ConnInv
    <3>2. CASE d = c
      BY <2>1, <2>4, <2>5, <2>6, <3>1, <3>2
    <3>3. CASE d # c
      BY <2>1, <3>1, <3>3
    <3>4. QED
      BY <3>2, <3>3
  <2>12. \A d \in Conns : d # c /\ d[1] = a /\ connections[a] = d =>
            \/ conn[d].state = "ended"
            \/ conn[d].kind = "h2" /\ (conn[d].draining \/ (conn[d].open /\ conn[d].state = "closing"))
    BY <2>5 DEF Usable, Conns, None
  <2>13. MapInv'
    <3>1. \A b \in Addresses : connections'[b] # None => connections'[b][1] = b
      BY <1>6, <2>2 DEF PoolInv, MapInv
    <3>2. ASSUME NEW d \in Conns
          PROVE  /\ conn'[d].state = "up" /\ ~conn'[d].draining => connections'[d[1]] = d
                 /\ conn'[d].failure = "downgrade" =>
                      /\ conn'[d].kind = "h2" /\ conn'[d].state = "closing"
                      /\ ~conn'[d].open /\ ~conn'[d].draining /\ (~retired' => connections'[d[1]] = d)
      <4>1. /\ conn[d].state = "up" /\ ~conn[d].draining => connections[d[1]] = d
            /\ conn[d].failure = "downgrade" =>
                 /\ conn[d].kind = "h2" /\ conn[d].state = "closing"
                 /\ ~conn[d].open /\ ~conn[d].draining /\ (~retired => connections[d[1]] = d)
        BY DEF PoolInv, MapInv
      <4>2. d[1] \in Addresses
        BY DEF Conns
      <4>3. CASE d = c
        BY <1>6, <2>1, <2>2, <2>4, <2>5, <4>1, <4>3
      <4>4. CASE d # c
        BY <2>1, <2>2, <2>12, <4>1, <4>2, <4>4
      <4>5. QED
        BY <4>3, <4>4
    <3>3. QED
      BY <3>1, <3>2 DEF MapInv
  <2>14. /\ \A d : d # c => InFlight(d)' = InFlight(d)
         /\ x.phase = "wait" => InFlight(c)' = InFlight(c) \cup {q}
         /\ x.phase = "settled" => InFlight(c)' = InFlight(c)
         /\ q \notin InFlight(c)
    BY <1>3, <2>7 DEF InFlight, Waiting
  <2>15. WireInv'
    <3> SUFFICES ASSUME NEW d \in Conns, conn'[d].kind = "dot", conn'[d].state = "up"
                 PROVE  /\ \A f \in conn'[d].wire : f.query \in InFlight(d)' /\ call'[f.query].id = f.id
                        /\ \A p, s \in InFlight(d)' : call'[p].id = call'[s].id => p = s
      BY DEF WireInv
    <3>1. \A s \in InFlight(d) : s \in Queries /\ call'[s] = call[s]
      BY <1>3 DEF InFlight, Waiting
    <3>2. CASE d # c
      <4>1. /\ \A f \in conn[d].wire : f.query \in InFlight(d) /\ call[f.query].id = f.id
            /\ \A p, s \in InFlight(d) : call[p].id = call[s].id => p = s
        BY <2>1, <3>2 DEF PoolInv, WireInv
      <4>2. QED
        BY <2>1, <2>14, <3>1, <3>2, <4>1
    <3>3. CASE d = c
      <4>1. /\ \A f \in k.wire : f.query \in InFlight(c) /\ call[f.query].id = f.id
            /\ \A p, s \in InFlight(c) : call[p].id = call[s].id => p = s
        <5>1. CASE InFlight(c) = {} /\ k.wire = {}
          BY <5>1
        <5>2. CASE k = conn[c]
          BY <2>1, <2>4, <3>3, <5>2 DEF PoolInv, WireInv
        <5>3. QED
          BY <2>5, <5>1, <5>2
      <4>2. CASE x.phase = "settled"
        BY <2>1, <2>7, <2>14, <3>1, <3>3, <4>1, <4>2
      <4>3. CASE /\ x.phase = "wait"
                 /\ y.wire = k.wire \cup {[id |-> x.id, query |-> q]}
                 /\ k.kind = "dot" => \A p \in InFlight(c) : call[p].id # x.id
        <5>1. \A p \in InFlight(c) : call[p].id # x.id
          BY <2>1, <2>4, <3>3, <4>3
        <5>2. InFlight(c)' = InFlight(c) \cup {q}
          BY <2>14, <4>3
        <5>3. \A f \in conn'[d].wire : f.query \in InFlight(d)' /\ call'[f.query].id = f.id
          BY <1>3, <2>1, <3>1, <3>3, <4>1, <4>3, <5>2
        <5>4. \A p, s \in InFlight(d)' : call'[p].id = call'[s].id => p = s
          BY <1>3, <3>1, <3>3, <4>1, <5>1, <5>2
        <5>5. QED
          BY <5>3, <5>4
      <4>4. QED
        BY <2>7, <4>2, <4>3
    <3>4. QED
      BY <3>2, <3>3
  <2>16. ASSUME NEW b \in Addresses, NoSession(b),
                a \in h1 \/ (connections[a] = c /\ Usable(c) /\ k = conn[c]) \/ b # a
         PROVE  NoSession(b)'
    <3>1. CASE b # a
      <4>1. connections'[b] = connections[b] /\ (connections[b] # None => connections[b] \in Conns /\ connections[b] # c)
        BY <1>0, <1>6, <2>2, <3>1 DEF TypeOK, MapInv
      <4>2. connections[b] # None => conn'[connections[b]] = conn[connections[b]]
        BY <2>1, <4>1
      <4>3. QED
        BY <2>16, <4>1, <4>2 DEF NoSession, Usable
    <3>2. CASE b = a
      <4>1. CASE connections[a] = c /\ Usable(c) /\ k = conn[c]
        <5>1. conn[c].kind # "h2"
          BY <2>4, <2>16, <3>2, <4>1 DEF NoSession
        <5>2. QED
          BY <2>1, <2>2, <2>4, <3>2, <4>1, <5>1 DEF NoSession
      <4>2. CASE a \in h1 /\ ~(connections[a] = c /\ Usable(c) /\ k = conn[c])
        <5>1. y.kind # "h2"
          BY <2>4, <2>5, <2>6, <4>2
        <5>2. QED
          BY <2>1, <2>2, <3>2, <5>1 DEF NoSession
      <4>3. QED
        BY <2>16, <3>2, <4>1, <4>2
    <3>3. QED
      BY <3>1, <3>2
  <2>17. DowngradeInv'
    <3> SUFFICES ASSUME ~retired, NEW p \in Queries
                 PROVE
          /\ Waiting(p)' /\ call'[p].resent /\ call'[p].retry = 0 => conn'[call'[p].on].kind # "h2"
          /\ Settled(p)' /\ call'[p].resent /\ call'[p].retry = 0 => call'[p].result # "downgrade"
          /\ Settled(p)' /\ call'[p].result = "downgrade" =>
               /\ protocol' = "doh"
               /\ NoSession(call[p].list[call[p].at])'
               /\ \A s \in Queries : Settled(s)' => call'[s].result \in {"downgrade", "timeout"}
      BY DEF DowngradeInv
    <3>1. CASE p = q
      <4>1. Waiting(q)' /\ call'[q].resent /\ call'[q].retry = 0 => conn'[call'[q].on].kind # "h2"
        <5> SUFFICES ASSUME Waiting(q)', call'[q].resent, call'[q].retry = 0
                     PROVE  conn'[call'[q].on].kind # "h2"
          OBVIOUS
        <5>1. call'[q].on = c /\ r.resent /\ r.retry = 0
          BY <1>1, <1>3, <2>7 DEF Goes, Waiting
        <5>2. a \in h1 /\ NoSession(a)
          BY <5>1 DEF a
        <5>3. y.kind # "h2"
          BY <2>4, <2>5, <2>6, <5>2 DEF NoSession
        <5>4. QED
          BY <2>1, <5>1, <5>3
      <4>2. call'[q].result # "downgrade"
        BY <1>3, <2>7
      <4>3. QED
        BY <3>1, <4>1, <4>2
    <3>2. CASE p # q
      <4>1. call'[p] = call[p] /\ (Waiting(p)' <=> Waiting(p)) /\ (Settled(p)' <=> Settled(p))
        BY <1>3, <3>2 DEF Waiting, Settled
      <4>2. /\ Waiting(p) /\ call[p].resent /\ call[p].retry = 0 => conn[call[p].on].kind # "h2"
            /\ Settled(p) /\ call[p].resent /\ call[p].retry = 0 => call[p].result # "downgrade"
            /\ Settled(p) /\ call[p].result = "downgrade" =>
                 /\ protocol = "doh"
                 /\ NoSession(call[p].list[call[p].at])
                 /\ \A s \in Queries : Settled(s) => call[s].result \in {"downgrade", "timeout"}
        BY DEF PoolInv, DowngradeInv
      <4>3. Waiting(p) => call[p].on \in Conns /\ p \in InFlight(call[p].on)
        BY DEF PoolInv, CallInv, InFlight, Waiting
      <4>4. Waiting(p) /\ call[p].resent /\ call[p].retry = 0 => conn'[call[p].on].kind # "h2"
        BY <2>1, <2>4, <2>5, <4>2, <4>3
      <4>5. ASSUME Settled(p), call[p].result = "downgrade"
            PROVE  /\ protocol' = "doh"
                   /\ NoSession(call[p].list[call[p].at])'
                   /\ \A s \in Queries : Settled(s)' => call'[s].result \in {"downgrade", "timeout"}
        <5>1. protocol = "doh" /\ NoSession(call[p].list[call[p].at])
          BY <4>2, <4>5
        <5>2. a \in h1
          BY <3>2, <4>5 DEF a
        <5>3. call[p] \in CallType /\ call[p].at \in 1..Len(call[p].list)
          BY <1>0, <4>5 DEF PoolInv, CallInv, TypeOK
        <5>4. PICK b \in Addresses : b = call[p].list[call[p].at]
          BY <5>3 DEF CallType
        <5>5. k.kind # "dot"
          BY <2>5, <2>6, <5>1 DEF PoolInv, ConnInv
        <5>6. \A s \in Queries : Settled(s)' => call'[s].result \in {"downgrade", "timeout"}
          BY <1>3, <2>7, <4>2, <4>5, <5>5 DEF Settled
        <5>7. NoSession(b) /\ (a \in h1 \/ (connections[a] = c /\ Usable(c) /\ k = conn[c]) \/ b # a)
          BY <5>1, <5>2, <5>4 DEF NoSession
        <5>8. NoSession(b)'
          BY <2>16, <5>7
        <5>9. b = call'[p].list[call'[p].at]
          BY <4>1, <5>4
        <5>10. NoSession(call[p].list[call[p].at])'
          BY <5>8, <5>9 DEF NoSession, Usable
        <5>11. QED
          BY <5>1, <5>6, <5>10
      <4>6. QED
        BY <4>1, <4>2, <4>4, <4>5
    <3>3. QED
      BY <3>1, <3>2
  <2>18. DowngradeIsResent'
    BY <1>3, <2>7 DEF PoolInv, DowngradeIsResent
  <2>19. QED
    BY <2>8, <2>9, <2>10, <2>11, <2>13, <2>15, <2>17, <2>18 DEF PoolInv
<1>7. QED
  BY <1>1, <1>5, <1>6

\* What an event may make of a call: nothing, or settle a waiting one.
Outcome(p, x) ==
    \/ x = call[p]
    \/ /\ Waiting(p)
       /\ \E res \in Results \ {"wrong"} :
            /\ x = Settle(call[p], res)
            /\ res = "downgrade" => conn[call[p].on].kind = "h2"

\* What an event may make of connection c, given the calls it leaves there.
Became(c, y, left) ==
    /\ y.kind = "h2" => conn[c].kind = "h2"
    /\ y.kind = "dot" /\ y.state # "ended" => conn[c].kind = "dot" /\ conn[c].state # "ended"
    /\ y.kind = "h1" => y.open /\ y.state = "up"
    /\ y.draining => y.open
    /\ y.state = "ended" => conn[c].state = "ended" \/ left = {}
    /\ y.kind = "dot" /\ y.state = "up" =>
         /\ conn[c].state = "up" /\ y.wire \subseteq conn[c].wire
         /\ \A f \in y.wire : f.query \in left

\* An event keeps the invariant if it leaves each call alone or settles it, takes
\* connections only down, and ends none that a call still waits on.
LEMMA EventKeeps ==
    ASSUME PoolInv, Quiet, UNCHANGED <<protocol, clock, http1Only>>,
           retired' \in BOOLEAN, retired => retired',
           call' = [p \in Queries |-> call'[p]],
           \A p \in Queries : Outcome(p, call'[p]),
           \A p \in Queries : ~retired' /\ Settled(p)' /\ call'[p].result = "downgrade" =>
                /\ protocol = "doh"
                /\ NoSession(call[p].list[call[p].at])'
                /\ \A s \in Queries : Settled(s)' => call'[s].result \in {"downgrade", "timeout"},
           conn' \in [Conns -> ConnType],
           \A c \in Conns : Became(c, conn'[c], InFlight(c)'),
           connections' \in [Addresses -> Conns \cup {None}],
           MapInv'
    PROVE  PoolInv'
<1>1. TypeOK /\ CallInv /\ WaitingIsWatched /\ ConnInv /\ WireInv /\ DowngradeInv /\ DowngradeIsResent
  BY DEF PoolInv
<1>2. ASSUME NEW p \in Queries
      PROVE  \/ call'[p] = call[p]
             \/ /\ Waiting(p)
                /\ call'[p] \in CallType /\ Goes(call'[p], call[p])
                /\ call'[p].phase = "settled" /\ call'[p].result # "wrong"
                /\ call'[p].result = "downgrade" => conn[call[p].on].kind = "h2"
  <2>1. call[p] \in CallType
    BY <1>1 DEF TypeOK
  <2>2. CASE call'[p] = call[p]
    BY <2>2
  <2>3. CASE Waiting(p) /\ \E res \in Results \ {"wrong"} :
                              /\ call'[p] = Settle(call[p], res)
                              /\ res = "downgrade" => conn[call[p].on].kind = "h2"
    <3>1. PICK res \in Results \ {"wrong"} :
                 /\ call'[p] = Settle(call[p], res)
                 /\ res = "downgrade" => conn[call[p].on].kind = "h2"
      BY <2>3
    <3>2. QED
      BY <2>1, <2>3, <3>1, SettleFacts DEF Goes
  <2>4. QED
    BY <2>2, <2>3 DEF Outcome
<1>3. TypeOK'
  <2>1. \A p \in Queries : call'[p] \in CallType
    BY <1>1, <1>2 DEF TypeOK
  <2>2. call' \in [Queries -> CallType]
    BY <2>1
  <2>3. QED
    BY <1>1, <2>2 DEF TypeOK
<1>4. CallInv'
  BY <1>1, <1>2 DEF CallInv, Waiting, Settled, Goes
<1>5. /\ \A p \in Queries : call'[p].phase = "wait" => call'[p] = call[p]
      /\ \A p \in Queries : call'[p].phase = "done" => call'[p] = call[p]
  BY <1>2
<1>6. WaitingIsWatched'
  <2> SUFFICES ASSUME NEW p \in Queries, call'[p].phase = "wait"
               PROVE  /\ conn'[call'[p].on].state # "ended"
                      /\ clock' <= call'[p].timer /\ call'[p].timer <= call'[p].deadline
    BY DEF WaitingIsWatched
  <2>1. /\ call'[p] = call[p] /\ call[p].on \in Conns /\ conn[call[p].on].state # "ended"
        /\ clock <= call[p].timer /\ call[p].timer <= call[p].deadline
    BY <1>1, <1>5 DEF WaitingIsWatched, CallInv, Waiting
  <2>2. PICK c \in Conns : c = call[p].on
    BY <2>1
  <2>3. p \in InFlight(c)'
    BY <2>1, <2>2 DEF InFlight
  <2>4. Became(c, conn'[c], InFlight(c)')
    OBVIOUS
  <2>5. conn'[c].state # "ended"
    BY <2>1, <2>2, <2>3, <2>4 DEF Became
  <2>6. QED
    BY <2>1, <2>2, <2>5
<1>7. ConnInv'
  BY <1>1 DEF ConnInv, Became
<1>8. \A c : \A p \in InFlight(c)' : p \in Queries /\ p \in InFlight(c) /\ call'[p] = call[p]
  BY <1>5 DEF InFlight
<1>9. WireInv'
  <2> SUFFICES ASSUME NEW c \in Conns, conn'[c].kind = "dot", conn'[c].state = "up"
               PROVE  /\ \A f \in conn'[c].wire : f.query \in InFlight(c)' /\ call'[f.query].id = f.id
                      /\ \A p, q \in InFlight(c)' : call'[p].id = call'[q].id => p = q
    BY DEF WireInv
  <2>1. /\ conn[c].kind = "dot" /\ conn[c].state = "up" /\ conn'[c].wire \subseteq conn[c].wire
        /\ \A f \in conn'[c].wire : f.query \in InFlight(c)'
    BY DEF Became
  <2>2. /\ \A f \in conn[c].wire : f.query \in InFlight(c) /\ call[f.query].id = f.id
        /\ \A p, q \in InFlight(c) : call[p].id = call[q].id => p = q
    BY <1>1, <2>1 DEF WireInv
  <2>3. QED
    BY <1>8, <2>1, <2>2
<1>10. DowngradeInv'
  <2> SUFFICES ASSUME ~retired', NEW p \in Queries
               PROVE
        /\ Waiting(p)' /\ call'[p].resent /\ call'[p].retry = 0 => conn'[call'[p].on].kind # "h2"
        /\ Settled(p)' /\ call'[p].resent /\ call'[p].retry = 0 => call'[p].result # "downgrade"
        /\ Settled(p)' /\ call'[p].result = "downgrade" =>
             /\ protocol' = "doh"
             /\ NoSession(call[p].list[call[p].at])'
             /\ \A s \in Queries : Settled(s)' => call'[s].result \in {"downgrade", "timeout"}
    BY DEF DowngradeInv
  <2>1. Waiting(p) /\ call[p].resent /\ call[p].retry = 0 => conn[call[p].on].kind # "h2"
    BY <1>1 DEF DowngradeInv
  <2>2. Waiting(p)' /\ call'[p].resent /\ call'[p].retry = 0 => conn'[call'[p].on].kind # "h2"
    BY <1>1, <1>5, <2>1 DEF CallInv, Waiting, Became
  <2>3. Settled(p)' /\ call'[p].resent /\ call'[p].retry = 0 => call'[p].result # "downgrade"
    BY <1>2, <2>1 DEF Settled, Goes, Quiet
  <2>4. QED
    BY <2>2, <2>3
<1>11. DowngradeIsResent'
  BY <1>1, <1>5 DEF DowngradeIsResent
<1>12. QED
  BY <1>3, <1>4, <1>6, <1>7, <1>9, <1>10, <1>11 DEF PoolInv

\* An event that changes one connection only.
LEMMA ConnEventKeeps ==
    ASSUME PoolInv, Quiet, UNCHANGED <<protocol, retired, clock, http1Only, call, connections>>,
           NEW c \in Conns, NEW y \in ConnType, conn' = [conn EXCEPT ![c] = y],
           Became(c, y, InFlight(c)),
           y.state = "up" /\ ~y.draining => conn[c].state = "up" /\ ~conn[c].draining,
           y.failure = "downgrade" =>
              /\ y.kind = "h2" /\ y.state = "closing"
              /\ ~y.open /\ ~y.draining /\ (~retired => connections[c[1]] = c)
    PROVE  PoolInv'
<1>1. TypeOK /\ MapInv /\ ConnInv /\ WaitingIsWatched /\ WireInv
  BY DEF PoolInv
<1>2. /\ conn' \in [Conns -> ConnType] /\ conn'[c] = y
      /\ \A d \in Conns : d # c => conn'[d] = conn[d]
  BY <1>1 DEF TypeOK
<1>3. \A d : InFlight(d)' = InFlight(d)
  BY DEF InFlight
<1>4. ASSUME NEW d \in Conns, d # c
      PROVE  Became(d, conn[d], InFlight(d))
  BY <1>1 DEF Became, ConnInv, WireInv
<1>5. \A d \in Conns : Became(d, conn'[d], InFlight(d)')
  BY <1>2, <1>3, <1>4
<1>6. MapInv'
  BY <1>1, <1>2 DEF MapInv
<1>7. call' = [p \in Queries |-> call'[p]] /\ \A p \in Queries : Outcome(p, call'[p])
  BY <1>1 DEF TypeOK, Outcome
<1>8. connections' \in [Addresses -> Conns \cup {None}]
  BY <1>1 DEF TypeOK
<1>9. \A p \in Queries : ~Settled(p)'
  BY DEF Settled, Quiet
<1>10. retired' \in BOOLEAN /\ (retired => retired')
  BY <1>1 DEF TypeOK
<1>11. QED
  BY <1>2, <1>5, <1>6, <1>7, <1>8, <1>9, <1>10, EventKeeps

\* secureConnect: the connection opens.
LEMMA OpenKeeps ==
    ASSUME PoolInv, NEW c \in Conns, Open(c)
    PROVE  PoolInv'
<1> DEFINE y == [conn[c] EXCEPT !.open = TRUE]
<1>1. conn[c] \in ConnType /\ ConnInv /\ MapInv /\ WireInv
  BY DEF PoolInv, TypeOK
<1>2. Quiet /\ conn[c].state = "up" /\ UNCHANGED <<protocol, retired, clock, http1Only, call, connections>>
      /\ conn' = [conn EXCEPT ![c] = y]
  BY DEF Open
<1>3. y \in ConnType
  BY <1>1 DEF ConnType
<1>4. /\ y.kind = conn[c].kind /\ y.state = conn[c].state /\ y.draining = conn[c].draining
      /\ y.failure = conn[c].failure /\ y.wire = conn[c].wire /\ y.open
  BY <1>1 DEF ConnType
<1> HIDE DEF y
<1>5. Became(c, y, InFlight(c))
  BY <1>1, <1>2, <1>4 DEF Became, ConnInv, WireInv
<1>6. y.failure # "downgrade"
  BY <1>1, <1>2, <1>4 DEF MapInv
<1>7. QED
  BY <1>2, <1>3, <1>4, <1>5, <1>6, ConnEventKeeps

\* secureConnect refused.
LEMMA RefuseConnectionKeeps ==
    ASSUME PoolInv, NEW c \in Conns, RefuseConnection(c)
    PROVE  PoolInv'
<1>1. conn[c] \in ConnType /\ ConnInv /\ MapInv
  BY DEF PoolInv, TypeOK
<1>2. Quiet /\ conn[c].state = "up" /\ ~conn[c].open /\ UNCHANGED <<protocol, retired, clock, http1Only, call, connections>>
  BY DEF RefuseConnection
<1>3. PICK f \in {"connect", "downgrade"} :
        /\ f = "downgrade" => conn[c].kind = "h2"
        /\ conn' = [conn EXCEPT ![c] = [Closed(conn[c]) EXCEPT !.failure = f]]
  BY DEF RefuseConnection
<1> DEFINE y == [Closed(conn[c]) EXCEPT !.failure = f]
<1>4. conn[c].kind # "h1" /\ ~conn[c].draining /\ connections[c[1]] = c
  BY <1>1, <1>2 DEF ConnInv, MapInv
<1>5. /\ Closed(conn[c]) \in ConnType /\ Closed(conn[c]).kind = conn[c].kind
      /\ Closed(conn[c]).state = "closing" /\ Closed(conn[c]).open = conn[c].open
      /\ Closed(conn[c]).draining = conn[c].draining
  BY <1>1, <1>2, <1>4, ClosedFacts
<1>6. /\ y \in ConnType /\ y.kind = conn[c].kind /\ y.state = "closing"
      /\ ~y.open /\ ~y.draining /\ y.failure = f
  BY <1>2, <1>3, <1>4, <1>5 DEF ConnType
<1>7. conn' = [conn EXCEPT ![c] = y]
  BY <1>3
<1> HIDE DEF y
<1>8. Became(c, y, InFlight(c))
  BY <1>2, <1>4, <1>6 DEF Became
<1>9. QED
  BY <1>2, <1>3, <1>4, <1>6, <1>7, <1>8, ConnEventKeeps

\* A connection that goes down, and an idle HTTP/1.1 agent.
LEMMA DropKeeps ==
    ASSUME PoolInv, NEW c \in Conns, Drop(c) \/ IdleAgent(c)
    PROVE  PoolInv'
<1> DEFINE y == Closed(conn[c])
<1>1. conn[c] \in ConnType /\ ConnInv /\ MapInv
  BY DEF PoolInv, TypeOK
<1>2. /\ Quiet /\ conn[c].state = "up" /\ (conn[c].kind = "h1" => InFlight(c) = {})
      /\ UNCHANGED <<protocol, retired, clock, http1Only, call, connections>>
      /\ conn' = [conn EXCEPT ![c] = y]
  BY DEF Drop, IdleAgent
<1>3. y \in ConnType
  BY <1>1, ClosedFacts
<1>4. conn[c].kind = "h1" => /\ y.kind = "dot" /\ y.state = "ended" /\ ~y.draining
                             /\ y.failure = "none"
  BY <1>1, ClosedFacts, EndedFacts
<1>5. conn[c].kind # "h1" => /\ y.kind = conn[c].kind /\ y.state = "closing"
                             /\ y.open = conn[c].open /\ y.draining = conn[c].draining
                             /\ y.failure = conn[c].failure
  BY <1>1, <1>2, ClosedFacts
<1> HIDE DEF y
<1>6. Became(c, y, InFlight(c))
  BY <1>1, <1>2, <1>4, <1>5 DEF Became, ConnInv
<1>7. y.failure # "downgrade" /\ y.state # "up"
  BY <1>1, <1>2, <1>4, <1>5 DEF MapInv
<1>8. QED
  BY <1>2, <1>3, <1>6, <1>7, ConnEventKeeps

\* GOAWAY.
LEMMA GoawayKeeps ==
    ASSUME PoolInv, NEW c \in Conns, Goaway(c)
    PROVE  PoolInv'
<1> DEFINE y == [conn[c] EXCEPT !.draining = TRUE]
<1>1. conn[c] \in ConnType /\ ConnInv /\ MapInv
  BY DEF PoolInv, TypeOK
<1>2. /\ Quiet /\ conn[c].state = "up" /\ conn[c].kind = "h2" /\ conn[c].open
      /\ UNCHANGED <<protocol, retired, clock, http1Only, call, connections>>
      /\ conn' = [conn EXCEPT ![c] = y]
  BY DEF Goaway
<1>3. y \in ConnType
  BY <1>1 DEF ConnType
<1>4. /\ y.kind = conn[c].kind /\ y.state = conn[c].state /\ y.draining
      /\ y.failure = conn[c].failure /\ y.open = conn[c].open
  BY <1>1 DEF ConnType
<1> HIDE DEF y
<1>5. Became(c, y, InFlight(c))
  BY <1>1, <1>2, <1>4 DEF Became
<1>6. y.failure # "downgrade"
  BY <1>1, <1>2, <1>4 DEF MapInv
<1>7. QED
  BY <1>2, <1>3, <1>4, <1>5, <1>6, ConnEventKeeps

\* An event at one connection that settles calls in flight on it.
LEMMA CallEventKeeps ==
    ASSUME PoolInv, Quiet, UNCHANGED <<protocol, retired, clock, http1Only, connections>>,
           NEW c \in Conns, NEW y \in ConnType, conn' = [conn EXCEPT ![c] = y],
           NEW S, S \subseteq InFlight(c), NEW res \in Results \ {"wrong"},
           call' = [p \in Queries |-> IF p \in S THEN Settle(call[p], res) ELSE call[p]],
           Became(c, y, InFlight(c) \ S),
           y.state = "up" /\ ~y.draining => conn[c].state = "up" /\ ~conn[c].draining,
           y.failure = "downgrade" =>
              /\ y.kind = "h2" /\ y.state = "closing"
              /\ ~y.open /\ ~y.draining /\ (~retired => connections[c[1]] = c),
           res = "downgrade" =>
              /\ conn[c].kind = "h2" /\ (~retired => connections[c[1]] = c) /\ y.state = "ended"
    PROVE  PoolInv'
<1>1. TypeOK /\ MapInv /\ ConnInv /\ WaitingIsWatched /\ WireInv /\ CallInv
  BY DEF PoolInv
<1>2. /\ conn' \in [Conns -> ConnType] /\ conn'[c] = y
      /\ \A d \in Conns : d # c => conn'[d] = conn[d]
  BY <1>1 DEF TypeOK
<1>3. /\ \A p \in Queries \ S : call'[p] = call[p]
      /\ \A p \in S : /\ p \in Queries /\ Waiting(p) /\ call[p].on = c
                      /\ call[p] \in CallType
                      /\ call'[p] = Settle(call[p], res)
                      /\ call'[p].phase = "settled" /\ call'[p].result = res
                      /\ Goes(call'[p], call[p])
  <2>1. \A p \in S : p \in Queries /\ Waiting(p) /\ call[p].on = c
    BY DEF InFlight, Waiting
  <2>2. \A p \in S : call[p] \in CallType
    BY <1>1, <2>1 DEF TypeOK
  <2>3. \A p \in S : call'[p] = Settle(call[p], res)
    BY <2>1
  <2>4. QED
    BY <2>1, <2>2, <2>3, SettleFacts DEF Goes
<1>4. InFlight(c)' = InFlight(c) \ S /\ \A d : d # c => InFlight(d)' = InFlight(d)
  BY <1>3 DEF InFlight, Waiting
<1>5. ASSUME NEW d \in Conns, d # c
      PROVE  Became(d, conn[d], InFlight(d))
  BY <1>1 DEF Became, ConnInv, WireInv
<1>6. \A d \in Conns : Became(d, conn'[d], InFlight(d)')
  BY <1>2, <1>4, <1>5
<1>7. MapInv'
  BY <1>1, <1>2 DEF MapInv
<1>8. call' = [p \in Queries |-> call'[p]]
  OBVIOUS
<1>9. \A p \in Queries : Outcome(p, call'[p])
  BY <1>3 DEF Outcome
<1>10. connections' \in [Addresses -> Conns \cup {None}]
  BY <1>1 DEF TypeOK
<1>11. ASSUME NEW p \in Queries, ~retired', Settled(p)', call'[p].result = "downgrade"
       PROVE  /\ protocol = "doh"
              /\ NoSession(call[p].list[call[p].at])'
              /\ \A s \in Queries : Settled(s)' => call'[s].result \in {"downgrade", "timeout"}
  <2>1. p \in S /\ res = "downgrade"
    BY <1>3, <1>11 DEF Settled, Quiet
  <2>2. protocol = "doh"
    BY <1>1, <2>1 DEF ConnInv
  <2>3. call'[p].list[call'[p].at] = c[1]
    BY <1>1, <1>3, <2>1 DEF CallInv, Goes
  <2>4. connections'[c[1]] = c /\ ~Usable(c)'
    BY <1>2, <1>11, <2>1 DEF Usable
  <2>5. NoSession(call[p].list[call[p].at])'
    BY <2>3, <2>4 DEF NoSession
  <2>6. \A s \in Queries : Settled(s)' => call'[s].result \in {"downgrade", "timeout"}
    BY <1>3, <2>1 DEF Settled, Quiet
  <2>7. QED
    BY <2>2, <2>5, <2>6
<1>12. retired' \in BOOLEAN /\ (retired => retired')
  BY <1>1 DEF TypeOK
<1>13. QED
  BY <1>2, <1>6, <1>7, <1>8, <1>9, <1>10, <1>11, <1>12, EventKeeps

\* 'close'.
LEMMA CloseEventKeeps ==
    ASSUME PoolInv, NEW c \in Conns, CloseEvent(c)
    PROVE  PoolInv'
<1> DEFINE res == EndFailure(conn[c])
           S == InFlight(c)
<1>1. conn[c] \in ConnType /\ MapInv
  BY DEF PoolInv, TypeOK
<1>2. /\ Quiet /\ conn[c].state = "closing" /\ conn' = [conn EXCEPT ![c] = EndedConnection]
      /\ UNCHANGED <<protocol, retired, clock, http1Only, connections>>
  BY DEF CloseEvent
<1>3. call' = [p \in Queries |-> IF p \in S THEN Settle(call[p], res) ELSE call[p]]
  BY DEF CloseEvent, EndCalls, InFlight
<1>4. res \in Results \ {"wrong"} /\ (res = "downgrade" => conn[c].failure = "downgrade")
  BY <1>1, EndFailureFacts DEF Results, Fails
<1>5. res = "downgrade" => conn[c].kind = "h2" /\ (~retired => connections[c[1]] = c)
  BY <1>1, <1>4 DEF MapInv
<1> HIDE DEF res
<1>6. Became(c, EndedConnection, InFlight(c) \ S)
  BY EndedFacts DEF Became
<1>7. QED
  BY <1>2, <1>3, <1>4, <1>5, <1>6, EndedFacts, CallEventKeeps

\* A reply settles the query its frame carried, and no other: on a DoT
\* stream because an id belongs to one call in flight.
LEMMA MatchedIsOwn ==
    ASSUME PoolInv, NEW c \in Conns, conn[c].state = "up", NEW f \in conn[c].wire
    PROVE  \A q \in Matched(c, f) : q = f.query
BY DEF Matched, PoolInv, WireInv

\* What is left on the wire once a frame is gone, with the call it was for.
LEMMA FrameGone ==
    ASSUME PoolInv, NEW c \in Conns, conn[c].state = "up", conn[c].open, NEW f \in conn[c].wire,
           NEW y, y = [conn[c] EXCEPT !.wire = @ \ {f}]
    PROVE  /\ y \in ConnType /\ y.kind = conn[c].kind /\ y.state = "up"
           /\ y.draining = conn[c].draining /\ y.failure = conn[c].failure
           /\ Became(c, y, InFlight(c) \ Matched(c, f))
           /\ conn[c].failure # "downgrade"
<1>1. conn[c] \in ConnType /\ ConnInv /\ MapInv
  BY DEF PoolInv, TypeOK
<1>2. /\ y \in ConnType /\ y.kind = conn[c].kind /\ y.state = "up" /\ y.open
      /\ y.draining = conn[c].draining /\ y.failure = conn[c].failure
      /\ y.wire = conn[c].wire \ {f}
  BY <1>1 DEF ConnType
<1>3. \A g \in conn[c].wire : g \in [id : Ids, query : Queries]
  BY <1>1 DEF ConnType
<1>4. ASSUME conn[c].kind = "dot", NEW g \in y.wire
      PROVE  g.query \in InFlight(c) \ Matched(c, f)
  <2>1. /\ g.query \in InFlight(c) /\ call[g.query].id = g.id
        /\ f.query \in InFlight(c) /\ call[f.query].id = f.id
    BY <1>2, <1>4 DEF PoolInv, WireInv
  <2>2. g.query = f.query => g = f
    BY <1>2, <1>3, <2>1
  <2>3. QED
    BY <1>2, <2>1, <2>2, MatchedIsOwn
<1>5. Became(c, y, InFlight(c) \ Matched(c, f))
  BY <1>1, <1>2, <1>4 DEF Became, ConnInv
<1>6. QED
  BY <1>1, <1>2, <1>5 DEF MapInv

\* onData() and its HTTP counterparts.
LEMMA ReplyKeeps ==
    ASSUME PoolInv, NEW c \in Conns, NEW f \in conn[c].wire, Reply(c, f) \/ HttpFailure(c, f)
    PROVE  PoolInv'
<1> DEFINE S == Matched(c, f)
           y == [conn[c] EXCEPT !.wire = @ \ {f}]
<1>1. /\ Quiet /\ conn[c].state = "up" /\ conn[c].open
      /\ UNCHANGED <<protocol, retired, clock, http1Only, connections>>
      /\ conn' = [conn EXCEPT ![c] = y]
  BY DEF Reply, HttpFailure
<1>2. PICK res \in {"answer", "http", "closed", "connect"} :
         call' = [p \in Queries |-> IF p \in S THEN Settle(call[p], res) ELSE call[p]]
  <2>1. CASE Reply(c, f)
    <3>1. call' = [p \in Queries |-> IF p \in S THEN Settle(call[p], "answer") ELSE call[p]]
      BY <1>1, <2>1, MatchedIsOwn DEF Reply
    <3>2. QED
      BY <3>1
  <2>2. CASE HttpFailure(c, f)
    BY <2>2 DEF HttpFailure
  <2>3. QED
    BY <2>1, <2>2
<1>3. S \subseteq InFlight(c) /\ res \in Results \ {"wrong"} /\ res # "downgrade"
  BY DEF Matched, Results, Fails
<1>4. y = [conn[c] EXCEPT !.wire = @ \ {f}]
  OBVIOUS
<1> HIDE DEF y
<1>5. /\ y \in ConnType /\ y.kind = conn[c].kind /\ y.state = "up"
      /\ y.draining = conn[c].draining /\ y.failure # "downgrade"
      /\ Became(c, y, InFlight(c) \ S)
  BY <1>1, <1>4, FrameGone
<1> HIDE DEF S
<1>6. QED
  BY <1>1, <1>2, <1>3, <1>5, CallEventKeeps

\* begin()'s timer.
LEMMA CallTimeoutKeeps ==
    ASSUME PoolInv, NEW q \in Queries, CallTimeout(q)
    PROVE  PoolInv'
<1>1. /\ Quiet /\ Waiting(q) /\ call' = [call EXCEPT ![q] = Settle(call[q], "timeout")]
      /\ UNCHANGED <<protocol, retired, clock, http1Only, connections>>
      /\ conn' = [conn EXCEPT ![call[q].on] = CloseOnTimeout(conn[call[q].on], q)]
  BY DEF CallTimeout, Waiting
<1>2. PICK c \in Conns : c = call[q].on
  BY <1>1 DEF PoolInv, CallInv
<1> DEFINE y == CloseOnTimeout(conn[c], q)
           S == {q}
<1>0. Quiet /\ UNCHANGED <<protocol, retired, clock, http1Only, connections>>
  BY <1>1
<1>3. conn[c] \in ConnType /\ ConnInv /\ MapInv /\ call \in [Queries -> CallType]
  BY DEF PoolInv, TypeOK
<1>4. conn[c].state # "ended"
  BY <1>1, <1>2 DEF PoolInv, WaitingIsWatched, Waiting
<1>5. CASE conn[c].kind = "h1"
  <2>1. y = [conn[c] EXCEPT !.wire = {f \in @ : f.query # q}]
    BY <1>5 DEF CloseOnTimeout
  <2>2. /\ y \in ConnType /\ y.kind = "h1" /\ y.state = conn[c].state /\ y.open = conn[c].open
        /\ y.draining = conn[c].draining /\ y.failure = conn[c].failure
    BY <1>3, <1>5, <2>1 DEF ConnType
  <2> HIDE DEF y
  <2>3. Became(c, y, InFlight(c) \ S)
    BY <1>3, <1>5, <2>2 DEF Became, ConnInv
  <2>4. y.failure # "downgrade"
    BY <1>3, <1>5, <2>2 DEF MapInv
  <2>5. PICK res \in Results \ {"wrong"} :
          /\ res # "downgrade"
          /\ call' = [p \in Queries |-> IF p \in S THEN Settle(call[p], res) ELSE call[p]]
    BY <1>1, <1>3 DEF Results, Fails
  <2>6. S \subseteq InFlight(c)
    BY <1>1, <1>2 DEF InFlight, Waiting
  <2>7. conn' = [conn EXCEPT ![c] = y] /\ y \in ConnType
    BY <1>1, <1>2, <2>2 DEF y
  <2> HIDE DEF S
  <2>8. QED
    BY <1>0, <2>2, <2>3, <2>4, <2>5, <2>6, <2>7, CallEventKeeps
<1>6. CASE conn[c].kind # "h1"
  <2>1. y = Closed(conn[c])
    BY <1>6 DEF CloseOnTimeout
  <2>2. /\ y \in ConnType /\ y.kind = conn[c].kind /\ y.state = "closing" /\ y.open = conn[c].open
        /\ y.draining = conn[c].draining /\ y.failure = conn[c].failure
    BY <1>3, <1>4, <1>6, <2>1, ClosedFacts
  <2> HIDE DEF y
  <2>3. Became(c, y, InFlight(c) \ S)
    BY <1>3, <1>4, <1>6, <2>2 DEF Became, ConnInv
  <2>4. y.failure = "downgrade" => /\ y.kind = "h2" /\ y.state = "closing"
                                   /\ ~y.open /\ ~y.draining /\ (~retired => connections[c[1]] = c)
    BY <1>3, <2>2 DEF MapInv
  <2>5. PICK res \in Results \ {"wrong"} :
          /\ res # "downgrade"
          /\ call' = [p \in Queries |-> IF p \in S THEN Settle(call[p], res) ELSE call[p]]
    BY <1>1, <1>3 DEF Results, Fails
  <2>6. S \subseteq InFlight(c)
    BY <1>1, <1>2 DEF InFlight, Waiting
  <2>7. conn' = [conn EXCEPT ![c] = y] /\ y \in ConnType
    BY <1>1, <1>2, <2>2 DEF y
  <2> HIDE DEF S
  <2>8. QED
    BY <1>0, <2>2, <2>3, <2>4, <2>5, <2>6, <2>7, CallEventKeeps
<1>7. QED
  BY <1>5, <1>6

\* The calls query() makes of others.
LEMMA NoCallFacts ==
    /\ NoCall \in CallType /\ NoCall.result = "none" /\ ~NoCall.resent /\ NoCall.retry = 0
<1>1. << >> \in Seq(Addresses) /\ 0 \in 0..MaxTime /\ 0 \in 0..ClosedRetries /\ 0 \in Ids
  BY PoolConstants
<1>2. QED
  BY <1>1 DEF NoCall, CallType, Results

\* The call of a query that has resolved.
LEMMA DoneFacts ==
    ASSUME NEW r \in CallType
    PROVE  /\ Done(r) \in CallType /\ Done(r).phase = "done"
           /\ Done(r).result = r.result /\ Done(r).retry = r.retry
BY NoCallFacts DEF Done, CallType

\* What query()'s continuation makes of its call: resent, retried, or sent to the
\* next address.
LEMMA CallFacts ==
    ASSUME NEW r \in CallType
    PROVE  /\ LET x == [r EXCEPT !.phase = "done"]
              IN  x \in CallType /\ x.phase = "done" /\ x.result = r.result
           /\ LET x == [r EXCEPT !.resent = TRUE]
              IN  x \in CallType /\ x.at = r.at /\ x.list = r.list /\ x.retry = r.retry
                  /\ x.deadline = r.deadline
           /\ r.retry < ClosedRetries =>
                LET x == [r EXCEPT !.retry = @ + 1]
                IN  x \in CallType /\ x.at = r.at /\ x.list = r.list /\ x.retry # 0
                    /\ x.deadline = r.deadline
           /\ LET x == [r EXCEPT !.at = @ + 1, !.retry = 0, !.resent = FALSE]
              IN  x \in CallType /\ x.at = r.at + 1 /\ x.list = r.list /\ ~x.resent
                  /\ x.deadline = r.deadline
<1>1. /\ r.at + 1 \in Nat /\ 0 \in 0..ClosedRetries
      /\ r.retry < ClosedRetries => r.retry + 1 \in 0..ClosedRetries /\ r.retry + 1 # 0
  <2>1. r.at \in Nat /\ r.retry \in 0..ClosedRetries
    BY DEF CallType
  <2>2. QED
    BY <2>1, PoolConstants
<1>2. QED
  BY <1>1 DEF CallType

\* closeAll().
LEMMA CloseAllKeeps ==
    ASSUME PoolInv, CloseAll
    PROVE  PoolInv'
<1> DEFINE mapped == {c \in Conns : \E a \in Addresses : connections[a] = c}
           agents == {c \in mapped : conn[c].kind = "h1"}
<1>1. TypeOK /\ MapInv /\ ConnInv /\ WireInv /\ CallInv /\ WaitingIsWatched
  BY DEF PoolInv
<1>2. /\ Quiet /\ UNCHANGED <<protocol, clock, http1Only>> /\ ~retired /\ retired' = TRUE
      /\ connections' = [a \in Addresses |-> None]
      /\ conn' = [c \in Conns |-> IF c \in mapped THEN Closed(conn[c]) ELSE conn[c]]
      /\ call' = EndCalls(agents)
  BY DEF CloseAll
<1>3. \A c \in Conns : conn[c] \in ConnType /\ Closed(conn[c]) \in ConnType
  BY <1>1, ClosedFacts DEF TypeOK
<1>4. \A c \in Conns : conn[c].state = "up" /\ ~conn[c].draining => c \in mapped
  BY <1>1 DEF MapInv, Conns
<1>5. agents \subseteq mapped /\ mapped \subseteq Conns /\ \A c \in mapped : c \in agents <=> conn[c].kind = "h1"
  OBVIOUS
<1> HIDE DEF mapped, agents
<1>6. \A c \in Conns : conn[c].failure = "downgrade" =>
        conn[c].kind = "h2" /\ conn[c].state = "closing" /\ ~conn[c].open /\ ~conn[c].draining
  BY <1>1 DEF MapInv
<1>7. conn' \in [Conns -> ConnType] /\ connections' \in [Addresses -> Conns \cup {None}]
  BY <1>2, <1>3
<1>8. ASSUME NEW c \in Conns
      PROVE  /\ c \notin mapped => conn'[c] = conn[c]
             /\ c \in mapped => /\ conn'[c].failure = "downgrade" =>
                                     /\ conn'[c].kind = "h2" /\ conn'[c].state = "closing"
                                     /\ ~conn'[c].open /\ ~conn'[c].draining
                                /\ conn'[c].state # "up"
                                /\ conn'[c].kind # "h1"
                                /\ conn'[c].kind = "h2" => conn[c].kind = "h2"
                                /\ conn'[c].draining => conn'[c].open
                                /\ conn'[c].kind = "dot" /\ conn'[c].state # "ended" =>
                                     conn[c].kind = "dot" /\ conn[c].state # "ended"
                                /\ conn'[c].state = "ended" => conn[c].state = "ended" \/ c \in agents
  <2>1. CASE c \notin mapped
    BY <1>2, <2>1
  <2>2. CASE c \in mapped
    <3>1. conn'[c] = Closed(conn[c])
      BY <1>2, <2>2
    <3>2. CASE conn[c].state = "ended" \/ conn[c].kind = "h1"
      <4>1. conn'[c] = EndedConnection
        BY <1>3, <3>1, <3>2, ClosedFacts
      <4>2. QED
        BY <1>5, <2>2, <3>2, <4>1, EndedFacts
    <3>3. CASE ~(conn[c].state = "ended" \/ conn[c].kind = "h1")
      <4>1. /\ conn'[c].kind = conn[c].kind /\ conn'[c].state = "closing"
            /\ conn'[c].open = conn[c].open /\ conn'[c].draining = conn[c].draining
            /\ conn'[c].failure = conn[c].failure
        BY <1>3, <3>1, <3>3, ClosedFacts
      <4>2. QED
        BY <1>1, <1>6, <2>2, <3>3, <4>1 DEF ConnInv
    <3>4. QED
      BY <3>2, <3>3
  <2>3. QED
    BY <2>1, <2>2
<1>9. ASSUME NEW p \in Queries
      PROVE  /\ ~(Waiting(p) /\ call[p].on \in agents) => call'[p] = call[p]
             /\ (Waiting(p) /\ call[p].on \in agents) =>
                  /\ call'[p].phase = "settled" /\ call'[p].result \in Fails \ {"downgrade"}
                  /\ call'[p] = Settle(call[p], call'[p].result)
  <2>1. CASE ~(Waiting(p) /\ call[p].on \in agents)
    BY <1>2, <2>1 DEF EndCalls, Waiting
  <2>2. CASE Waiting(p) /\ call[p].on \in agents
    <3>1. call'[p] = Settle(call[p], EndFailure(conn[call[p].on]))
      BY <1>2, <2>2 DEF EndCalls, Waiting
    <3>2. PICK c \in Conns : c = call[p].on
      BY <1>5, <2>2
    <3>3. EndFailure(conn[c]) \in Fails \ {"downgrade"}
      BY <1>3, <1>5, <1>6, <2>2, <3>2, EndFailureFacts
    <3>4. call[p] \in CallType /\ Fails \subseteq Results
      BY <1>1 DEF TypeOK, Results
    <3>5. QED
      BY <2>2, <3>1, <3>2, <3>3, <3>4, SettleFacts
  <2>3. QED
    BY <2>1, <2>2
<1>10. call' = [p \in Queries |-> call'[p]]
  BY <1>2 DEF EndCalls
<1>11. \A p \in Queries : Outcome(p, call'[p])
  BY <1>9 DEF Outcome, Results, Fails
<1>12. \A p \in Queries : ~(Settled(p)' /\ call'[p].result = "downgrade")
  BY <1>2, <1>9 DEF Settled, Quiet
<1>13. /\ \A c \in agents : InFlight(c)' = {}
       /\ \A c : c \notin agents => InFlight(c)' = InFlight(c)
  BY <1>9 DEF InFlight, Waiting
<1>14. ASSUME NEW c \in Conns
       PROVE  Became(c, conn'[c], InFlight(c)')
  <2>1. CASE c \in mapped
    BY <1>8, <1>13, <2>1 DEF Became
  <2>2. CASE c \notin mapped
    BY <1>1, <1>5, <1>8, <1>13, <2>2 DEF Became, ConnInv, WireInv
  <2>3. QED
    BY <2>1, <2>2
<1>15. MapInv'
  BY <1>2, <1>4, <1>6, <1>8 DEF MapInv
<1>16. QED
  BY <1>2, <1>7, <1>10, <1>11, <1>12, <1>14, <1>15, EventKeeps

\* Time passes.
LEMMA TickKeeps ==
    ASSUME PoolInv, Tick
    PROVE  PoolInv'
<1>1. /\ clock' = clock + 1 /\ clock < MaxTime /\ UNCHANGED <<protocol, retired, call, conn, connections, http1Only>>
      /\ \A q \in Queries : call[q].phase = "wait" => clock < call[q].timer
  BY DEF Tick
<1>2. TypeOK'
  BY <1>1, PoolConstants DEF PoolInv, TypeOK
<1>3. \A q \in Queries : call[q].timer \in Nat
  BY DEF PoolInv, TypeOK, CallType
<1>4. WaitingIsWatched'
  BY <1>1, <1>3 DEF PoolInv, TypeOK, WaitingIsWatched
<1>5. CallInv' /\ ConnInv' /\ MapInv' /\ WireInv' /\ DowngradeIsResent'
  BY <1>1 DEF PoolInv, CallInv, ConnInv, MapInv, WireInv, DowngradeIsResent, Waiting, Settled, InFlight
<1>6. DowngradeInv'
  BY <1>1 DEF PoolInv, DowngradeInv, Waiting, Settled, NoSession, Usable
<1>7. QED
  BY <1>2, <1>4, <1>5, <1>6 DEF PoolInv

\* A call that is not waiting before or after, and is not settled after.
LEMMA FinishKeeps ==
    ASSUME PoolInv, NEW q \in Queries, ~Waiting(q), NEW x \in CallType,
           call' = [call EXCEPT ![q] = x], x.phase = "done", x.result # "wrong",
           x.result = "downgrade" => x.retry > 0 \/ retired,
           UNCHANGED <<protocol, retired, clock, conn, connections, http1Only>>
    PROVE  PoolInv'
<1>1. /\ call' \in [Queries -> CallType] /\ call'[q] = x
      /\ \A p \in Queries : p # q => call'[p] = call[p]
  BY DEF PoolInv, TypeOK
<1>2. TypeOK'
  BY <1>1 DEF PoolInv, TypeOK
<1>3. CallInv'
  BY <1>1 DEF PoolInv, CallInv, Waiting, Settled
<1>4. WaitingIsWatched'
  BY <1>1 DEF PoolInv, WaitingIsWatched
<1>5. ConnInv' /\ MapInv'
  BY DEF PoolInv, ConnInv, MapInv
<1>6. \A d : InFlight(d)' = InFlight(d)
  BY <1>1 DEF InFlight, Waiting
<1>7. WireInv'
  BY <1>1, <1>6 DEF PoolInv, WireInv, InFlight
<1>8. \A b : NoSession(b)' <=> NoSession(b)
  BY DEF NoSession, Usable
<1>9. DowngradeInv'
  BY <1>1, <1>8 DEF PoolInv, DowngradeInv, Waiting, Settled
<1>10. DowngradeIsResent'
  BY <1>1 DEF PoolInv, DowngradeIsResent
<1>11. QED
  BY <1>2, <1>3, <1>4, <1>5, <1>7, <1>9, <1>10 DEF PoolInv

\* query() with nothing to send to.
LEMMA RefuseKeeps ==
    ASSUME PoolInv, NEW q \in Queries, Refuse(q)
    PROVE  PoolInv'
<1> DEFINE x == [call[q] EXCEPT !.phase = "done"]
<1>1. call[q] = NoCall /\ call[q] \in CallType /\ ~Waiting(q)
  BY DEF PoolInv, CallInv, TypeOK, Refuse, Waiting
<1>2. x \in CallType /\ x.phase = "done" /\ x.result = "none"
  BY <1>1, CallFacts, NoCallFacts
<1>3. call' = [call EXCEPT ![q] = x] /\ UNCHANGED <<protocol, retired, clock, conn, connections, http1Only>>
  BY DEF Refuse
<1> HIDE DEF x
<1>4. QED
  BY <1>1, <1>2, <1>3, FinishKeeps

\* query(): the first attempt.
LEMMA QueryKeeps ==
    ASSUME PoolInv, NEW ask \in Traffic[protocol], Query(ask[1], ask[2])
    PROVE  PoolInv' /\ ask[1] \in Queries
<1> DEFINE q == ask[1]
           list == ask[2]
           r == [NoCall EXCEPT !.list = list, !.at = 1, !.deadline = clock + Budget]
<1>1. q \in Queries /\ list \in Seq(Addresses)
  <2>1. ask \in Queries \X Seq(Addresses)
    BY PoolAssumption DEF PoolInv, TypeOK
  <2>2. QED
    BY <2>1
<1>2. /\ Quiet /\ call[q].phase = "idle" /\ list # << >> /\ clock + Budget <= MaxTime
      /\ Attempt(q, r, http1Only) /\ UNCHANGED <<protocol, retired, clock>>
  BY DEF Query
<1>3. clock + Budget \in 0..MaxTime /\ http1Only \in SUBSET Addresses
  BY <1>2, PoolConstants DEF PoolInv, TypeOK
<1>4. r \in CallType /\ r.at \in 1..Len(r.list) /\ ~r.resent
  <2>0. PICK d \in 0..MaxTime : r = [NoCall EXCEPT !.list = list, !.at = 1, !.deadline = d]
    BY <1>3
  <2> HIDE DEF r, list
  <2>1. r \in CallType /\ r.at = 1 /\ r.list = list /\ ~r.resent
    BY <1>1, <2>0, NoCallFacts DEF CallType
  <2>2. Len(list) \in Nat /\ Len(list) # 0
    BY <1>1, <1>2
  <2>3. QED
    BY <2>1, <2>2
<1> HIDE DEF r, q
<1>5. ~Waiting(q) /\ \A p \in Queries : ~Settled(p)
  BY <1>2 DEF Waiting, Settled, Quiet
<1>6. QED
  BY <1>1, <1>2, <1>3, <1>4, <1>5, AttemptKeeps DEF q

\* The continuation of query().
LEMMA ResumeKeeps ==
    ASSUME PoolInv, NEW q \in Queries, Resume(q)
    PROVE  PoolInv'
<1> DEFINE r == call[q]
           a == r.list[r.at]
<1>1. /\ r \in CallType /\ r.phase = "settled" /\ r.at \in 1..Len(r.list) /\ r.result # "wrong"
      /\ http1Only \in SUBSET Addresses
  BY DEF PoolInv, CallInv, TypeOK, Resume, Settled
<1>2. ~retired =>
      /\ r.resent /\ r.retry = 0 => r.result # "downgrade"
      /\ r.result = "downgrade" => NoSession(a)
      /\ r.result \in {"connect", "closed"} =>
           \A p \in Queries : ~(Settled(p) /\ call[p].result = "downgrade")
  BY <1>1 DEF PoolInv, DowngradeInv, Settled
<1>3. a \in Addresses
  BY <1>1 DEF CallType
<1>4. ~Waiting(q) /\ UNCHANGED <<protocol, retired, clock>>
  BY <1>1 DEF Waiting, Resume
<1>5. CASE /\ r.result = "downgrade"
           /\ Attempt(q, [r EXCEPT !.resent = TRUE], http1Only \cup {a})
  <2> DEFINE x == [r EXCEPT !.resent = TRUE]
             h1 == http1Only \cup {a}
  <2>1. x \in CallType /\ x.at = r.at /\ x.list = r.list
    BY <1>1 DEF CallType
  <2>2. h1 \in SUBSET Addresses /\ a \in h1
    BY <1>1, <1>3
  <2>3. Attempt(q, x, h1)
    BY <1>5
  <2> HIDE DEF x, h1
  <2>4. x.list[x.at] \in h1 /\ (~retired => NoSession(x.list[x.at]))
    BY <1>2, <1>5, <2>1, <2>2
  <2>5. QED
    BY <1>1, <1>4, <2>1, <2>2, <2>3, <2>4, AttemptKeeps
<1>6. CASE Again(r) /\ Attempt(q, [r EXCEPT !.retry = @ + 1], http1Only)
  <2> DEFINE x == [r EXCEPT !.retry = @ + 1]
  <2>1. /\ x \in CallType /\ x.at = r.at /\ x.list = r.list /\ x.retry # 0
        /\ r.result = "closed"
    BY <1>1, <1>6, CallFacts DEF Again
  <2>2. Attempt(q, x, http1Only)
    BY <1>6
  <2> HIDE DEF x
  <2>3. QED
    BY <1>1, <1>2, <1>4, <2>1, <2>2, AttemptKeeps
<1>7. CASE /\ r.result \in {"connect", "closed"} /\ r.at < Len(r.list)
           /\ Attempt(q, [r EXCEPT !.at = @ + 1, !.retry = 0, !.resent = FALSE], http1Only)
  <2> DEFINE x == [r EXCEPT !.at = @ + 1, !.retry = 0, !.resent = FALSE]
  <2>1. x \in CallType /\ x.at = r.at + 1 /\ x.list = r.list /\ ~x.resent
    BY <1>1, CallFacts
  <2>2. r.at + 1 \in 1..Len(r.list)
    BY <1>1, <1>7 DEF CallType
  <2>3. Attempt(q, x, http1Only)
    BY <1>7
  <2> HIDE DEF x
  <2>4. QED
    BY <1>1, <1>2, <1>4, <1>7, <2>1, <2>2, <2>3, AttemptKeeps
<1>8. CASE /\ ~(r.result = "downgrade" /\ ~r.resent /\ r.retry = 0)
           /\ call' = [call EXCEPT ![q] = Done(r)]
           /\ UNCHANGED <<conn, connections, http1Only>>
  <2>1. /\ Done(r) \in CallType /\ Done(r).phase = "done" /\ Done(r).result = r.result
        /\ Done(r).retry = r.retry
    BY <1>1, DoneFacts
  <2>2. r.result = "downgrade" => r.retry > 0 \/ retired
    <3>1. r.retry \in Nat
      BY <1>1 DEF CallType
    <3>2. QED
      BY <1>2, <1>8, <3>1
  <2>3. QED
    BY <1>1, <1>4, <1>8, <2>1, <2>2, FinishKeeps
<1>9. QED
  BY <1>5, <1>6, <1>7, <1>8 DEF Resume

\* The invariant holds of an empty pool.
LEMMA InitPoolInv ==
    ASSUME Init
    PROVE  PoolInv
<1>1. /\ protocol \in {"dot", "doh"} /\ retired = FALSE /\ clock = 0 /\ call = [q \in Queries |-> NoCall]
      /\ conn = [c \in Conns |-> EndedConnection]
      /\ connections = [a \in Addresses |-> None] /\ http1Only = {}
  BY DEF Init
<1>2. TypeOK
  <2>1. retired \in BOOLEAN
    BY <1>1
  <2>2. /\ protocol \in {"dot", "doh"} /\ clock \in 0..MaxTime
        /\ call \in [Queries -> CallType] /\ conn \in [Conns -> ConnType]
        /\ connections \in [Addresses -> Conns \cup {None}] /\ http1Only \subseteq Addresses
    BY <1>1, PoolConstants, NoCallFacts, EndedFacts
  <2>3. QED
    BY <2>1, <2>2 DEF TypeOK
<1>3. \A q \in Queries : call[q] = NoCall /\ call[q].phase = "idle" /\ call[q].result = "none"
  BY <1>1 DEF NoCall
<1>4. \A c \in Conns : conn[c] = EndedConnection
  BY <1>1
<1>5. CallInv /\ WaitingIsWatched /\ DowngradeInv /\ DowngradeIsResent
  BY <1>3 DEF CallInv, WaitingIsWatched, DowngradeInv, DowngradeIsResent, Waiting, Settled
<1>6. ConnInv /\ WireInv
  BY <1>4, EndedFacts DEF ConnInv, WireInv
<1>7. MapInv
  BY <1>1, <1>4, EndedFacts DEF MapInv
<1>8. QED
  BY <1>2, <1>5, <1>6, <1>7 DEF PoolInv

\* Every step keeps the invariant.
LEMMA NextPoolInv ==
    ASSUME PoolInv, [Next]_vars
    PROVE  PoolInv'
<1>1. ASSUME NEW q \in Queries, Refuse(q)
      PROVE  PoolInv'
  BY <1>1, RefuseKeeps
<1>2. ASSUME NEW q \in Queries, Resume(q)
      PROVE  PoolInv'
  BY <1>2, ResumeKeeps
<1>3. ASSUME NEW q \in Queries, CallTimeout(q)
      PROVE  PoolInv'
  BY <1>3, CallTimeoutKeeps
<1>4. ASSUME NEW ask \in Traffic[protocol], Query(ask[1], ask[2])
      PROVE  PoolInv'
  BY <1>4, QueryKeeps
<1>5. ASSUME NEW c \in Conns, Open(c)
      PROVE  PoolInv'
  BY <1>5, OpenKeeps
<1>6. ASSUME NEW c \in Conns, RefuseConnection(c)
      PROVE  PoolInv'
  BY <1>6, RefuseConnectionKeeps
<1>7. ASSUME NEW c \in Conns, Drop(c) \/ IdleAgent(c)
      PROVE  PoolInv'
  BY <1>7, DropKeeps
<1>8. ASSUME NEW c \in Conns, Goaway(c)
      PROVE  PoolInv'
  BY <1>8, GoawayKeeps
<1>9. ASSUME NEW c \in Conns, CloseEvent(c)
      PROVE  PoolInv'
  BY <1>9, CloseEventKeeps
<1>10. ASSUME NEW c \in Conns, NEW f \in conn[c].wire, Reply(c, f) \/ HttpFailure(c, f)
       PROVE  PoolInv'
  BY <1>10, ReplyKeeps
<1>11. CASE CloseAll
  BY <1>11, CloseAllKeeps
<1>12. CASE Tick
  BY <1>12, TickKeeps
<1>13. CASE UNCHANGED vars
  <2>1. UNCHANGED <<protocol, retired, clock, call, conn, connections, http1Only>>
    BY <1>13 DEF vars
  <2>2. /\ TypeOK' /\ CallInv' /\ WaitingIsWatched' /\ ConnInv' /\ MapInv'
        /\ DowngradeIsResent'
    BY <2>1 DEF PoolInv, TypeOK, CallInv, WaitingIsWatched, ConnInv, MapInv,
                DowngradeIsResent, Waiting, Settled
  <2>3. WireInv'
    BY <2>1 DEF PoolInv, WireInv, InFlight
  <2>4. DowngradeInv'
    BY <2>1 DEF PoolInv, DowngradeInv, Waiting, Settled, NoSession, Usable
  <2>5. QED
    BY <2>2, <2>3, <2>4 DEF PoolInv
<1>14. QED
  BY <1>1, <1>2, <1>3, <1>4, <1>5, <1>6, <1>7, <1>8, <1>9, <1>10, <1>11, <1>12, <1>13
  DEF Next

\* The inductive invariant holds in every reachable state of the pool.
THEOREM PoolInvariant == Spec => []PoolInv
<1>1. Init => PoolInv
  BY InitPoolInv
<1>2. PoolInv /\ [Next]_vars => PoolInv'
  BY NextPoolInv
<1>3. QED
  BY <1>1, <1>2, PTL DEF Spec

\* Type correctness: ids, deadlines, timers and retry counts stay in their ranges.
THEOREM PoolTypeCorrect == Spec => []TypeOK
<1>1. PoolInv => TypeOK
  BY DEF PoolInv
<1>2. QED
  BY <1>1, PoolInvariant, PTL

\* A query in flight is always watched: end() of its connection is still to come
\* and its timer is due by its deadline, also after a send on a DoT connection
\* that was already destroyed.
THEOREM InFlightIsWatched == Spec => []WaitingIsWatched
<1>1. PoolInv => WaitingIsWatched
  BY DEF PoolInv
<1>2. QED
  BY <1>1, PoolInvariant, PTL

\* allocateId() never gives two calls in flight on a DoT connection the same id,
\* and an id that comes back into use has no older frame on the wire: onData() may
\* look a reply up by id alone.
THEOREM WireIdsAreOwn == Spec => []IdsAreOwn
<1>1. PoolInv => IdsAreOwn
  <2> SUFFICES ASSUME PoolInv, NEW q \in Queries, NEW c \in Conns, q \in InFlight(c),
                      conn[c].kind = "dot", conn[c].state = "up", NEW f \in conn[c].wire
               PROVE  f.id = call[q].id <=> f.query = q
    BY DEF IdsAreOwn
  <2>1. /\ f.query \in InFlight(c) /\ call[f.query].id = f.id
        /\ \A p, s \in InFlight(c) : call[p].id = call[s].id => p = s
    BY DEF PoolInv, WireInv
  <2>2. QED
    BY <2>1
<1>2. QED
  BY <1>1, PoolInvariant, PTL

\* connectionFor() keeps one connection per address: one in service that neither
\* drains nor closes is in the map, under its own address only.
THEOREM OneConnection == Spec => []OneConnectionPerAddress
<1>1. PoolInv => OneConnectionPerAddress
  <2> SUFFICES ASSUME PoolInv, NEW c \in Conns, conn[c].state = "up", ~conn[c].draining
               PROVE  Cardinality({a \in Addresses : connections[a] = c}) = 1
    BY DEF OneConnectionPerAddress
  <2>1. c[1] \in Addresses /\ c # None
    BY ConnsAreNotNone DEF Conns
  <2>2. connections[c[1]] = c /\ \A a \in Addresses : connections[a] = c => a = c[1]
    BY <2>1 DEF PoolInv, MapInv
  <2>3. {a \in Addresses : connections[a] = c} = {c[1]}
    BY <2>1, <2>2
  <2>4. Cardinality({c[1]}) = 1
    BY FS_Singleton
  <2>5. QED
    BY <2>3, <2>4
<1>2. QED
  BY <1>1, PoolInvariant, PTL

\* A query whose server offered only HTTP/1.1 is resent over it, however many
\* queries shared the session that was refused, unless it had already lost a
\* connection at that address or the pool was closed under it.
THEOREM DowngradeCostsNoAnswer == Spec => []DowngradeIsResent
<1>1. PoolInv => DowngradeIsResent
  BY DEF PoolInv
<1>2. QED
  BY <1>1, PoolInvariant, PTL

-----------------------------------------------------------------------------
\* What the caller of a query sees of a call.
LEMMA SeenFacts ==
    ASSUME NEW r
    PROVE  /\ r.phase = "idle" => Seen(r) = "idle" /\ Due(r) = 0
           /\ r.phase \in {"wait", "settled"} => Seen(r) = "asked" /\ Due(r) = r.deadline
           /\ r.phase = "done" /\ r.result # "wrong" =>
                Seen(r) \in {"answered", "failed"} /\ Due(r) = 0
           /\ r.phase = "done" /\ r.result = "none" => Seen(r) = "failed"
BY DEF Seen, Due

\* A query that was asked, is sent, lost or sent again, is still asked.
LEMMA SameView ==
    ASSUME PoolInv, UNCHANGED clock,
           \A p \in Queries :
              \/ call'[p] = call[p]
              \/ /\ call[p].phase \in {"wait", "settled"} /\ call'[p].phase \in {"wait", "settled"}
                 /\ call'[p].deadline = call[p].deadline
    PROVE  UNCHANGED Resolves!absVars
<1>1. \A p \in Queries : Seen(call'[p]) = Seen(call[p]) /\ Due(call'[p]) = Due(call[p])
  BY SeenFacts
<1>2. /\ [q \in Queries |-> Seen(call[q])]' = [q \in Queries |-> Seen(call[q])]
      /\ [q \in Queries |-> Due(call[q])]' = [q \in Queries |-> Due(call[q])]
  BY <1>1
<1>3. QED
  BY <1>2 DEF Resolves!absVars

\* An event leaves a call alone or settles it.
LEMMA EventView ==
    ASSUME PoolInv, UNCHANGED clock,
           \A p \in Queries : \/ call'[p] = call[p]
                              \/ /\ call[p].phase = "wait"
                                 /\ \E res : call'[p] = Settle(call[p], res)
    PROVE  UNCHANGED Resolves!absVars
<1>1. \A p \in Queries : call[p] \in CallType
  BY DEF PoolInv, TypeOK
<1>2. \A r \in CallType : \A res : Settle(r, res).phase = "settled" /\ Settle(r, res).deadline = r.deadline
  BY DEF Settle, CallType
<1>3. \A p \in Queries :
              \/ call'[p] = call[p]
              \/ /\ call[p].phase \in {"wait", "settled"} /\ call'[p].phase \in {"wait", "settled"}
                 /\ call'[p].deadline = call[p].deadline
  BY <1>1, <1>2
<1>4. QED
  BY <1>3, SameView

\* An attempt leaves its query in flight or settled, with its deadline.
LEMMA AttemptView ==
    ASSUME PoolInv, NEW q \in Queries, NEW r \in CallType,
           r.at \in 1..Len(r.list), NEW h1, Attempt(q, r, h1)
    PROVE  /\ call'[q].phase \in {"wait", "settled"} /\ call'[q].deadline = r.deadline
           /\ \A p \in Queries \ {q} : call'[p] = call[p]
<1>1. TypeOK /\ MapInv
  BY DEF PoolInv
<1>2. PICK x \in CallType :
        /\ call' = [call EXCEPT ![q] = x] /\ Goes(x, r)
        /\ \/ x.phase = "settled"
           \/ \E c \in Conns, k \in ConnType, y \in ConnType : Sent(q, x, c, k, y)
  BY <1>1, AttemptFacts
<1>3. x.phase \in {"wait", "settled"} /\ x.deadline = r.deadline
  BY <1>2 DEF Sent, Goes
<1>4. QED
  BY <1>1, <1>2, <1>3 DEF TypeOK

\* How the caller's view of one query changes.
LEMMA ViewOfOne ==
    ASSUME NEW q \in Queries, \A p \in Queries \ {q} : call'[p] = call[p]
    PROVE  /\ [p \in Queries |-> Seen(call[p])]' =
                [[p \in Queries |-> Seen(call[p])] EXCEPT ![q] = Seen(call'[q])]
           /\ [p \in Queries |-> Due(call[p])]' =
                [[p \in Queries |-> Due(call[p])] EXCEPT ![q] = Due(call'[q])]
<1>1. [p \in Queries |-> Seen(call'[p])] =
        [[p \in Queries |-> Seen(call[p])] EXCEPT ![q] = Seen(call'[q])]
  OBVIOUS
<1>2. [p \in Queries |-> Due(call'[p])] =
        [[p \in Queries |-> Due(call[p])] EXCEPT ![q] = Due(call'[q])]
  OBVIOUS
<1>3. QED
  BY <1>1, <1>2

\* A query with no address to go to fails at once, as Resolution allows.
LEMMA RefuseView ==
    ASSUME PoolInv, NEW q \in Queries, Refuse(q)
    PROVE  Resolves!AbsRefuse(q)
<1>1. call[q] = NoCall /\ call[q].phase = "idle" /\ call[q] \in CallType /\ UNCHANGED clock
  BY DEF PoolInv, CallInv, TypeOK, Refuse
<1>2. call' = [call EXCEPT ![q] = [call[q] EXCEPT !.phase = "done"]] /\ call \in [Queries -> CallType]
  BY DEF Refuse, PoolInv, TypeOK
<1>3. call'[q].phase = "done" /\ call'[q].result = "none"
  BY <1>1, <1>2, CallFacts, NoCallFacts
<1>4. \A p \in Queries \ {q} : call'[p] = call[p]
  BY <1>2
<1>5. Seen(call[q]) = "idle" /\ Due(call[q]) = 0 /\ Seen(call'[q]) = "failed" /\ Due(call'[q]) = 0
  BY <1>1, <1>3, SeenFacts
<1> DEFINE st == [p \in Queries |-> Seen(call[p])]
           du == [p \in Queries |-> Due(call[p])]
<1>6. st[q] = "idle" /\ st' = [st EXCEPT ![q] = "failed"]
  BY <1>4, <1>5, ViewOfOne
<1>7. du' = du
  <2>1. \A p \in Queries : Due(call'[p]) = Due(call[p])
    BY <1>4, <1>5
  <2>2. QED
    BY <2>1
<1>8. QED
  BY <1>1, <1>6, <1>7 DEF Resolves!AbsRefuse

\* query() takes a query, due Budget from now.
LEMMA QueryView ==
    ASSUME PoolInv, NEW ask \in Traffic[protocol], Query(ask[1], ask[2])
    PROVE  \E q \in Queries : Resolves!AbsAsk(q)
<1> DEFINE q == ask[1]
           list == ask[2]
           r == [NoCall EXCEPT !.list = list, !.at = 1, !.deadline = clock + Budget]
           st == [p \in Queries |-> Seen(call[p])]
           du == [p \in Queries |-> Due(call[p])]
<1>1. q \in Queries /\ list \in Seq(Addresses)
  <2>1. ask \in Queries \X Seq(Addresses)
    BY PoolAssumption DEF PoolInv, TypeOK
  <2>2. QED
    BY <2>1
<1>2. /\ call[q].phase = "idle" /\ list # << >> /\ clock + Budget <= MaxTime
      /\ Attempt(q, r, http1Only) /\ UNCHANGED clock
  BY DEF Query
<1>3. r \in CallType /\ r.at \in 1..Len(r.list) /\ r.deadline = clock + Budget
  <2>1. PICK d \in 0..MaxTime : d = clock + Budget
    BY <1>2, PoolConstants DEF PoolInv, TypeOK
  <2>2. r = [NoCall EXCEPT !.list = list, !.at = 1, !.deadline = d]
    BY <2>1
  <2>3. Len(list) \in Nat /\ Len(list) # 0
    BY <1>1, <1>2
  <2> HIDE DEF r, list
  <2>4. r \in CallType /\ r.at = 1 /\ r.list = list /\ r.deadline = d
    BY <1>1, <2>2, NoCallFacts DEF CallType
  <2>5. QED
    BY <2>1, <2>3, <2>4
<1> HIDE DEF r, q, list
<1>4. /\ call'[q].phase \in {"wait", "settled"} /\ call'[q].deadline = clock + Budget
      /\ \A p \in Queries \ {q} : call'[p] = call[p]
  BY <1>1, <1>2, <1>3, AttemptView
<1>5. Seen(call[q]) = "idle" /\ Seen(call'[q]) = "asked" /\ Due(call'[q]) = clock + Budget
  BY <1>2, <1>4, SeenFacts
<1>6. st[q] = "idle" /\ st' = [st EXCEPT ![q] = "asked"] /\ du' = [du EXCEPT ![q] = clock + Budget]
  BY <1>1, <1>4, <1>5, ViewOfOne
<1>7. Resolves!AbsAsk(q)
  BY <1>2, <1>6 DEF Resolves!AbsAsk
<1>8. QED
  BY <1>1, <1>7

\* The continuation answers its query, or sends it again within its deadline,
\* which the caller does not see.
LEMMA ResumeView ==
    ASSUME PoolInv, NEW q \in Queries, Resume(q)
    PROVE  Resolves!AbsReply(q) \/ UNCHANGED Resolves!absVars
<1> DEFINE r == call[q]
           st == [p \in Queries |-> Seen(call[p])]
           du == [p \in Queries |-> Due(call[p])]
<1>1. /\ r \in CallType /\ r.phase = "settled" /\ r.at \in 1..Len(r.list) /\ r.result # "wrong"
      /\ call \in [Queries -> CallType] /\ UNCHANGED clock
  BY DEF PoolInv, CallInv, TypeOK, Resume, Settled
<1>2. ASSUME NEW x \in CallType, x.at \in 1..Len(x.list), x.deadline = r.deadline,
             NEW h1, Attempt(q, x, h1)
      PROVE  UNCHANGED Resolves!absVars
  BY <1>1, <1>2, AttemptView, SameView
<1>3. CASE Attempt(q, [r EXCEPT !.resent = TRUE], http1Only \cup {r.list[r.at]})
  <2> DEFINE x == [r EXCEPT !.resent = TRUE]
  <2>1. x \in CallType /\ x.at \in 1..Len(x.list) /\ x.deadline = r.deadline
    BY <1>1, CallFacts
  <2> HIDE DEF x
  <2>2. QED
    BY <1>2, <1>3, <2>1 DEF x
<1>4. CASE Again(r) /\ Attempt(q, [r EXCEPT !.retry = @ + 1], http1Only)
  <2> DEFINE x == [r EXCEPT !.retry = @ + 1]
  <2>1. x \in CallType /\ x.at \in 1..Len(x.list) /\ x.deadline = r.deadline
    BY <1>1, <1>4, CallFacts DEF Again
  <2> HIDE DEF x
  <2>2. QED
    BY <1>2, <1>4, <2>1 DEF x
<1>5. CASE /\ r.at < Len(r.list)
           /\ Attempt(q, [r EXCEPT !.at = @ + 1, !.retry = 0, !.resent = FALSE], http1Only)
  <2> DEFINE x == [r EXCEPT !.at = @ + 1, !.retry = 0, !.resent = FALSE]
  <2>1. x \in CallType /\ x.at = r.at + 1 /\ x.list = r.list /\ x.deadline = r.deadline
    BY <1>1, CallFacts
  <2>2. r.at + 1 \in 1..Len(r.list)
    BY <1>1, <1>5 DEF CallType
  <2> HIDE DEF x
  <2>3. QED
    BY <1>2, <1>5, <2>1, <2>2 DEF x
<1>6. CASE call' = [call EXCEPT ![q] = Done(r)]
  <2>1. call'[q] = Done(r) /\ \A p \in Queries \ {q} : call'[p] = call[p]
    BY <1>1, <1>6
  <2>2. call'[q].phase = "done" /\ call'[q].result # "wrong"
    BY <1>1, <2>1, DoneFacts
  <2>3. Seen(call[q]) = "asked" /\ Seen(call'[q]) \in {"answered", "failed"} /\ Due(call'[q]) = 0
    BY <1>1, <2>2, SeenFacts
  <2>4. st[q] = "asked" /\ st' = [st EXCEPT ![q] = Seen(call'[q])] /\ du' = [du EXCEPT ![q] = 0]
    BY <2>1, <2>3, ViewOfOne
  <2>5. QED
    BY <1>1, <2>3, <2>4 DEF Resolves!AbsReply
<1>7. QED
  BY <1>3, <1>4, <1>5, <1>6 DEF Resume

\* Time does not pass a deadline: the timer of a call in flight is due by then,
\* and a settled call resumes before the clock moves.
LEMMA TickView ==
    ASSUME PoolInv, Tick
    PROVE  Resolves!AbsTick
<1> DEFINE st == [p \in Queries |-> Seen(call[p])]
           du == [p \in Queries |-> Due(call[p])]
<1>1. /\ clock < MaxTime /\ clock' = clock + 1 /\ UNCHANGED call /\ Quiet
      /\ \A q \in Queries : call[q].phase = "wait" => clock < call[q].timer
  BY DEF Tick
<1>2. ASSUME NEW q \in Queries, st[q] = "asked"
      PROVE  clock < du[q]
  <2>1. call[q] \in CallType /\ clock \in 0..MaxTime
    BY DEF PoolInv, TypeOK
  <2>2. call[q].phase = "wait"
    <3>1. call[q].phase \in {"idle", "wait", "settled", "done"} /\ call[q].result # "wrong" /\ call[q].phase # "settled"
      BY <1>1, <2>1 DEF CallType, PoolInv, CallInv, Quiet
    <3>2. Seen(call[q]) = "asked"
      BY <1>2
    <3>3. QED
      BY <3>1, <3>2, SeenFacts
  <2>3. du[q] = call[q].deadline
    BY <2>2, SeenFacts
  <2>4. call[q].timer <= call[q].deadline /\ call[q].timer \in Nat /\ call[q].deadline \in Nat
    BY <2>1, <2>2 DEF PoolInv, WaitingIsWatched, CallType
  <2>5. QED
    BY <1>1, <2>1, <2>2, <2>3, <2>4
<1>3. st' = st /\ du' = du
  BY <1>1
<1>4. QED
  BY <1>1, <1>2, <1>3 DEF Resolves!AbsTick

\* Every step of the pool is a step of Resolution or one its caller does not see.
LEMMA NextView ==
    ASSUME PoolInv, [Next]_vars
    PROVE  [Resolves!AbsNext]_(Resolves!absVars)
<1>1. ASSUME NEW q \in Queries, Refuse(q)
      PROVE  Resolves!AbsNext
  BY <1>1, RefuseView DEF Resolves!AbsNext
<1>2. ASSUME NEW q \in Queries, Resume(q)
      PROVE  Resolves!AbsNext \/ UNCHANGED Resolves!absVars
  BY <1>2, ResumeView DEF Resolves!AbsNext
<1>3. ASSUME NEW q \in Queries, CallTimeout(q)
      PROVE  UNCHANGED Resolves!absVars
  <2>1. call \in [Queries -> CallType]
    BY DEF PoolInv, TypeOK
  <2>2. /\ UNCHANGED clock /\ call[q].phase = "wait" /\ call'[q] = Settle(call[q], "timeout")
        /\ \A p \in Queries \ {q} : call'[p] = call[p]
    BY <1>3, <2>1 DEF CallTimeout
  <2>3. QED
    BY <2>2, EventView
<1>4. ASSUME NEW ask \in Traffic[protocol], Query(ask[1], ask[2])
      PROVE  Resolves!AbsNext
  BY <1>4, QueryView DEF Resolves!AbsNext
<1>5. ASSUME NEW c \in Conns,
             Open(c) \/ RefuseConnection(c) \/ Drop(c) \/ IdleAgent(c) \/ Goaway(c)
      PROVE  UNCHANGED Resolves!absVars
  BY <1>5, EventView DEF Open, RefuseConnection, Drop, IdleAgent, Goaway
<1>6. ASSUME NEW c \in Conns, CloseEvent(c)
      PROVE  UNCHANGED Resolves!absVars
  BY <1>6, EventView DEF CloseEvent, EndCalls
<1>7. ASSUME NEW c \in Conns, NEW f \in conn[c].wire, Reply(c, f) \/ HttpFailure(c, f)
      PROVE  UNCHANGED Resolves!absVars
  BY <1>7, EventView DEF Reply, HttpFailure, Matched, InFlight
<1>8. CASE CloseAll
  BY <1>8, EventView DEF CloseAll, EndCalls
<1>9. CASE Tick
  BY <1>9, TickView DEF Resolves!AbsNext
<1>10. CASE UNCHANGED vars
  BY <1>10, EventView DEF vars
<1>11. QED
  BY <1>1, <1>2, <1>3, <1>4, <1>5, <1>6, <1>7, <1>8, <1>9, <1>10 DEF Next

\* The pool implements Resolution: every query is answered once, with its own answer
\* or none, by its deadline.
THEOREM PoolImplementsResolution == Spec => ImplementsResolution
<1>1. Init => Resolves!AbsInit
  <2> SUFFICES ASSUME Init PROVE Resolves!AbsInit
    OBVIOUS
  <2>1. clock = 0 /\ call = [q \in Queries |-> NoCall]
    BY DEF Init
  <2>2. Seen(NoCall) = "idle" /\ Due(NoCall) = 0
    BY SeenFacts DEF NoCall
  <2>3. QED
    BY <2>1, <2>2 DEF Resolves!AbsInit
<1>2. PoolInv /\ [Next]_vars => [Resolves!AbsNext]_(Resolves!absVars)
  BY NextView
<1>3. QED
  BY <1>1, <1>2, PoolInvariant, PTL DEF Spec, ImplementsResolution, Resolves!AbsSpec
=============================================================================
