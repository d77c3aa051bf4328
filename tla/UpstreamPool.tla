---------------------------- MODULE UpstreamPool ----------------------------
(***************************************************************************)
(* The pool of encrypted connections to the forwarder's upstreams          *)
(* (utils/upstream-pool.js): DNS over TLS with pipelined queries matched   *)
(* by id, DNS over HTTPS with a stream per query and a fall-back to        *)
(* HTTP/1.1, one connection per address, retries, failover and deadlines.  *)
(*                                                                         *)
(* A step is one callback of the event loop (a socket event, a timer, a    *)
(* new query) or one promise continuation.  Continuations are microtasks:  *)
(* they run before the next callback, so every other action waits until    *)
(* none is pending (Quiet).                                                *)
(***************************************************************************)
EXTENDS Integers, Sequences, FiniteSets

CONSTANTS Queries,        \* the queries of a behaviour
          Addresses,      \* upstream addresses (a pool key each)
          Traffic,        \* by protocol: the pairs of a query and its upstream's
                          \* addresses that the pool may be asked
          MaxConns,       \* bound: connections to an address alive at once
          NumIds,         \* wire ids of a DoT connection (2^16)
          ClosedRetries,  \* CLOSED_RETRIES
          Timeout,        \* timeoutMs, of one send
          Budget,         \* deadline of a query, from when it is asked
          MaxTime         \* bound on the clock

ASSUME PoolAssumption ==
    /\ Traffic \in [{"dot", "doh"} -> SUBSET (Queries \X Seq(Addresses))]
    /\ {NumIds, Timeout, Budget} \subseteq Nat \ {0}
    /\ {ClosedRetries, MaxTime, MaxConns} \subseteq Nat

VARIABLES protocol,   \* of the pool: "dot" or "doh"
          retired,    \* whether closeAll() was called: each caller drops the pool with it
          clock,
          call,       \* each query's progress through query()
          conn,       \* the Connection objects
          connections,\* the pool's map: address -> connection
          http1Only   \* addresses whose DoH server offered only HTTP/1.1

vars == <<protocol, retired, clock, call, conn, connections, http1Only>>

\* A slot for a connection to an address, and the address it is to.
Conns == Addresses \X (1..MaxConns)
None == <<>>
Ids == 0..(NumIds - 1)
Fails == {"connect", "closed", "timeout", "http", "downgrade"}
Results == Fails \cup {"none", "answer", "wrong"}

\* query()'s locals, and the call object of the send it awaits.
CallType == [phase : {"idle", "wait", "settled", "done"}, list : Seq(Addresses),
             deadline : 0..MaxTime, at : Nat, resent : BOOLEAN, retry : 0..ClosedRetries,
             result : Results, on : Conns \cup {None}, id : Ids, timer : 0..MaxTime]

\* A Connection: "closing" from destroy() to its 'close' event, which ends it.
ConnType == [kind : {"dot", "h2", "h1"}, state : {"up", "closing", "ended"},
             open : BOOLEAN, draining : BOOLEAN,
             failure : {"none", "connect", "closed", "downgrade"},
             nextId : Ids, wire : SUBSET [id : Ids, query : Queries]]

NoCall == [phase |-> "idle", list |-> << >>, deadline |-> 0, at |-> 0, resent |-> FALSE,
           retry |-> 0, result |-> "none", on |-> None, id |-> 0, timer |-> 0]

NewConnection(kind) ==
    [kind |-> kind, state |-> "up", open |-> kind = "h1", draining |-> FALSE,
     failure |-> "none", nextId |-> 0, wire |-> {}]

EndedConnection == [NewConnection("dot") EXCEPT !.state = "ended"]

Init ==
    /\ protocol \in {"dot", "doh"}
    /\ retired = FALSE
    /\ clock = 0
    /\ call = [q \in Queries |-> NoCall]
    /\ conn = [c \in Conns |-> EndedConnection]
    /\ connections = [a \in Addresses |-> None]
    /\ http1Only = {}

Quiet == \A q \in Queries : call[q].phase # "settled"

InFlight(c) == {q \in Queries : call[q].phase = "wait" /\ call[q].on = c}

-----------------------------------------------------------------------------
(* Connections *)

\* Mutation: a connection that has ended is handed out again.
UsableEnded(c) == conn[c].kind = "h2" => ~conn[c].draining

\* Mutation: a connection still in its handshake is not shared.
UsableOpen(c) == conn[c].state # "ended" /\ conn[c].open /\ ~conn[c].draining

\* The getter of the two classes: a DoT connection stays usable until its
\* 'close' event; an HTTP/2 one stops with its session.
Usable(c) ==
    LET k == conn[c] IN
    /\ k.state # "ended"
    /\ k.kind = "h2" => ~k.draining /\ ~(k.open /\ k.state = "closing")

Settle(r, result) == [r EXCEPT !.phase = "settled", !.result = result,
                               !.on = None, !.id = 0, !.timer = 0]

\* end(): what every query in flight fails with.
EndFailure(k) ==
    IF k.failure # "none" THEN k.failure ELSE IF k.open THEN "closed" ELSE "connect"

\* close(): a destroyed socket or session; an HTTP/1.1 agent ends at once.
Closed(k) ==
    IF k.state = "ended" \/ k.kind = "h1" THEN EndedConnection
    ELSE [k EXCEPT !.state = "closing", !.wire = {}]

\* The calls once the connections cs have ended.
EndCalls(cs) ==
    [q \in Queries |-> IF call[q].phase = "wait" /\ call[q].on \in cs
                       THEN Settle(call[q], EndFailure(conn[call[q].on])) ELSE call[q]]

\* Mutation: a connection that let a query time out is kept.
KeepOnTimeout(k, q) == k

\* A connection whose query timed out is dropped; an HTTP/1.1 agent loses only
\* the request's socket.
CloseOnTimeout(k, q) ==
    IF k.kind = "h1" THEN [k EXCEPT !.wire = {f \in @ : f.query # q}] ELSE Closed(k)

-----------------------------------------------------------------------------
(* Sending *)

\* The slots a new connection to a may take.
FreeConns(a) == {c \in {a} \X (1..MaxConns) : conn[c].state = "ended"}

\* Mutation: what a server offered is not remembered.
KindForAny(a, h1) == IF protocol = "dot" THEN "dot" ELSE "h2"

KindFor(a, h1) == IF protocol = "dot" THEN "dot" ELSE IF a \in h1 THEN "h1" ELSE "h2"

\* connectionFor(): the connection in the map while it is usable, else a new
\* one in its place, as <<slot, connection>>.
ConnectionFor(a, h1) ==
    IF connections[a] # None /\ Usable(connections[a])
    THEN {<<connections[a], conn[connections[a]]>>}
    ELSE {<<c, NewConnection(KindFor(a, h1))>> :
             c \in {c \in FreeConns(a) : \A d \in FreeConns(a) : c[2] <= d[2]}}

\* allocateId(): the first id from nextId on that no call in flight has.
FreeIds(c, k) ==
    {i \in Ids : \A q \in InFlight(c) : call[q].id # (k.nextId + i) % NumIds}

\* Mutation: the next id, whether or not a call in flight has it.
AllocateNextId(c, k) == k.nextId

AllocateId(c, k) ==
    LET i == CHOOSE i \in FreeIds(c, k) : \A j \in FreeIds(c, k) : i <= j
    IN  (k.nextId + i) % NumIds

Least(a, b) == IF a < b THEN a ELSE b

\* send(): take an id, start the call's timer, write or queue the frame.
Send(q, r, c, k) ==
    IF k.kind = "dot" /\ FreeIds(c, k) = {}
    THEN /\ call' = [call EXCEPT ![q] = Settle(r, "closed")]
         /\ conn' = [conn EXCEPT ![c] = k]
    ELSE LET id == IF k.kind = "dot" THEN AllocateId(c, k) ELSE 0 IN
         /\ call' = [call EXCEPT ![q] =
                [r EXCEPT !.phase = "wait", !.result = "none", !.on = c, !.id = id,
                          !.timer = clock + Least(Timeout, r.deadline - clock)]]
         /\ conn' = [conn EXCEPT ![c] =
                [k EXCEPT !.nextId = (id + 1) % NumIds,
                          !.wire = @ \cup {[id |-> id, query |-> q]}]]

\* attempt(): out of time, or sent on the address's connection.
Attempt(q, r, h1) ==
    LET a == r.list[r.at] IN
    /\ http1Only' = h1
    /\ \/ /\ r.deadline <= clock
          /\ call' = [call EXCEPT ![q] = Settle(r, "timeout")]
          /\ UNCHANGED <<conn, connections>>
       \/ /\ r.deadline > clock
          /\ \E ck \in ConnectionFor(a, h1) :
                /\ connections' = [connections EXCEPT ![a] = ck[1]]
                /\ Send(q, r, ck[1], ck[2])

-----------------------------------------------------------------------------
(* query() *)

\* No address to send to, or a DoH URL that does not parse.
Refuse(q) ==
    /\ Quiet /\ ~retired
    /\ call[q].phase = "idle"
    /\ <<q, << >>>> \in Traffic[protocol]
    /\ call' = [call EXCEPT ![q].phase = "done"]
    /\ UNCHANGED <<protocol, retired, clock, conn, connections, http1Only>>

Query(q, list) ==
    /\ Quiet /\ ~retired
    /\ call[q].phase = "idle"
    /\ list # << >>
    /\ clock + Budget <= MaxTime
    /\ Attempt(q, [NoCall EXCEPT !.list = list, !.at = 1, !.deadline = clock + Budget],
               http1Only)
    /\ UNCHANGED <<protocol, retired, clock>>

Done(r) == [NoCall EXCEPT !.phase = "done", !.result = r.result, !.retry = r.retry]

\* Mutation: one retry too many.
AgainOnce(r) == r.result = "closed" /\ r.retry <= ClosedRetries

\* A query dropped with its connection is sent again.
Again(r) == r.result = "closed" /\ r.retry < ClosedRetries

\* The continuation of the await in query().
Resume(q) ==
    LET r == call[q]
        a == r.list[r.at]
        again == Again(r)
        downgraded == r.result = "downgrade" /\ ~r.resent /\ r.retry = 0
        nextAddress == ~again /\ r.result \in {"connect", "closed"} /\ r.at < Len(r.list)
    IN
    /\ r.phase = "settled"
    /\ \/ /\ downgraded
          /\ Attempt(q, [r EXCEPT !.resent = TRUE], http1Only \cup {a})
       \/ /\ again
          /\ Attempt(q, [r EXCEPT !.retry = @ + 1], http1Only)
       \/ /\ nextAddress
          /\ Attempt(q, [r EXCEPT !.at = @ + 1, !.retry = 0, !.resent = FALSE], http1Only)
       \/ /\ ~downgraded /\ ~again /\ ~nextAddress
          /\ call' = [call EXCEPT ![q] = Done(r)]
          /\ UNCHANGED <<conn, connections, http1Only>>
    /\ UNCHANGED <<protocol, retired, clock>>

-----------------------------------------------------------------------------
(* Socket events and timers *)

\* secureConnect with a verified certificate (and h2 agreed): the queue is
\* written.  The wire then holds what the server has to answer.
Open(c) ==
    /\ Quiet
    /\ conn[c].state = "up" /\ ~conn[c].open
    /\ conn' = [conn EXCEPT ![c].open = TRUE]
    /\ UNCHANGED <<protocol, retired, clock, call, connections, http1Only>>

\* secureConnect refused: a certificate that does not verify, or an HTTPS
\* server that did not agree on h2.
RefuseConnection(c) ==
    /\ Quiet
    /\ conn[c].state = "up" /\ ~conn[c].open
    /\ \E f \in {"connect"} \cup (IF conn[c].kind = "h2" THEN {"downgrade"} ELSE {}) :
          conn' = [conn EXCEPT ![c] = [Closed(conn[c]) EXCEPT !.failure = f]]
    /\ UNCHANGED <<protocol, retired, clock, call, connections, http1Only>>

\* The peer, or the network, takes the connection down, with an error
\* (failed()) or without; an idle timer destroys it.
Drop(c) ==
    /\ Quiet
    /\ conn[c].state = "up" /\ conn[c].kind # "h1"
    /\ conn' = [conn EXCEPT ![c] = Closed(conn[c])]
    /\ UNCHANGED <<protocol, retired, clock, call, connections, http1Only>>

\* The idle timer of an HTTP/1.1 agent (the others: Drop).
IdleAgent(c) ==
    /\ Quiet
    /\ conn[c].state = "up" /\ conn[c].kind = "h1" /\ InFlight(c) = {}
    /\ conn' = [conn EXCEPT ![c] = Closed(conn[c])]
    /\ UNCHANGED <<protocol, retired, clock, call, connections, http1Only>>

\* The server sent GOAWAY: finish what is in flight, start nothing.  Bound:
\* one connection drains at a time.
Goaway(c) ==
    /\ Quiet
    /\ conn[c].state = "up" /\ conn[c].kind = "h2" /\ conn[c].open
    /\ \A d \in Conns : ~conn[d].draining
    /\ conn' = [conn EXCEPT ![c].draining = TRUE]
    /\ UNCHANGED <<protocol, retired, clock, call, connections, http1Only>>

\* 'close': end() settles everything in flight.
CloseEvent(c) ==
    /\ Quiet
    /\ conn[c].state = "closing"
    /\ conn' = [conn EXCEPT ![c] = EndedConnection]
    /\ call' = EndCalls({c})
    /\ UNCHANGED <<protocol, retired, clock, connections, http1Only>>

\* The call a frame's reply belongs to: by wire id on a DoT stream, by its
\* own HTTP stream or request otherwise.
Matched(c, f) ==
    {q \in InFlight(c) : IF conn[c].kind = "dot" THEN call[q].id = f.id ELSE q = f.query}

\* The server answers a frame: onData() and its HTTP counterparts.  A reply
\* nothing waits for is dropped.
Reply(c, f) ==
    /\ Quiet
    /\ conn[c].state = "up" /\ conn[c].open
    /\ conn' = [conn EXCEPT ![c].wire = @ \ {f}]
    /\ call' = [q \in Queries |->
          IF q \in Matched(c, f)
          THEN Settle(call[q], IF q = f.query THEN "answer" ELSE "wrong") ELSE call[q]]
    /\ UNCHANGED <<protocol, retired, clock, connections, http1Only>>

\* HTTP only: an error status, or a stream or request that goes down alone.
HttpFailure(c, f) ==
    /\ Quiet
    /\ conn[c].state = "up" /\ conn[c].open /\ conn[c].kind # "dot"
    /\ conn' = [conn EXCEPT ![c].wire = @ \ {f}]
    /\ \E fail \in {"http", "closed"} \cup (IF conn[c].kind = "h1" THEN {"connect"} ELSE {}) :
          call' = [q \in Queries |->
              IF q \in Matched(c, f) THEN Settle(call[q], fail) ELSE call[q]]
    /\ UNCHANGED <<protocol, retired, clock, connections, http1Only>>

\* begin()'s timer: the call fails, and its connection with it.
CallTimeout(q) ==
    LET c == call[q].on IN
    /\ Quiet
    /\ call[q].phase = "wait" /\ call[q].timer = clock
    /\ call' = [call EXCEPT ![q] = Settle(call[q], "timeout")]
    /\ conn' = [conn EXCEPT ![c] = CloseOnTimeout(conn[c], q)]
    /\ UNCHANGED <<protocol, retired, clock, connections, http1Only>>

\* closeAll(), on a settings change or at the end of a probe: the caller drops the
\* pool, so that nothing is asked of it again, and the queries in flight go on.
CloseAll ==
    LET mapped == {c \in Conns : \E a \in Addresses : connections[a] = c} IN
    /\ Quiet /\ ~retired
    /\ retired' = TRUE
    /\ connections' = [a \in Addresses |-> None]
    /\ conn' = [c \in Conns |-> IF c \in mapped THEN Closed(conn[c]) ELSE conn[c]]
    /\ call' = EndCalls({c \in mapped : conn[c].kind = "h1"})
    /\ UNCHANGED <<protocol, clock, http1Only>>

\* Timers fire when they are due, and a 'close' follows its destroy() within
\* a turn of the event loop: time does not pass before either.
Tick ==
    /\ Quiet
    /\ clock < MaxTime
    /\ \A q \in Queries : call[q].phase = "wait" => clock < call[q].timer
    /\ \A c \in Conns : conn[c].state # "closing"
    /\ clock' = clock + 1
    /\ UNCHANGED <<protocol, retired, call, conn, connections, http1Only>>

Next ==
    \/ \E q \in Queries :
          Refuse(q) \/ Resume(q) \/ CallTimeout(q)
    \/ \E ask \in Traffic[protocol] : Query(ask[1], ask[2])
    \/ \E c \in Conns :
          \/ Open(c) \/ RefuseConnection(c) \/ Drop(c) \/ IdleAgent(c) \/ Goaway(c)
          \/ CloseEvent(c)
          \/ \E f \in conn[c].wire : Reply(c, f) \/ HttpFailure(c, f)
    \/ CloseAll
    \/ Tick

Spec == Init /\ [][Next]_vars

-----------------------------------------------------------------------------
(* Properties *)

\* Each variable has its type.
TypeOK ==
    /\ protocol \in {"dot", "doh"}
    /\ retired \in BOOLEAN
    /\ clock \in 0..MaxTime
    /\ call \in [Queries -> CallType]
    /\ conn \in [Conns -> ConnType]
    /\ connections \in [Addresses -> Conns \cup {None}]
    /\ http1Only \subseteq Addresses

\* A query in flight is always watched: its connection has not ended, so that
\* end() will still settle it, and its timer is due by the query's deadline.
\* A send that slipped onto a connection already destroyed is the case at
\* risk (DotConnection stays usable until its 'close' event).
WaitingIsWatched ==
    \A q \in Queries : call[q].phase = "wait" =>
        /\ conn[call[q].on].state # "ended"
        /\ clock <= call[q].timer /\ call[q].timer <= call[q].deadline

\* The calls in flight on a DoT connection have different wire ids, each with
\* a frame that carries that id and that query: what onData() relies on when
\* it looks a reply up by id alone.
IdsAreOwn ==
    \A q \in Queries : \A c \in Conns :
        (q \in InFlight(c) /\ conn[c].kind = "dot" /\ conn[c].state = "up") =>
            \A f \in conn[c].wire : f.id = call[q].id <=> f.query = q

\* One connection per upstream address carries every query: two connections
\* to an address are both in service only while one of them drains or closes.
OneConnectionPerAddress ==
    \A c \in Conns : conn[c].state = "up" /\ ~conn[c].draining =>
        Cardinality({a \in Addresses : connections[a] = c}) = 1

\* A server that offers only HTTP/1.1 costs no query its answer ("a DOWNGRADE
\* is resent at once", line 52), unless the query had already lost a
\* connection at that address (the retry loop does not look for a DOWNGRADE) or
\* closeAll() cleared the map under it, which lets a second session be opened
\* before the first one's refusal is known.
DowngradeIsResent ==
    \A q \in Queries :
        call[q].phase = "done" /\ call[q].result = "downgrade" => call[q].retry > 0 \/ retired

\* What query()'s caller has seen, and by when it must have seen an answer.
Seen(r) ==
    CASE r.phase = "idle" -> "idle"
      [] r.phase \in {"wait", "settled"} -> "asked"
      [] r.phase = "done" /\ r.result = "answer" -> "answered"
      [] r.phase = "done" /\ r.result = "wrong" -> "wrong"
      [] OTHER -> "failed"

Due(r) == IF r.phase \in {"wait", "settled"} THEN r.deadline ELSE 0

Resolves ==
    INSTANCE Resolution WITH
        status <- [q \in Queries |-> Seen(call[q])],
        due <- [q \in Queries |-> Due(call[q])]

\* The pool implements Resolution: through retries, failovers, timeouts, id
\* reuse and a closeAll() under way, query() resolves once, with its own
\* answer or null, by its deadline.
ImplementsResolution == Resolves!AbsSpec
=============================================================================
