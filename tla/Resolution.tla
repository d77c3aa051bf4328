----------------------------- MODULE Resolution -----------------------------
(***************************************************************************)
(* What a resolver that takes DNS queries promises its caller, whatever it *)
(* does with connections, addresses and providers to keep the promise: a   *)
(* query that is taken is answered once, with the answer to its own        *)
(* question or with none, and no later than Budget after it was asked.     *)
(* UpstreamPool, the pool of one provider, is shown to implement it.       *)
(***************************************************************************)
EXTENDS Naturals

CONSTANTS Queries,   \* the queries of a behaviour
          Budget,    \* time from asking to the answer, at most
          MaxTime    \* bound on the clock

VARIABLES clock,     \* now
          status,    \* what the caller of each query has seen
          due        \* the time each open query must be answered by

absVars == <<clock, status, due>>

AbsStatus == {"idle", "asked", "answered", "failed"}

AbsInit ==
    /\ clock = 0
    /\ status = [q \in Queries |-> "idle"]
    /\ due = [q \in Queries |-> 0]

AbsRefuse(q) ==
    /\ status[q] = "idle"
    /\ status' = [status EXCEPT ![q] = "failed"]
    /\ UNCHANGED <<clock, due>>

AbsAsk(q) ==
    /\ status[q] = "idle"
    /\ status' = [status EXCEPT ![q] = "asked"]
    /\ due' = [due EXCEPT ![q] = clock + Budget]
    /\ UNCHANGED clock

AbsReply(q) ==
    /\ status[q] = "asked"
    /\ status' \in {[status EXCEPT ![q] = r] : r \in {"answered", "failed"}}
    /\ due' = [due EXCEPT ![q] = 0]
    /\ UNCHANGED clock

\* Time does not pass a deadline while its query is open.
AbsTick ==
    /\ clock < MaxTime
    /\ \A q \in Queries : status[q] = "asked" => clock < due[q]
    /\ clock' = clock + 1
    /\ UNCHANGED <<status, due>>

AbsNext ==
    \/ \E q \in Queries : AbsRefuse(q) \/ AbsAsk(q) \/ AbsReply(q)
    \/ AbsTick

AbsSpec == AbsInit /\ [][AbsNext]_absVars
=============================================================================
