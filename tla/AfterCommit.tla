---------------------------- MODULE AfterCommit ----------------------------
(***************************************************************************)
(* The after-commit queue: how a committed database change reaches the     *)
(* configuration the DNS and DHCP daemons run.                             *)
(*                                                                         *)
(*   server/src/utils/after-commit.js            hookState, fireHook,      *)
(*                                               holdHooks, queueRegen     *)
(*   server/src/models/configuration-generation.js   the durable row       *)
(*   server/src/services/backend-apply.js        what each hook runs       *)
(*   server/src/backends/pdns/index.js           the one handler that      *)
(*                                               returns a Promise         *)
(*   server/src/index.js                         boot                      *)
(*                                                                         *)
(* The rows a hook renders are abstracted to a version number: content[h]  *)
(* counts the committed changes hook h has to render, rendered[h] is the   *)
(* version the backend carries.                                            *)
(***************************************************************************)
EXTENDS Integers, Sequences, FiniteSets

CONSTANTS
    Hooks,       \* HOOK_ORDER
    ZoneHook,    \* 'regenerate_dns': boot always queues it
    ScopeHook,   \* 'regenerate_dhcp': boot queues it after an undone switch
    Async,       \* hooks whose handler returns a Promise (PowerDNS zones)
    Deferrable,  \* hooks whose Promise may resolve with the write left to a
                 \* background daemon restart (Authoritative not answering)
    Requests,    \* HTTP requests that may be open at once
    Holders,     \* callers of holdHooks: the stack switch, the end of boot
    MaxGen,      \* bound: changes registered per hook while the server is up
    MaxCrashes   \* bound: crashes

ASSUME HookAssumption ==
    /\ ZoneHook \in Hooks
    /\ ScopeHook \in Hooks
    /\ ZoneHook # ScopeHook
    /\ Async \subseteq Hooks
    /\ Deferrable \subseteq Async

ASSUME HolderAssumption == IsFiniteSet(Holders)

ASSUME BoundAssumption == MaxGen \in Nat /\ MaxCrashes \in Nat

VARIABLES
    \* the database
    content,   \* [Hooks -> Nat]: committed changes
    desired,   \* configuration_generations.desired_generation
    applied,   \* configuration_generations.applied_generation
    status,    \* configuration_generations.status
    \* the daemons
    rendered,  \* [Hooks -> Nat]: the version the backend carries
    \* the process
    up,        \* the process is up and has booted
    running,   \* the hooks with hookState[h].running
    pending,   \* the hooks with hookState[h].pending
    task,      \* where the run of h is
    taken,     \* the generation the run captured at markApplying, else 0
    loaded,    \* the version the write under way loaded, else 0
    bg,        \* a daemon restart a deferring handler left running
    holds,     \* the holdHooks count
    holder,    \* where each holdHooks caller is
    open,      \* hooks a request registered, its response not yet finished
    \* history
    promise,   \* [Hooks -> Seq(Nat)]: the version generation g has to carry
    crashes

database == <<content, desired, applied, status>>
hookVars == <<running, pending, task, taken>>
write    == <<loaded, bg, rendered>>
vars     == <<content, desired, applied, status, rendered, up, running, pending,
              task, taken, loaded, bg, holds, holder, open, promise, crashes>>

\* none: no run.  queued: the microtask waits.  waiting: the Promise's zone
\* write waits for its turn in zoneQueue.  writing: it loaded the zones and
\* talks to the API.
Tasks == {"none", "queued", "waiting", "writing"}

Statuses == {"pending", "applying", "applied", "failed"}

(***************************************************************************)
(* Every variable has its type; the hold count is never negative, however  *)
(* holds and releases interleave.                                          *)
(***************************************************************************)
TypeOK ==
    /\ content \in [Hooks -> Nat]
    /\ desired \in [Hooks -> Nat]
    /\ applied \in [Hooks -> Nat]
    /\ status \in [Hooks -> Statuses]
    /\ rendered \in [Hooks -> Nat]
    /\ up \in BOOLEAN
    /\ running \subseteq Hooks
    /\ pending \subseteq Hooks
    /\ task \in [Hooks -> Tasks]
    /\ taken \in [Hooks -> Nat]
    /\ loaded \in [Hooks -> Nat]
    /\ bg \in [Hooks -> {"none", "starting", "writing"}]
    /\ holds \in Nat
    /\ holder \in [Holders -> {"idle", "waiting", "held"}]
    /\ open \in [Requests -> SUBSET Hooks]
    /\ promise \in [Hooks -> Seq(Nat)]
    /\ crashes \in 0..MaxCrashes

\* A fresh install: migration 065 inserts every row at generation 0, applied.
Init ==
    /\ content = [h \in Hooks |-> 0]
    /\ desired = [h \in Hooks |-> 0]
    /\ applied = [h \in Hooks |-> 0]
    /\ status = [h \in Hooks |-> "applied"]
    /\ rendered = [h \in Hooks |-> 0]
    /\ up = TRUE
    /\ running = {}
    /\ pending = {}
    /\ task = [h \in Hooks |-> "none"]
    /\ taken = [h \in Hooks |-> 0]
    /\ loaded = [h \in Hooks |-> 0]
    /\ bg = [h \in Hooks |-> "none"]
    /\ holds = 0
    /\ holder = [x \in Holders |-> "idle"]
    /\ open = [r \in Requests |-> {}]
    /\ promise = [h \in Hooks |-> <<>>]
    /\ crashes = 0

-----------------------------------------------------------------------------
(* The durable row *)

\* enqueueGeneration for each hook of S; `promise` remembers what the new
\* generation has to carry.
enqueueGeneration(S, now) ==
    /\ desired' = [h \in Hooks |-> IF h \in S THEN desired[h] + 1 ELSE desired[h]]
    /\ status' = [h \in Hooks |-> IF h \in S THEN "pending" ELSE status[h]]
    /\ promise' = [h \in Hooks |->
                      IF h \in S THEN Append(promise[h], now[h]) ELSE promise[h]]
    /\ UNCHANGED applied

\* Mutation: the row is marked up to the generation asked for by now.
markAppliedLatest(h, g) ==
    /\ applied' = [applied EXCEPT ![h] = desired[h]]
    /\ status' = [status EXCEPT ![h] = "applied"]

\* markApplied(db, h, g): MAX(applied_generation, g), and 'pending' again
\* when a later generation was asked for meanwhile.
markApplied(h, g) ==
    /\ applied' = [applied EXCEPT ![h] = IF @ > g THEN @ ELSE g]
    /\ status' = [status EXCEPT ![h] = IF desired[h] > g THEN "pending" ELSE "applied"]

markFailed(h) ==
    /\ status' = [status EXCEPT ![h] = "failed"]
    /\ UNCHANGED applied

-----------------------------------------------------------------------------
(* Single flight *)

\* Mutation: a hook that runs or is held drops the request.
fireHookDropping(S, held) ==
    LET starts == IF held = 0 THEN S \ running ELSE {}
    IN  /\ running' = running \union starts
        /\ task' = [h \in Hooks |-> IF h \in starts THEN "queued" ELSE task[h]]
        /\ UNCHANGED <<pending, taken>>

\* fireHook for each hook of S while `held` holds are on: a hook that runs or
\* is held only remembers that it was asked for.
fireHook(S, held) ==
    LET starts == IF held = 0 THEN S \ running ELSE {}
    IN  /\ running' = running \union starts
        /\ pending' = (pending \union S) \ starts
        /\ task' = [h \in Hooks |-> IF h \in starts THEN "queued" ELSE task[h]]
        /\ UNCHANGED taken

\* Mutation: the end of a run does not look at what was asked for meanwhile.
finishAlone(h) ==
    /\ running' = running \ {h}
    /\ task' = [task EXCEPT ![h] = "none"]
    /\ taken' = [taken EXCEPT ![h] = 0]
    /\ UNCHANGED pending

\* finish(): the run is over; one asked for meanwhile starts, unless held.
finish(h) ==
    LET again == h \in pending /\ holds = 0
    IN  /\ running' = IF again THEN running ELSE running \ {h}
        /\ pending' = IF again THEN pending \ {h} ELSE pending
        /\ task' = [task EXCEPT ![h] = IF again THEN "queued" ELSE "none"]
        /\ taken' = [taken EXCEPT ![h] = 0]

-----------------------------------------------------------------------------
(* What registers work *)

\* A route handler commits a change and registers hooks S with
\* req.afterCommit; the response is still to finish.
Handle(r, S) ==
    /\ up
    /\ open[r] = {}
    /\ S # {}
    /\ \A h \in S : content[h] < MaxGen
    /\ content' = [h \in Hooks |-> IF h \in S THEN content[h] + 1 ELSE content[h]]
    /\ open' = [open EXCEPT ![r] = S]
    /\ UNCHANGED <<desired, applied, status, promise, hookVars, write, up,
                   holds, holder, crashes>>

\* res 'finish' with status < 400: each registered hook, once.
Finish(r) ==
    /\ up
    /\ open[r] # {}
    /\ enqueueGeneration(open[r], content)
    /\ fireHook(open[r], holds)
    /\ open' = [open EXCEPT ![r] = {}]
    /\ UNCHANGED <<content, write, up, holds, holder, crashes>>

\* The response ends with status >= 400, or the connection goes before it
\* finishes and 'finish' is never emitted: nothing is registered.
Abandon(r) ==
    /\ up
    /\ open[r] # {}
    /\ open' = [open EXCEPT ![r] = {}]
    /\ UNCHANGED <<database, promise, hookVars, write, up, holds, holder, crashes>>

\* queueRegen: a change made outside a request (lease sync, passive liveness,
\* an address edit) registered in the turn that committed it.
queueRegen(h) ==
    /\ up
    /\ content[h] < MaxGen
    /\ content' = [content EXCEPT ![h] = @ + 1]
    /\ enqueueGeneration({h}, content')
    /\ fireHook({h}, holds)
    /\ UNCHANGED <<write, up, holds, holder, open, crashes>>

-----------------------------------------------------------------------------
(* A run *)

\* The microtask of a synchronous handler: markApplying, render, markApplied
\* or markFailed, finish, in one turn.  A handler that throws either restored
\* the last configuration (validated files) or failed after the write.
RunSync(h) ==
    /\ up
    /\ task[h] = "queued"
    /\ h \notin Async
    /\ \/ /\ rendered' = [rendered EXCEPT ![h] = content[h]]
          /\ markApplied(h, desired[h])
       \/ /\ rendered' \in {rendered, [rendered EXCEPT ![h] = content[h]]}
          /\ markFailed(h)
    /\ finish(h)
    /\ UNCHANGED <<content, desired, promise, loaded, bg, up, holds, holder,
                   open, crashes>>

\* The microtask of a handler that returns a Promise: markApplying captures
\* the generation, and the zone write joins zoneQueue.
StartAsync(h) ==
    /\ up
    /\ task[h] = "queued"
    /\ h \in Async
    /\ taken' = [taken EXCEPT ![h] = desired[h]]
    /\ status' = [status EXCEPT ![h] = "applying"]
    /\ task' = [task EXCEPT ![h] = "waiting"]
    /\ UNCHANGED <<content, desired, applied, promise, running, pending, write,
                   up, holds, holder, open, crashes>>

\* Mutation: no zoneQueue, the write starts beside another.
LoadZonesUnqueued(h) ==
    /\ up
    /\ task[h] = "waiting"
    /\ loaded' = [loaded EXCEPT ![h] = content[h]]
    /\ task' = [task EXCEPT ![h] = "writing"]
    /\ UNCHANGED <<database, promise, running, pending, taken, bg, rendered, up,
                   holds, holder, open, crashes>>

\* Its turn in zoneQueue: the desired zones are loaded from the database.
LoadZones(h) ==
    /\ up
    /\ task[h] = "waiting"
    /\ bg[h] # "writing"
    /\ loaded' = [loaded EXCEPT ![h] = content[h]]
    /\ task' = [task EXCEPT ![h] = "writing"]
    /\ UNCHANGED <<database, promise, running, pending, taken, bg, rendered, up,
                   holds, holder, open, crashes>>

\* The Promise settles: every zone written; or refused, in part or wholly; or
\* Authoritative did not answer, and a restart left to the background counts
\* as applied (restarts that overlap are one restart here).
Settle(h) ==
    /\ up
    /\ task[h] = "writing"
    /\ \/ /\ rendered' = [rendered EXCEPT ![h] = loaded[h]]
          /\ markApplied(h, taken[h])
          /\ UNCHANGED bg
       \/ /\ rendered' \in {rendered, [rendered EXCEPT ![h] = loaded[h]]}
          /\ markFailed(h)
          /\ UNCHANGED bg
       \/ /\ h \in Deferrable
          /\ bg' = [bg EXCEPT ![h] = "starting"]
          /\ markApplied(h, taken[h])
          /\ UNCHANGED rendered
    /\ loaded' = [loaded EXCEPT ![h] = 0]
    /\ finish(h)
    /\ UNCHANGED <<content, desired, promise, up, holds, holder, open, crashes>>

\* startDaemons, left running by the handler: Authoritative answered again
\* and the zones are loaded through zoneQueue, or it never did.
ResyncZones(h) ==
    /\ up
    /\ bg[h] = "starting"
    /\ \/ /\ task[h] # "writing"
          /\ loaded' = [loaded EXCEPT ![h] = content[h]]
          /\ bg' = [bg EXCEPT ![h] = "writing"]
       \/ /\ bg' = [bg EXCEPT ![h] = "none"]
          /\ UNCHANGED loaded
    /\ UNCHANGED <<database, promise, hookVars, rendered, up, holds, holder, open,
                   crashes>>

\* That zone write ends; a failure is only logged.
ResyncDone(h) ==
    /\ up
    /\ bg[h] = "writing"
    /\ rendered' \in {rendered, [rendered EXCEPT ![h] = loaded[h]]}
    /\ bg' = [bg EXCEPT ![h] = "none"]
    /\ loaded' = [loaded EXCEPT ![h] = 0]
    /\ UNCHANGED <<database, promise, hookVars, up, holds, holder, open, crashes>>

-----------------------------------------------------------------------------
(* Holding the hooks *)

\* holdHooks is called: from here no hook starts.
Hold(x) ==
    /\ up
    /\ holder[x] = "idle"
    /\ holder' = [holder EXCEPT ![x] = "waiting"]
    /\ holds' = holds + 1
    /\ UNCHANGED <<database, promise, hookVars, write, up, open, crashes>>

\* Mutation: holdHooks resolves without waiting.
HoldGrantedAtOnce(x) ==
    /\ up
    /\ holder[x] = "waiting"
    /\ holder' = [holder EXCEPT ![x] = "held"]
    /\ UNCHANGED <<database, promise, hookVars, write, up, holds, open, crashes>>

\* Mutation: holdHooks also waits for what was asked for to run.
HoldGrantedWhenIdle(x) == pending = {} /\ running = {} /\ HoldGrantedAtOnce(x)

\* It resolves once no hook is running.
HoldGranted(x) ==
    /\ up
    /\ holder[x] = "waiting"
    /\ running = {}
    /\ holder' = [holder EXCEPT ![x] = "held"]
    /\ UNCHANGED <<database, promise, hookVars, write, up, holds, open, crashes>>

\* Mutation: no `released` flag, a release called twice counts twice.
ReleaseTwice(x) ==
    /\ up
    /\ holder[x] = "held"
    /\ holder' \in {holder, [holder EXCEPT ![x] = "idle"]}
    /\ holds' = holds - 1
    /\ fireHook(IF holds = 1 THEN pending ELSE {}, holds - 1)
    /\ UNCHANGED <<database, promise, write, up, open, crashes>>

\* Mutation: every release starts what was asked for, the last or not.
ReleaseAny(x) ==
    /\ up
    /\ holder[x] = "held"
    /\ holder' = [holder EXCEPT ![x] = "idle"]
    /\ holds' = holds - 1
    /\ fireHook(pending, 0)
    /\ UNCHANGED <<database, promise, write, up, open, crashes>>

\* The release; the last one starts what was asked for meanwhile.
Release(x) ==
    /\ up
    /\ holder[x] = "held"
    /\ holder' = [holder EXCEPT ![x] = "idle"]
    /\ holds' = holds - 1
    /\ fireHook(IF holds = 1 THEN pending ELSE {}, holds - 1)
    /\ UNCHANGED <<database, promise, write, up, open, crashes>>

-----------------------------------------------------------------------------
(* Crash and boot *)

\* The process dies: what it held in memory is gone, a zone write under way
\* may have reached the daemon or not.
Crash ==
    /\ up
    /\ crashes < MaxCrashes
    /\ crashes' = crashes + 1
    /\ up' = FALSE
    /\ rendered' \in {rendered,
           [h \in Hooks |-> IF task[h] = "writing" \/ bg[h] = "writing"
                              THEN loaded[h] ELSE rendered[h]]}
    /\ running' = {}
    /\ pending' = {}
    /\ task' = [h \in Hooks |-> "none"]
    /\ bg' = [h \in Hooks |-> "none"]
    /\ holds' = 0
    /\ holder' = [x \in Holders |-> "idle"]
    /\ open' = [r \in Requests |-> {}]
    /\ taken' = [h \in Hooks |-> 0]
    /\ loaded' = [h \in Hooks |-> 0]
    /\ UNCHANGED <<database, promise>>

\* resumePendingRegeneration's filter.
Unfinished(want, state) ==
    {h \in Hooks : want[h] > applied[h] \/ state[h] # "applied"}

\* One turn of main(): queueRegen('regenerate_dhcp') when a switch was undone,
\* resumePendingRegeneration, queueRegen('regenerate_dns'), then applyAtBoot
\* renders the listen, resolver and DHCP files, or keeps the last ones.
Boot ==
    /\ ~up
    /\ up' = TRUE
    /\ \E undone \in {{}, {ScopeHook}} :
         LET want    == [h \in Hooks |-> IF h \in undone THEN desired[h] + 1
                                                         ELSE desired[h]]
             state   == [h \in Hooks |-> IF h \in undone THEN "pending" ELSE status[h]]
             resumed == Unfinished(want, state)
         IN  /\ enqueueGeneration(undone \union {ZoneHook}, content)
             /\ running' = resumed \union {ZoneHook}
             /\ pending' = undone \union ({ZoneHook} \intersect resumed)
             /\ task' = [h \in Hooks |-> IF h \in resumed \union {ZoneHook}
                                           THEN "queued" ELSE "none"]
    /\ \E kept \in SUBSET (Hooks \ {ZoneHook}) :
         rendered' = [h \in Hooks |-> IF h = ZoneHook \/ h \in kept
                                        THEN rendered[h] ELSE content[h]]
    /\ UNCHANGED <<content, taken, loaded, bg, holds, holder, open, crashes>>

-----------------------------------------------------------------------------
Next ==
    \/ \E r \in Requests, S \in SUBSET Hooks : Handle(r, S)
    \/ \E r \in Requests : Finish(r)
    \/ \E r \in Requests : Abandon(r)
    \/ \E h \in Hooks : queueRegen(h)
    \/ \E h \in Hooks : RunSync(h)
    \/ \E h \in Hooks : StartAsync(h)
    \/ \E h \in Hooks : LoadZones(h)
    \/ \E h \in Hooks : Settle(h)
    \/ \E h \in Hooks : ResyncZones(h)
    \/ \E h \in Hooks : ResyncDone(h)
    \/ \E x \in Holders : Hold(x)
    \/ \E x \in Holders : HoldGranted(x)
    \/ \E x \in Holders : Release(x)
    \/ Crash
    \/ Boot

\* Microtasks run; the API client times out, so a Promise settles; the holder
\* polls every 50 ms and a switch has a timeout on every wait; the supervisor
\* restarts the process.  Nothing is assumed of requests or of crashes.
Fairness ==
    /\ \A h \in Hooks : /\ WF_vars(RunSync(h))
                        /\ WF_vars(StartAsync(h))
                        /\ WF_vars(LoadZones(h))
                        /\ WF_vars(Settle(h))
                        /\ WF_vars(ResyncZones(h))
                        /\ WF_vars(ResyncDone(h))
    /\ \A x \in Holders : WF_vars(HoldGranted(x)) /\ WF_vars(Release(x))
    /\ WF_vars(Boot)

Spec == Init /\ [][Next]_vars

FairSpec == Spec /\ Fairness

-----------------------------------------------------------------------------
(***************************************************************************)
(* Properties                                                              *)
(***************************************************************************)

\* "The hook runs at least once AFTER every registration" (after-commit.js,
\* the comment on hookState): while the process is up, work the row still
\* calls pending or applying has a run or a remembered request in memory.
\* Losing `pending` in any interleaving of runs, holds and releases would
\* leave a change in the database and out of the daemons for good.
NoLostWork ==
    up => \A h \in Hooks :
            status[h] \in {"pending", "applying"} => h \in running \union pending

\* A generation the row reports as applied is in the daemons: the version it
\* was registered for, or a later one, was rendered.  An asynchronous run that
\* overlaps later registrations must not claim them.
AppliedIsRendered ==
    \A h \in Hooks :
        applied[h] > 0 => rendered[h] >= promise[h][applied[h]]

\* A request remembered while nothing runs is one a hold keeps back: finish()
\* and release() leave no hook asleep with work.
PendingWaitsForSomething == holds = 0 => pending \subseteq running

\* holdHooks "waits for the hooks already running (a PowerDNS zone write
\* included)": once it resolves, and until its release, no hook runs and no
\* zone write started by one is under way.
HeldMeansQuiet ==
    (\E x \in Holders : holder[x] = "held")
        => running = {} /\ \A h \in Hooks : bg[h] # "writing"

\* The part of HeldMeansQuiet that the runner itself guarantees.
HeldMeansNotRunning ==
    (\E x \in Holders : holder[x] = "held") => running = {}

\* The configuration a daemon carries never goes back to an older version of
\* the database, whatever overlaps, fails or crashes.
RenderedNeverGoesBack ==
    [][\A h \in Hooks : rendered'[h] >= rendered[h]]_vars

\* Every generation asked for ends applied, or in a failure the row shows;
\* bursts, holds and crashes included.
EveryGenerationSettles ==
    \A h \in Hooks : \A g \in 1..(MaxGen + 2 * MaxCrashes) :
        (desired[h] = g) ~> (applied[h] >= g \/ status[h] = "failed")

\* holdHooks resolves however often hooks are asked for (or the process dies):
\* a hook asked for while a hold waits does not start.
HoldIsGranted ==
    \A x \in Holders : (holder[x] = "waiting") ~> (holder[x] # "waiting")

=============================================================================
