---------------------------- MODULE StackSwitch ----------------------------
(***************************************************************************)
(* Moving DNS, DHCP and the Router Advertisements between the two backend  *)
(* stacks, with the leases, and undoing a switch that fails or that a      *)
(* crash interrupts.                                                       *)
(*                                                                         *)
(*   server/src/services/stack-switch.js     the switch, its rollback, boot *)
(*   server/src/backends/index.js            the stack, the quiesced set   *)
(*   server/src/backends/shared/unit-control.js  restart, reload, stop     *)
(*   server/src/backends/{pdns,kea,radvd,dnsmasq}/index.js                 *)
(*   server/src/services/backend-apply.js    applyDhcp, applyAtBoot        *)
(*                                                                         *)
(* The steps of a switch are those between two awaits.  A lease is its     *)
(* address.  Daemons are external: they are up or not, hand out leases     *)
(* while they serve DHCP, and Kea rereads its file some time after SIGHUP. *)
(***************************************************************************)
EXTENDS Integers, FiniteSets

CONSTANTS
    Addrs,        \* addresses a DHCP server may hand out
    MaxSwitches,  \* bound: switches asked for
    MaxFaults,    \* bound: steps that fail
    MaxCrashes    \* bound: crashes of the process

ASSUME SwitchBounds ==
    MaxSwitches \in Nat /\ MaxFaults \in Nat /\ MaxCrashes \in Nat

VARIABLES
    \* durable
    setting,    \* backend_stack
    marker,     \* MARKER_FILE: the stack the switch goes to, or "none"
    store,      \* [Servers -> SUBSET Addrs]: each DHCP server's leases
    \* the daemons
    up,         \* the daemons running
    kea,        \* [file, listens, hup]: what Kea's file says, whether its
                \* sockets are open, and whether a SIGHUP is on its way
    \* the process
    pc,         \* where the switch, the rollback or the boot is
    st,         \* switchStack's st
    stack,      \* the stack in memory
    quiesced,   \* Kea is in the quiesced set
    starting,   \* a startDaemons nobody awaits still has Recursor to start
    wantsRa,    \* radvd has something to advertise: a live DHCPv6 scope
    \* history
    owed,       \* leases the source had, and those handed out since
    told,       \* since boot a switch ended saying that it did not record, or
                \* that putting the source back failed
    unstopped,  \* daemons that were told to stop and did not
    faults, crashes, switches

durable == <<setting, marker>>
daemons == <<up, kea, unstopped>>
memory  == <<stack, quiesced>>
history == <<owed, told>>
counts  == <<crashes, switches, wantsRa>>
vars    == <<setting, marker, store, up, kea, pc, st, stack, quiesced, starting,
             wantsRa, owed, told, unstopped, faults, crashes, switches>>

Stacks  == {"dnsmasq", "pdns-kea"}
Servers == {"dnsmasq", "kea"}
Daemons == {"dnsmasq", "kea", "auth", "recursor", "radvd"}

Other(s) == IF s = "dnsmasq" THEN "pdns-kea" ELSE "dnsmasq"

\* STACKS[s].dhcp, and the daemons of a stack.
Dhcp(s)    == IF s = "dnsmasq" THEN "dnsmasq" ELSE "kea"
Service(s) == IF s = "dnsmasq" THEN {"dnsmasq"} ELSE Daemons \ {"dnsmasq"}

\* Steps of switchStack before its commit: an error there rolls back.
Forward  == {"hold", "stage", "stageKea", "quiesce", "quiet", "stop", "read",
             "import", "add", "start", "await", "verify"}
Rollback == {"rbRead", "rbStop", "rbStart", "rbAwait", "rbImport", "rbAdd"}
Booting  == {"boot", "bootCarry", "bootStop", "bootApply"}
Steps    == Forward \union Rollback \union Booting
              \union {"idle", "commit", "record", "done", "down"}

Outcomes == {"none", "committed", "unrecorded", "rolledBack", "rollbackFailed"}

\* A value that may be null is a set with at most one member.
Fresh(target) ==
    [to |-> target, stopped |-> FALSE, selected |-> FALSE, leases |-> {},
     refused |-> {}, back |-> {}, problems |-> FALSE, outcome |-> "none"]

States ==
    [to : Stacks, stopped : BOOLEAN, selected : BOOLEAN,
     leases : SUBSET SUBSET Addrs, refused : SUBSET Addrs,
     back : SUBSET SUBSET Addrs, problems : BOOLEAN, outcome : Outcomes]

(***************************************************************************)
(* Every variable has its type; a switch goes to one of the two stacks.    *)
(***************************************************************************)
TypeOK ==
    /\ setting \in Stacks
    /\ marker \in Stacks \union {"none"}
    /\ store \in [Servers -> SUBSET Addrs]
    /\ up \subseteq Daemons
    /\ kea \in [file : BOOLEAN, listens : BOOLEAN, hup : BOOLEAN]
    /\ pc \in Steps
    /\ st \in States
    /\ stack \in Stacks
    /\ quiesced \in BOOLEAN
    /\ starting \in BOOLEAN
    /\ wantsRa \in BOOLEAN
    /\ owed \subseteq Addrs
    /\ told \in BOOLEAN
    /\ unstopped \subseteq Daemons
    /\ faults \in 0..MaxFaults
    /\ crashes \in 0..MaxCrashes
    /\ switches \in 0..MaxSwitches

\* A booted process whose stack serves; the other server may have leases from
\* an earlier time it served.
Init ==
    /\ setting \in Stacks
    /\ stack = setting
    /\ marker = "none"
    /\ store \in [Servers -> SUBSET Addrs]
    /\ wantsRa \in BOOLEAN
    /\ up = IF wantsRa THEN Service(setting) ELSE Service(setting) \ {"radvd"}
    /\ kea = [file |-> setting = "pdns-kea", listens |-> setting = "pdns-kea",
              hup |-> FALSE]
    /\ pc = "idle"
    /\ st = Fresh(setting)
    /\ quiesced = FALSE
    /\ starting = FALSE
    /\ owed = {}
    /\ told = FALSE
    /\ unstopped = {}
    /\ faults = 0
    /\ crashes = 0
    /\ switches = 0

-----------------------------------------------------------------------------
(* Daemons *)

Serving(d) == d \in up /\ (d = "kea" => kea.listens)

\* Mutation: Kea serves whatever the stack, unless held quiet.
servesAlways(s, q) == ~q

\* servesDhcp('kea'), which Kea's render asks.
servesDhcp(s, q) == s = "pdns-kea" /\ ~q

\* A DHCP server hands out an address it has no lease for.
Grant(d, a) ==
    /\ Serving(d)
    /\ a \notin store[d]
    /\ store' = [store EXCEPT ![d] = @ \union {a}]
    /\ owed' = owed \union {a}
    /\ UNCHANGED <<durable, told, daemons, pc, st, memory, starting, faults, counts>>

\* Kea handles its SIGHUP: it opens the sockets its file names, or closes them.
Reload ==
    /\ "kea" \in up
    /\ kea.hup
    /\ kea' = [kea EXCEPT !.listens = kea.file, !.hup = FALSE]
    /\ UNCHANGED <<durable, store, up, pc, st, memory, starting, history,
                   unstopped, faults, counts>>

\* A step or a unit fails: once per fault of the bound.
Fault   == faults < MaxFaults /\ faults' = faults + 1
NoFault == UNCHANGED faults

\* unit.stop() and awaitStopped() for each of D; those of S will not stop.
stopAll(D, S) ==
    /\ S \subseteq D \intersect up
    /\ up' = up \ (D \ S)
    /\ unstopped' = (unstopped \ D) \union S
    /\ IF S = {} THEN NoFault ELSE Fault

\* kea.applyScopes: the file is rendered; a running Kea whose file changed is
\* told to reload, and a reload that fails is only a warning.
applyScopes(s, q, U) ==
    LET serves == servesDhcp(s, q)
    IN  IF "kea" \in U /\ serves # kea.file
        THEN \/ kea' = [kea EXCEPT !.file = serves, !.hup = TRUE] /\ NoFault
             \/ kea' = [kea EXCEPT !.file = serves] /\ Fault
        ELSE kea' = [kea EXCEPT !.file = serves] /\ NoFault

-----------------------------------------------------------------------------
(* The background start of PowerDNS *)

\* startDaemons(which): Authoritative starts; Recursor waits, unawaited, until
\* Authoritative answers.  Recursor alone starts at once.
startDaemons(which, U) ==
    /\ up' = IF "auth" \in which THEN U \union {"auth"} ELSE U \union which
    /\ starting' = (starting \/ {"auth", "recursor"} \subseteq which)

\* A zone write that finds Authoritative not answering, or a change of the
\* listen addresses: restartAll, awaited by nobody.
restartAll ==
    /\ pc = "idle"
    /\ stack = "pdns-kea"
    /\ ~starting
    /\ startDaemons({"auth", "recursor"}, up)
    /\ UNCHANGED <<durable, store, kea, pc, st, memory, history, unstopped, faults,
                   counts>>

\* The end of startDaemons, whatever has happened since.
StartRecursor ==
    /\ pc # "down"
    /\ starting
    /\ up' = up \union {"recursor"}
    /\ starting' = FALSE
    /\ UNCHANGED <<durable, store, kea, pc, st, memory, history, unstopped, faults,
                   counts>>

-----------------------------------------------------------------------------
(* switchStack *)

\* switchPreflight passed, the switch is in progress.
switchStack(target) ==
    /\ pc = "idle"
    /\ target # stack
    /\ switches < MaxSwitches
    /\ switches' = switches + 1
    /\ pc' = "hold"
    /\ st' = Fresh(target)
    /\ owed' = store[Dhcp(stack)]
    /\ UNCHANGED <<durable, told, store, daemons, memory, starting, faults, crashes,
                   wantsRa>>

\* The hooks and the lease sync are held; the marker is written.
Held ==
    /\ pc = "hold"
    /\ marker' = st.to
    /\ pc' = "stage"
    /\ UNCHANGED <<setting, store, daemons, st, memory, starting, history, faults,
                   counts>>

\* pdns.stage: Authoritative runs with the zones, Recursor does not;
\* dnsmasq.stage: the files, nothing started.
Stage ==
    /\ pc = "stage"
    /\ IF st.to = "pdns-kea"
       THEN /\ up' = up \union {"auth"}
            /\ pc' = "stageKea"
       ELSE /\ UNCHANGED up
            /\ pc' = "quiesce"
    /\ UNCHANGED <<durable, store, kea, unstopped, st, memory, starting, history,
                   faults, counts>>

\* kea.stage: rendered (listening nowhere, it is not the DHCP backend yet) and
\* restarted; radvd.stage: radvd's file, radvd not started.
StageKea ==
    /\ pc = "stageKea"
    /\ kea' = LET serves == servesDhcp(stack, quiesced)
              IN  [file |-> serves, listens |-> serves, hup |-> FALSE]
    /\ up' = up \union {"kea"}
    /\ pc' = "stop"
    /\ UNCHANGED <<durable, store, unstopped, st, memory, starting, history, faults,
                   counts>>

\* setDhcpServing('kea', false) and the render that makes Kea listen nowhere.
Quiesce ==
    /\ pc = "quiesce"
    /\ quiesced' = TRUE
    /\ applyScopes(stack, TRUE, up)
    /\ pc' = "quiet"
    /\ UNCHANGED <<durable, store, up, unstopped, st, stack, starting, history, counts>>

\* kea.awaitRunning while Kea does not serve: any answer of its API will do,
\* and a Kea that is down times out.
AwaitQuiet ==
    /\ pc = "quiet"
    /\ pc' = IF "kea" \in up THEN "read" ELSE "rbRead"
    /\ UNCHANGED <<durable, store, daemons, st, memory, starting, history, faults,
                   counts>>

\* settledLeases(source) and the snapshot.
Read ==
    /\ pc = "read"
    /\ st' = [st EXCEPT !.leases = {store[Dhcp(Other(st.to))]}]
    /\ pc' = "import"
    /\ UNCHANGED <<durable, store, daemons, memory, starting, history, faults, counts>>

\* dnsmasq.importLeases: the lease file is replaced.
\* kea.importLeases, its first half: every lease Kea had is deleted.
Import ==
    /\ pc = "import"
    /\ IF st.to = "dnsmasq"
       THEN /\ store' = [store EXCEPT !["dnsmasq"] = UNION st.leases]
            /\ pc' = "stop"
       ELSE /\ store' = [store EXCEPT !["kea"] = {}]
            /\ pc' = "add"
    /\ UNCHANGED <<durable, daemons, st, memory, starting, history, faults, counts>>

\* Mutation: a lease Kea refuses is not reported.
AddSilently ==
    /\ pc = "add"
    /\ \E refused \in SUBSET UNION st.leases :
         store' = [store EXCEPT !["kea"] = @ \union ((UNION st.leases) \ refused)]
    /\ pc' = "start"
    /\ UNCHANGED <<durable, daemons, st, memory, starting, history, faults, counts>>

\* kea.importLeases, its second half: a lease Kea refuses is reported.
Add ==
    /\ pc = "add"
    /\ \E refused \in SUBSET UNION st.leases :
         /\ store' = [store EXCEPT !["kea"] = @ \union ((UNION st.leases) \ refused)]
         /\ st' = [st EXCEPT !.refused = refused]
    /\ pc' = "start"
    /\ UNCHANGED <<durable, daemons, memory, starting, history, faults, counts>>

\* stopAll on the source's services: all stop, or some will not and the
\* switch fails with the source counted as stopped.
StopSource ==
    /\ pc = "stop"
    /\ st' = [st EXCEPT !.stopped = TRUE]
    /\ \E S \in SUBSET up :
         /\ stopAll(Service(Other(st.to)), S)
         /\ pc' = IF S # {} THEN "rbRead"
                  ELSE IF st.to = "pdns-kea" THEN "read" ELSE "start"
    /\ kea' = IF "kea" \in up' THEN kea ELSE [kea EXCEPT !.listens = FALSE, !.hup = FALSE]
    /\ UNCHANGED <<durable, store, memory, starting, history, counts>>

\* The target becomes the stack.  To PowerDNS and Kea: applyDhcp (Kea reloads;
\* radvd's file is what stage wrote, so its activation is 'none' and it is not
\* started) and pdns.activate.  To dnsmasq: it restarts.
Start ==
    /\ pc = "start"
    /\ stack' = st.to
    /\ st' = [st EXCEPT !.selected = TRUE]
    /\ IF st.to = "pdns-kea"
       THEN /\ applyScopes("pdns-kea", quiesced, up)
            /\ startDaemons({"auth", "recursor"} \ up, up)
            /\ UNCHANGED quiesced
       ELSE /\ quiesced' = FALSE
            /\ up' = up \union {"dnsmasq"}
            /\ NoFault
            /\ UNCHANGED <<kea, starting>>
    /\ pc' = "await"
    /\ UNCHANGED <<durable, store, unstopped, history, counts>>

\* Start fails: applyDhcp throws, or the daemon does not come up.
StartFails ==
    /\ pc = "start"
    /\ Fault
    /\ stack' = st.to
    /\ st' = [st EXCEPT !.selected = TRUE]
    /\ quiesced' = (quiesced /\ st.to = "pdns-kea")
    /\ pc' = "rbRead"
    /\ UNCHANGED <<durable, store, daemons, starting, history, counts>>

\* The daemons awaitRunning waits for.
Awaited == IF wantsRa THEN Service(st.to) ELSE Service(st.to) \ {"radvd"}

\* Mutation: awaitRunning has no timeout.
AwaitRunningForever ==
    /\ pc = "await"
    /\ Awaited \subseteq up
    /\ pc' = "verify"
    /\ UNCHANGED <<durable, store, daemons, st, memory, starting, history, faults,
                   counts>>

\* awaitRunning of each service; one that is not running times out.
AwaitRunning ==
    /\ pc = "await"
    /\ \/ Awaited \subseteq up /\ pc' = "verify"
       \/ ~(Awaited \subseteq up) /\ ~starting /\ pc' = "rbRead"
    /\ UNCHANGED <<durable, store, daemons, st, memory, starting, history, faults,
                   counts>>

\* missingLeases (reported) and verifyZones.
Verify ==
    /\ pc = "verify"
    /\ pc' = "commit"
    /\ UNCHANGED <<durable, store, daemons, st, memory, starting, history, faults,
                   counts>>

\* Kea's API fails while its leases are deleted one by one.
PartlyWiped == store' \in {[store EXCEPT !["kea"] = kept] : kept \in SUBSET store["kea"]}

\* An awaited step that throws, before it has done anything or partway.
StepFails ==
    /\ pc \in Forward \ {"stop", "start"}
    /\ Fault
    /\ pc' = "rbRead"
    /\ IF pc = "import" /\ st.to = "pdns-kea" THEN PartlyWiped ELSE UNCHANGED store
    /\ UNCHANGED <<durable, daemons, st, memory, starting, history, counts>>

\* commit: the setting ...
CommitSetting ==
    /\ pc = "commit"
    /\ setting' = st.to
    /\ pc' = "record"
    /\ UNCHANGED <<marker, store, daemons, st, memory, starting, history, faults, counts>>

\* ... and then the stack file and the marker.
CommitFiles ==
    /\ pc = "record"
    /\ marker' = "none"
    /\ st' = [st EXCEPT !.outcome = "committed"]
    /\ pc' = "done"
    /\ UNCHANGED <<setting, store, daemons, memory, starting, history, faults, counts>>

\* An error in the commit is reported, and nothing is rolled back.
CommitFails ==
    /\ pc \in {"commit", "record"}
    /\ Fault
    /\ st' = [st EXCEPT !.outcome = "unrecorded"]
    /\ told' = TRUE
    /\ pc' = "done"
    /\ UNCHANGED <<durable, store, daemons, memory, starting, owed, counts>>

\* finally: no switch in progress, the holds released.
Finally ==
    /\ pc = "done"
    /\ pc' = "idle"
    /\ UNCHANGED <<durable, store, daemons, st, memory, starting, history, faults,
                   counts>>

-----------------------------------------------------------------------------
(* rollBackToDnsmasq, rollBackToPdnsKea *)

\* Mutation: a rollback leaves the marker.
RollbackDoneMarked ==
    /\ pc' = "done"
    /\ st' = [st EXCEPT !.outcome = "rolledBack"]
    /\ UNCHANGED <<marker, told>>

\* The rollback is over, and the marker is cleared.
RollbackDone ==
    /\ pc' = "done"
    /\ marker' = "none"
    /\ st' = [st EXCEPT !.outcome = "rolledBack"]
    /\ UNCHANGED told

\* The rollback threw: the marker stays, and the error says so.
RollbackFailed ==
    /\ pc' = "done"
    /\ st' = [st EXCEPT !.outcome = "rollbackFailed"]
    /\ told' = TRUE
    /\ UNCHANGED marker

\* targetLeases: what the target has if it was selected, else null; a target
\* that cannot be read counts as having what it was given.
TargetLeases ==
    /\ pc = "rbRead"
    /\ \/ /\ st' = [st EXCEPT !.back = IF st.selected THEN {store[Dhcp(st.to)]} ELSE {}]
          /\ NoFault
       \/ /\ st.selected
          /\ st' = [st EXCEPT !.back = st.leases]
          /\ Fault
    /\ pc' = "rbStop"
    /\ UNCHANGED <<durable, store, daemons, memory, starting, history, counts>>

\* The target's daemons stop.  Back to dnsmasq a daemon that will not is
\* collected in `problems`, and a dnsmasq never stopped needs no more; back to
\* PowerDNS and Kea it ends the rollback.
StopTarget ==
    /\ pc = "rbStop"
    /\ \E S \in SUBSET up :
         /\ stopAll(Service(st.to), S)
         /\ IF st.to = "pdns-kea"
            THEN /\ stack' = "dnsmasq"
                 /\ quiesced' = FALSE
                 /\ \/ /\ st.stopped
                       /\ pc' = "rbStart"
                       /\ st' = [st EXCEPT !.problems = (S # {})]
                       /\ UNCHANGED <<marker, told>>
                    \/ ~st.stopped /\ S = {} /\ RollbackDone
                    \/ ~st.stopped /\ S # {} /\ RollbackFailed
            ELSE /\ UNCHANGED memory
                 /\ \/ S = {} /\ pc' = "rbStart" /\ UNCHANGED <<st, marker, told>>
                    \/ S # {} /\ RollbackFailed
    /\ kea' = IF "kea" \in up' THEN kea ELSE [kea EXCEPT !.listens = FALSE, !.hup = FALSE]
    /\ UNCHANGED <<setting, store, starting, owed, counts>>

\* dnsmasq gets the leases and restarts.  Or: PowerDNS is activated, a stopped
\* Kea restarts with the file it has, applyDhcp makes it listen, and radvd's
\* file, unchanged, starts nothing.
RestartSource ==
    /\ pc = "rbStart"
    /\ IF st.to = "pdns-kea"
       THEN /\ store' = IF st.back = {} THEN store
                        ELSE [store EXCEPT !["dnsmasq"] = UNION st.back]
            /\ up' = up \union {"dnsmasq"}
            /\ NoFault
            /\ UNCHANGED <<kea, memory, starting>>
       ELSE /\ stack' = "pdns-kea"
            /\ quiesced' = FALSE
            /\ startDaemons({"auth", "recursor"} \ up, up \union {"kea"})
            /\ IF "kea" \in up
               THEN applyScopes("pdns-kea", FALSE, up)
               ELSE \/ /\ NoFault
                       /\ kea' = [file |-> TRUE, listens |-> kea.file, hup |-> ~kea.file]
                    \/ /\ Fault
                       /\ kea' = [file |-> TRUE, listens |-> kea.file, hup |-> FALSE]
            /\ UNCHANGED store
    /\ pc' = "rbAwait"
    /\ UNCHANGED <<durable, st, unstopped, history, counts>>

\* dnsmasq's import throws, or dnsmasq refuses its files after it; or applyDhcp
\* throws with PowerDNS and Kea activated.
RestartSourceFails ==
    /\ pc = "rbStart"
    /\ Fault
    /\ RollbackFailed
    /\ IF st.to = "pdns-kea"
       THEN /\ \/ UNCHANGED store
               \/ st.back # {} /\ store' = [store EXCEPT !["dnsmasq"] = UNION st.back]
            /\ UNCHANGED <<up, kea, memory, starting>>
       ELSE /\ stack' = "pdns-kea"
            /\ quiesced' = FALSE
            /\ startDaemons({"auth", "recursor"} \ up, up \union {"kea"})
            /\ kea' = IF "kea" \in up THEN kea
                      ELSE [kea EXCEPT !.listens = kea.file, !.hup = FALSE]
            /\ UNCHANGED store
    /\ UNCHANGED <<setting, unstopped, owed, counts>>

\* Mutation: a daemon of the target that would not stop is forgotten.
AwaitSourceOnly ==
    /\ pc = "rbAwait"
    /\ \/ st.to = "dnsmasq" /\ st.back # {} /\ pc' = "rbImport" /\ UNCHANGED <<st, marker, told>>
       \/ (st.to = "pdns-kea" \/ st.back = {}) /\ RollbackDone
    /\ UNCHANGED <<setting, store, daemons, memory, starting, owed, faults, counts>>

\* dnsmasq.awaitRunning, or kea.awaitRunning and then the leases if any.
AwaitSource ==
    /\ pc = "rbAwait"
    /\ IF st.to = "pdns-kea"
       THEN IF st.problems THEN RollbackFailed ELSE RollbackDone
       ELSE \/ st.back # {} /\ pc' = "rbImport" /\ UNCHANGED <<st, marker, told>>
            \/ st.back = {} /\ RollbackDone
    /\ UNCHANGED <<setting, store, daemons, memory, starting, owed, faults, counts>>

\* importLeases into the Kea that serves again: its leases are deleted ...
WipeSource ==
    /\ pc = "rbImport"
    /\ store' = [store EXCEPT !["kea"] = {}]
    /\ pc' = "rbAdd"
    /\ UNCHANGED <<durable, daemons, st, memory, starting, history, faults, counts>>

\* ... and dnsmasq's are added; one that Kea refuses is passed over.
RefillSource ==
    /\ pc = "rbAdd"
    /\ \E refused \in SUBSET UNION st.back :
          store' = [store EXCEPT !["kea"] = @ \union (UNION st.back \ refused)]
    /\ RollbackDone
    /\ UNCHANGED <<setting, daemons, memory, starting, owed, faults, counts>>

\* A step of the rollback throws: the marker stays.
RollbackStepFails ==
    /\ pc \in {"rbAwait", "rbImport", "rbAdd"}
    /\ Fault
    /\ RollbackFailed
    /\ IF pc = "rbImport" THEN PartlyWiped ELSE UNCHANGED store
    /\ UNCHANGED <<setting, daemons, memory, starting, owed, counts>>

-----------------------------------------------------------------------------
(* Crash and boot *)

\* The process dies; the daemons go on.
Crash ==
    /\ pc # "down"
    /\ crashes < MaxCrashes
    /\ crashes' = crashes + 1
    /\ pc' = "down"
    /\ starting' = FALSE
    /\ quiesced' = FALSE
    /\ UNCHANGED <<durable, store, daemons, st, stack, history, faults, switches, wantsRa>>

\* Mutation: boot takes the stack the marker names.
SelectMarkedStack ==
    /\ pc = "down"
    /\ stack' = marker
    /\ marker' = "none"
    /\ told' = FALSE
    /\ pc' = "boot"
    /\ st' = Fresh(stack)
    /\ UNCHANGED <<setting, store, daemons, quiesced, starting, owed, faults, counts>>

\* selectStackAtBoot: the marker goes; a stack that cannot run here falls back
\* to dnsmasq, with Kea's leases.
SelectStackAtBoot ==
    /\ pc = "down"
    /\ marker' = "none"
    /\ told' = FALSE
    /\ \/ /\ stack' = setting
          /\ pc' = "boot"
          /\ NoFault
       \/ /\ setting = "pdns-kea"
          /\ Fault
          /\ pc' = "bootCarry"
          /\ UNCHANGED stack
    /\ st' = Fresh(stack)
    /\ UNCHANGED <<setting, store, daemons, quiesced, starting, owed, counts>>

\* carryKeaLeasesToDnsmasq: Kea's leases are read, then Kea and dnsmasq stop;
\* one that will not is only a warning.
ReadKeaAtBoot ==
    /\ pc = "bootCarry"
    /\ st' = [st EXCEPT !.leases = {store["kea"]}]
    /\ pc' = "bootStop"
    /\ UNCHANGED <<durable, store, daemons, memory, starting, history, faults, counts>>

CarryKeaLeases ==
    /\ pc = "bootStop"
    /\ \E S \in SUBSET up : stopAll({"kea", "dnsmasq"}, S)
    /\ kea' = IF "kea" \in up' THEN kea ELSE [kea EXCEPT !.listens = FALSE, !.hup = FALSE]
    /\ store' = [store EXCEPT !["dnsmasq"] = UNION st.leases]
    /\ setting' = "dnsmasq"
    /\ stack' = "dnsmasq"
    /\ pc' = "boot"
    /\ UNCHANGED <<marker, st, quiesced, starting, history, counts>>

\* Mutation: boot stops nothing.
stopNothing ==
    /\ pc = "boot"
    /\ pc' = "bootApply"
    /\ UNCHANGED <<durable, store, daemons, st, memory, starting, history, faults,
                   counts>>

\* stopOutside: one that will not stop is only a warning.
stopOutside ==
    /\ pc = "boot"
    /\ \E S \in SUBSET up : stopAll(Service(Other(stack)), S)
    /\ kea' = IF "kea" \in up' THEN kea ELSE [kea EXCEPT !.listens = FALSE, !.hup = FALSE]
    /\ pc' = "bootApply"
    /\ UNCHANGED <<durable, store, st, memory, starting, history, counts>>

\* Mutation: boot does not render Kea's file.
applyAtBootStale ==
    /\ pc = "bootApply"
    /\ starting' = FALSE
    /\ up' = up \union Service(stack)
    /\ kea' = [kea EXCEPT !.listens = kea.file, !.hup = FALSE]
    /\ pc' = "idle"
    /\ UNCHANGED <<durable, store, st, memory, history, unstopped, faults, counts>>

\* applyAtBoot: the files are rendered and each service activated: restarted
\* when its file changed or it is down, left alone otherwise.
applyAtBoot ==
    /\ pc = "bootApply"
    /\ IF stack = "pdns-kea"
       THEN /\ \E which \in {{"auth", "recursor"}, {"auth", "recursor"} \ up} :
                 startDaemons(which,
                   up \union {"kea"} \union (IF wantsRa THEN {"radvd"} ELSE {}))
            /\ kea' = IF kea.file /\ "kea" \in up THEN kea
                      ELSE [file |-> TRUE, listens |-> TRUE, hup |-> FALSE]
       ELSE /\ up' = up \union {"dnsmasq"}
            /\ UNCHANGED <<kea, starting>>
    /\ pc' = "idle"
    /\ UNCHANGED <<durable, store, st, memory, history, unstopped, faults, counts>>

\* A render refused keeps the last files, a restart that fails is only a
\* warning: the service stays as it was.
applyAtBootFails ==
    /\ pc = "bootApply"
    /\ Fault
    /\ pc' = "idle"
    /\ UNCHANGED <<durable, store, daemons, st, memory, starting, history, counts>>

-----------------------------------------------------------------------------
Next ==
    \/ \E d \in Servers, a \in Addrs : Grant(d, a)
    \/ Reload
    \/ restartAll
    \/ StartRecursor
    \/ \E target \in Stacks : switchStack(target)
    \/ Held
    \/ Stage
    \/ StageKea
    \/ Quiesce
    \/ AwaitQuiet
    \/ Read
    \/ Import
    \/ Add
    \/ StopSource
    \/ Start
    \/ StartFails
    \/ AwaitRunning
    \/ Verify
    \/ StepFails
    \/ CommitSetting
    \/ CommitFiles
    \/ CommitFails
    \/ Finally
    \/ TargetLeases
    \/ StopTarget
    \/ RestartSource
    \/ RestartSourceFails
    \/ AwaitSource
    \/ WipeSource
    \/ RefillSource
    \/ RollbackStepFails
    \/ Crash
    \/ SelectStackAtBoot
    \/ ReadKeaAtBoot
    \/ CarryKeaLeases
    \/ stopOutside
    \/ applyAtBoot
    \/ applyAtBootFails

\* The switch's own steps: every wait in them has a timeout, so each ends.
Step ==
    \/ Held \/ Stage \/ StageKea \/ Quiesce \/ AwaitQuiet \/ Read \/ Import
    \/ Add \/ StopSource \/ Start \/ AwaitRunning \/ Verify
    \/ CommitSetting \/ CommitFiles \/ Finally
    \/ TargetLeases \/ StopTarget \/ RestartSource \/ AwaitSource
    \/ WipeSource \/ RefillSource
    \/ SelectStackAtBoot \/ ReadKeaAtBoot \/ CarryKeaLeases \/ stopOutside
    \/ applyAtBoot

\* The process runs its steps and is restarted after a crash; Kea handles its
\* signals; awaitAuthoritative gives up after 30 s.  Nothing is assumed of
\* operators, clients, faults or crashes.
Fairness == WF_vars(Step) /\ WF_vars(Reload) /\ WF_vars(StartRecursor)

Spec == Init /\ [][Next]_vars

FairSpec == Spec /\ Fairness

-----------------------------------------------------------------------------
(***************************************************************************)
(* Properties                                                              *)
(***************************************************************************)

\* One stack answers DHCP at any time, through switches, rollbacks, crashes
\* and boots: dnsmasq and Kea never serve together, unless a daemon was told
\* to stop and did not.
OneDhcpServer == unstopped = {} => ~(Serving("dnsmasq") /\ Serving("kea"))

\* The setting "names the stack that serves" (selectStackAtBoot): between
\* switches memory and setting agree, no marker is left and Kea is not held
\* quiet, unless the operator was told otherwise, whatever failed or crashed.
IdleMeansSettled ==
    pc = "idle" /\ ~told => stack = setting /\ marker = "none" /\ ~quiesced

\* A switch to PowerDNS and Kea that commits lost no lease: every one dnsmasq
\* had or that was handed out since is in Kea, or was reported as refused
\* (unless a daemon was told to stop and did not).
CommitKeepsLeases ==
    unstopped = {} /\ pc = "done" /\ st.outcome = "committed" /\ st.to = "pdns-kea"
        => owed \subseteq store["kea"] \union st.refused

\* With no fault, idle means the DHCP server of the setting's stack runs and
\* serves, or Kea has been told to, and the other does not run, wherever the
\* process crashed.
SettledServes ==
    pc = "idle" /\ faults = 0
        => /\ Dhcp(setting) \in up
           /\ Dhcp(Other(setting)) \notin up
           /\ setting = "pdns-kea" => kea.listens \/ kea.hup

\* A rollback reported as done left the target's DHCP server stopped and the
\* source's running, unless the switch had not come to stopping the source
\* (which then runs or not as it did: a boot's restart may have failed).
RolledBackServes ==
    pc = "done" /\ st.outcome = "rolledBack"
        => /\ st.stopped \/ st.to = "dnsmasq" => Dhcp(Other(st.to)) \in up
           /\ Dhcp(st.to) \notin up
           /\ stack = Other(st.to)

\* A failed switch "puts the source back, with any lease the target handed out
\* meanwhile" (stack-switch.js:21): of the source's leases and of those handed
\* out during the switch, only one the target reported as refused, or one read
\* back that the source refused, may be missing from the source.
RollbackKeepsLeases ==
    unstopped = {} /\ pc = "done" /\ st.outcome = "rolledBack"
        => owed \subseteq store[Dhcp(Other(st.to))] \union st.refused \union UNION st.back

\* A switch in which nothing fails finishes; in particular "radvd's file is
\* written and it starts" (stack-switch.js:239).
FaultlessSwitchFinishes == pc \in Rollback => faults > 0

\* Every switch and every boot ends.
SwitchEnds == pc # "idle" ~> pc = "idle"

\* "Clients see one short gap": with no fault, DHCP is served again whenever
\* it stopped, crash or not.
GapEnds == ~(\E d \in Servers : Serving(d))
             ~> ((\E d \in Servers : Serving(d)) \/ faults > 0)

=============================================================================
