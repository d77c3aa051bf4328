------------------------- MODULE AfterCommitProofs -------------------------
(***************************************************************************)
(* The single-flight queue, proved for every set of hooks, requests and    *)
(* holders and every bound:                                                *)
(*   - no registration is lost and nothing sleeps with work (Control),     *)
(*   - a granted hold excludes every run,                                  *)
(*   - a generation reported as applied is in the daemons, and what they   *)
(*     carry never goes back (Data).                                       *)
(***************************************************************************)
EXTENDS AfterCommit, TLAPS, FiniteSetTheorems

Holding == {x \in Holders : holder[x] # "idle"}

\* A hook is running exactly while a run of it is under way.
RunState == \A h \in Hooks : h \in running <=> task[h] # "none"

\* A process that is down remembers nothing.
DownIsEmpty ==
    ~up => /\ running = {}
           /\ pending = {}
           /\ \A h \in Hooks : bg[h] = "none"
           /\ \A x \in Holders : holder[x] = "idle"

HoldCount == holds = Cardinality(Holding)

\* What was asked for after a run took its generation is remembered.
RunCoversTaken ==
    \A h \in Hooks : task[h] \in {"waiting", "writing"} /\ desired[h] # taken[h]
                        => h \in pending

Control ==
    /\ TypeOK
    /\ RunState
    /\ RunCoversTaken
    /\ DownIsEmpty
    /\ HoldCount
    /\ NoLostWork
    /\ PendingWaitsForSomething
    /\ HeldMeansNotRunning

\* A caller of holdHooks is counted, whatever the others do.
LEMMA HoldingFacts ==
    ASSUME TypeOK, HoldCount
    PROVE  /\ IsFiniteSet(Holding)
           /\ \A x \in Holders : holder[x] # "idle" => holds > 0
<1>1. IsFiniteSet(Holding)
  BY HolderAssumption, FS_Subset DEF Holding
<1>2. ASSUME NEW x \in Holders, holder[x] # "idle" PROVE holds > 0
  <2>1. x \in Holding
    BY <1>2 DEF Holding
  <2>2. Cardinality(Holding) # 0
    BY <1>1, <2>1, FS_EmptySet
  <2> QED
    BY <2>2 DEF HoldCount, TypeOK
<1> QED
  BY <1>1, <1>2

\* fireHook keeps the types and the run state, and every hook asked for is
\* running or remembered.
LEMMA FireFacts ==
    ASSUME TypeOK, RunState, NEW S \in SUBSET Hooks, NEW held \in Nat,
           fireHook(S, held)
    PROVE  /\ running' \subseteq Hooks
           /\ pending' \subseteq Hooks
           /\ task' \in [Hooks -> Tasks]
           /\ taken' \in [Hooks -> Nat]
           /\ \A h \in Hooks : h \in running' <=> task'[h] # "none"
           /\ running \subseteq running'
           /\ running \union pending \union S \subseteq running' \union pending'
           /\ held = 0 => pending' \subseteq running' \union (pending \ S)
           /\ held > 0 => running' = running
BY DEF TypeOK, RunState, fireHook, Tasks

\* finish keeps the types and the run state, and drops nothing but the run.
LEMMA FinishFacts ==
    ASSUME TypeOK, RunState, PendingWaitsForSomething, NEW k \in Hooks, finish(k)
    PROVE  /\ running' \subseteq Hooks
           /\ running' \subseteq running \union {k}
           /\ pending' \subseteq Hooks
           /\ task' \in [Hooks -> Tasks]
           /\ taken' \in [Hooks -> Nat]
           /\ \A h \in Hooks : h \in running' <=> task'[h] # "none"
           /\ pending \subseteq running' \union pending'
           /\ \A h \in Hooks : h # k /\ h \in running => h \in running'
           /\ holds = 0 => pending' \subseteq running'
BY DEF TypeOK, RunState, finish, Tasks, PendingWaitsForSomething

\* enqueueGeneration keeps the row's types, and only its hooks turn pending.
LEMMA EnqueueFacts ==
    ASSUME TypeOK, NEW S \in SUBSET Hooks, NEW now \in [Hooks -> Nat],
           enqueueGeneration(S, now)
    PROVE  /\ desired' \in [Hooks -> Nat]
           /\ status' \in [Hooks -> Statuses]
           /\ applied' = applied
           /\ \A h \in Hooks : h \notin S => status'[h] = status[h]
           /\ promise' \in [Hooks -> Seq(Nat)]
<1>1. \A h \in Hooks : promise[h] \in Seq(Nat) /\ now[h] \in Nat
  BY DEF TypeOK
<1>2. \A h \in Hooks : Append(promise[h], now[h]) \in Seq(Nat)
  BY <1>1
<1>3. promise' \in [Hooks -> Seq(Nat)]
  BY <1>1, <1>2 DEF enqueueGeneration
<1> QED
  BY <1>3 DEF enqueueGeneration, TypeOK, Statuses

\* markApplied and markFailed keep the row's types, and leave the hook pending
\* only when a later generation was asked for.
LEMMA MarkFacts ==
    ASSUME TypeOK, NEW h \in Hooks, NEW g \in Nat, markApplied(h, g) \/ markFailed(h)
    PROVE  /\ applied' \in [Hooks -> Nat]
           /\ status' \in [Hooks -> Statuses]
           /\ \A k \in Hooks : k # h => status'[k] = status[k]
           /\ status'[h] # "applying"
           /\ status'[h] = "pending" => desired[h] > g
<1>1. CASE markApplied(h, g)
  BY <1>1 DEF TypeOK, markApplied, Statuses
<1>2. CASE markFailed(h)
  BY <1>2 DEF TypeOK, markFailed, Statuses
<1> QED
  BY <1>1, <1>2

\* A fresh install satisfies the control part.
LEMMA InitControl == Init => Control
<1> SUFFICES ASSUME Init PROVE Control
  OBVIOUS
<1>1. TypeOK
  BY BoundAssumption DEF Init, TypeOK, Tasks, Statuses
<1>2. RunState /\ RunCoversTaken /\ DownIsEmpty /\ NoLostWork /\ PendingWaitsForSomething /\ HeldMeansNotRunning
  BY DEF Init, RunState, RunCoversTaken, DownIsEmpty, NoLostWork, PendingWaitsForSomething,
         HeldMeansNotRunning
<1>3. Holding = {}
  BY DEF Init, Holding
<1>4. HoldCount
  BY <1>3, FS_EmptySet DEF Init, HoldCount
<1> QED
  BY <1>1, <1>2, <1>4 DEF Control

\* Every step keeps the control part: one step per action.
LEMMA NextControl == Control /\ [Next]_vars => Control'
<1> SUFFICES ASSUME Control, [Next]_vars PROVE Control'
  OBVIOUS
<1> USE DEF Control
<1>a. /\ IsFiniteSet(Holding)
      /\ \A x \in Holders : holder[x] # "idle" => holds > 0
  BY HoldingFacts
<1>b. holder' = holder => Holding' = Holding
  BY DEF Holding
<1>1. ASSUME NEW r \in Requests, NEW S \in SUBSET Hooks, Handle(r, S) PROVE Control'
  <2>1. TypeOK'
    BY <1>1 DEF Handle, TypeOK, hookVars, write
  <2>2. RunState' /\ DownIsEmpty' /\ NoLostWork' /\ PendingWaitsForSomething' /\ HeldMeansNotRunning'
    BY <1>1 DEF Handle, hookVars, write, RunState, DownIsEmpty, NoLostWork,
                PendingWaitsForSomething, HeldMeansNotRunning
  <2>c. RunCoversTaken'
    BY <1>1 DEF Handle, hookVars, write, RunCoversTaken
  <2>3. HoldCount'
    BY <1>1, <1>b DEF Handle, HoldCount
  <2> QED
    BY <2>c, <2>1, <2>2, <2>3
<1>2. ASSUME NEW r \in Requests, Finish(r) PROVE Control'
  <2>1. open[r] \in SUBSET Hooks /\ holds \in Nat
    BY DEF TypeOK
  <2>2. fireHook(open[r], holds)
    BY <1>2 DEF Finish
  <2>f. /\ running' \subseteq Hooks
        /\ pending' \subseteq Hooks
        /\ task' \in [Hooks -> Tasks]
        /\ taken' \in [Hooks -> Nat]
        /\ \A k \in Hooks : k \in running' <=> task'[k] # "none"
        /\ running \subseteq running'
        /\ running \union pending \union open[r] \subseteq running' \union pending'
        /\ holds = 0 => pending' \subseteq running' \union (pending \ open[r])
        /\ holds > 0 => running' = running
    BY <2>1, <2>2, FireFacts DEF TypeOK
  <2>e. /\ desired' \in [Hooks -> Nat]
        /\ status' \in [Hooks -> Statuses]
        /\ applied' = applied
        /\ \A k \in Hooks : k \notin open[r] => status'[k] = status[k]
        /\ promise' \in [Hooks -> Seq(Nat)]
        /\ content' \in [Hooks -> Nat]
    <3>1. content' \in [Hooks -> Nat] /\ enqueueGeneration(open[r], content')
      BY <1>2 DEF Finish, TypeOK, enqueueGeneration
    <3> QED
      BY <2>1, <3>1, EnqueueFacts
  <2>3. TypeOK'
    BY <1>2, <2>f, <2>e DEF Finish, TypeOK, write
  <2>4. RunState' /\ DownIsEmpty'
    BY <1>2, <2>f DEF Finish, RunState, DownIsEmpty
  <2>p. PendingWaitsForSomething'
    BY <1>2, <2>f DEF Finish, PendingWaitsForSomething
  <2>h. HeldMeansNotRunning'
    BY <1>2, <1>a, <2>f DEF Finish, HeldMeansNotRunning
  <2>c. RunCoversTaken'
    BY <1>2, <2>2 DEF Finish, RunCoversTaken, RunState, fireHook, enqueueGeneration, TypeOK
  <2>5. NoLostWork'
    BY <1>2, <2>f, <2>e DEF Finish, NoLostWork
  <2>6. HoldCount'
    BY <1>2, <1>b DEF Finish, HoldCount
  <2> QED
    BY <2>3, <2>4, <2>p, <2>h, <2>c, <2>5, <2>6
<1>3. ASSUME NEW r \in Requests, Abandon(r) PROVE Control'
  <2>1. TypeOK'
    BY <1>3 DEF Abandon, TypeOK, hookVars, write, database
  <2>2. RunState' /\ DownIsEmpty' /\ NoLostWork' /\ PendingWaitsForSomething' /\ HeldMeansNotRunning'
    BY <1>3 DEF Abandon, hookVars, write, database, RunState, DownIsEmpty, NoLostWork,
                PendingWaitsForSomething, HeldMeansNotRunning
  <2>c. RunCoversTaken'
    BY <1>3 DEF Abandon, hookVars, write, database, RunCoversTaken
  <2>3. HoldCount'
    BY <1>3, <1>b DEF Abandon, HoldCount
  <2> QED
    BY <2>c, <2>1, <2>2, <2>3
<1>4. ASSUME NEW h \in Hooks, queueRegen(h) PROVE Control'
  <2>1. {h} \in SUBSET Hooks /\ holds \in Nat
    BY DEF TypeOK
  <2>2. fireHook({h}, holds)
    BY <1>4 DEF queueRegen
  <2>f. /\ running' \subseteq Hooks
        /\ pending' \subseteq Hooks
        /\ task' \in [Hooks -> Tasks]
        /\ taken' \in [Hooks -> Nat]
        /\ \A k \in Hooks : k \in running' <=> task'[k] # "none"
        /\ running \subseteq running'
        /\ running \union pending \union {h} \subseteq running' \union pending'
        /\ holds = 0 => pending' \subseteq running' \union (pending \ {h})
        /\ holds > 0 => running' = running
    BY <2>1, <2>2, FireFacts DEF TypeOK
  <2>e. /\ desired' \in [Hooks -> Nat]
        /\ status' \in [Hooks -> Statuses]
        /\ applied' = applied
        /\ \A k \in Hooks : k \notin {h} => status'[k] = status[k]
        /\ promise' \in [Hooks -> Seq(Nat)]
        /\ content' \in [Hooks -> Nat]
    <3>1. content' \in [Hooks -> Nat] /\ enqueueGeneration({h}, content')
      BY <1>4 DEF queueRegen, TypeOK, enqueueGeneration
    <3> QED
      BY <2>1, <3>1, EnqueueFacts
  <2>3. TypeOK'
    BY <1>4, <2>f, <2>e DEF queueRegen, TypeOK, write
  <2>4. RunState' /\ DownIsEmpty'
    BY <1>4, <2>f DEF queueRegen, RunState, DownIsEmpty
  <2>p. PendingWaitsForSomething'
    BY <1>4, <2>f DEF queueRegen, PendingWaitsForSomething
  <2>h. HeldMeansNotRunning'
    BY <1>4, <1>a, <2>f DEF queueRegen, HeldMeansNotRunning
  <2>c. RunCoversTaken'
    BY <1>4, <2>2 DEF queueRegen, RunCoversTaken, RunState, fireHook, enqueueGeneration, TypeOK
  <2>5. NoLostWork'
    BY <1>4, <2>f, <2>e DEF queueRegen, NoLostWork
  <2>6. HoldCount'
    BY <1>4, <1>b DEF queueRegen, HoldCount
  <2> QED
    BY <2>3, <2>4, <2>p, <2>h, <2>c, <2>5, <2>6
<1>5. ASSUME NEW h \in Hooks, RunSync(h) PROVE Control'
  <2>1. finish(h) /\ h \in running
    BY <1>5 DEF RunSync, RunState
  <2>f. /\ running' \subseteq Hooks
        /\ running' \subseteq running \union {h}
        /\ pending' \subseteq Hooks
        /\ task' \in [Hooks -> Tasks]
        /\ taken' \in [Hooks -> Nat]
        /\ \A k \in Hooks : k \in running' <=> task'[k] # "none"
        /\ pending \subseteq running' \union pending'
        /\ \A k \in Hooks : k # h /\ k \in running => k \in running'
        /\ holds = 0 => pending' \subseteq running'
    BY <2>1, FinishFacts
  <2>m. /\ applied' \in [Hooks -> Nat]
        /\ status' \in [Hooks -> Statuses]
        /\ \A k \in Hooks : k # h => status'[k] = status[k]
        /\ status'[h] # "applying"
        /\ status'[h] = "pending" => desired[h] > desired[h]
    <3>1. desired[h] \in Nat /\ (markApplied(h, desired[h]) \/ markFailed(h))
      BY <1>5 DEF RunSync, TypeOK
    <3> QED
      BY <3>1, MarkFacts
  <2>2. TypeOK'
    BY <1>5, <2>f, <2>m DEF RunSync, TypeOK
  <2>3. RunState' /\ PendingWaitsForSomething' /\ HeldMeansNotRunning' /\ DownIsEmpty'
    BY <1>5, <2>1, <2>f
    DEF RunSync, RunState, PendingWaitsForSomething, HeldMeansNotRunning, DownIsEmpty
  <2>4. NoLostWork'
    <3> SUFFICES ASSUME up, NEW k \in Hooks, status'[k] \in {"pending", "applying"}
                 PROVE  k \in running' \union pending'
      BY <1>5 DEF RunSync, NoLostWork
    <3>1. k # h
      BY <2>m DEF TypeOK
    <3> QED
      BY <2>f, <2>m, <3>1 DEF NoLostWork
  <2>c. RunCoversTaken'
    BY <1>5, <2>1 DEF RunSync, finish, RunCoversTaken, TypeOK
  <2>5. HoldCount'
    BY <1>5, <1>b DEF RunSync, HoldCount
  <2> QED
    BY <2>2, <2>3, <2>4, <2>5, <2>c
<1>6. ASSUME NEW h \in Hooks, StartAsync(h) PROVE Control'
  <2>1. TypeOK'
    BY <1>6 DEF StartAsync, TypeOK, write, Tasks, Statuses
  <2>2. RunState' /\ DownIsEmpty' /\ PendingWaitsForSomething' /\ HeldMeansNotRunning' /\ NoLostWork'
    BY <1>6 DEF StartAsync, TypeOK, write, RunState, DownIsEmpty,
                PendingWaitsForSomething, HeldMeansNotRunning, NoLostWork
  <2>c. RunCoversTaken'
    BY <1>6 DEF StartAsync, TypeOK, write, RunCoversTaken
  <2>3. HoldCount'
    BY <1>6, <1>b DEF StartAsync, HoldCount
  <2> QED
    BY <2>c, <2>1, <2>2, <2>3
<1>7. ASSUME NEW h \in Hooks, LoadZones(h) PROVE Control'
  <2>1. TypeOK'
    BY <1>7 DEF LoadZones, TypeOK, database, Tasks
  <2>2. RunState' /\ DownIsEmpty' /\ PendingWaitsForSomething' /\ HeldMeansNotRunning' /\ NoLostWork'
    BY <1>7 DEF LoadZones, TypeOK, database, RunState, DownIsEmpty,
                PendingWaitsForSomething, HeldMeansNotRunning, NoLostWork
  <2>c. RunCoversTaken'
    BY <1>7 DEF LoadZones, TypeOK, database, RunCoversTaken
  <2>3. HoldCount'
    BY <1>7, <1>b DEF LoadZones, HoldCount
  <2> QED
    BY <2>c, <2>1, <2>2, <2>3
<1>8. ASSUME NEW h \in Hooks, Settle(h) PROVE Control'
  <2>1. finish(h) /\ h \in running
    BY <1>8 DEF Settle, RunState
  <2>f. /\ running' \subseteq Hooks
        /\ running' \subseteq running \union {h}
        /\ pending' \subseteq Hooks
        /\ task' \in [Hooks -> Tasks]
        /\ taken' \in [Hooks -> Nat]
        /\ \A k \in Hooks : k \in running' <=> task'[k] # "none"
        /\ pending \subseteq running' \union pending'
        /\ \A k \in Hooks : k # h /\ k \in running => k \in running'
        /\ holds = 0 => pending' \subseteq running'
    BY <2>1, FinishFacts
  <2>m. /\ applied' \in [Hooks -> Nat]
        /\ status' \in [Hooks -> Statuses]
        /\ \A k \in Hooks : k # h => status'[k] = status[k]
        /\ status'[h] # "applying"
        /\ status'[h] = "pending" => desired[h] > taken[h]
    <3>1. taken[h] \in Nat /\ (markApplied(h, taken[h]) \/ markFailed(h))
      BY <1>8 DEF Settle, TypeOK
    <3> QED
      BY <3>1, MarkFacts
  <2>b. /\ rendered' \in [Hooks -> Nat]
        /\ bg' \in [Hooks -> {"none", "starting", "writing"}]
        /\ loaded' \in [Hooks -> Nat]
    BY <1>8 DEF Settle, TypeOK
  <2>2. TypeOK'
    BY <1>8, <2>b, <2>f, <2>m DEF Settle, TypeOK
  <2>3. RunState' /\ PendingWaitsForSomething' /\ HeldMeansNotRunning' /\ DownIsEmpty'
    BY <1>8, <2>1, <2>f
    DEF Settle, RunState, PendingWaitsForSomething, HeldMeansNotRunning, DownIsEmpty
  <2>4. NoLostWork'
    <3> SUFFICES ASSUME up, NEW k \in Hooks, status'[k] \in {"pending", "applying"}
                 PROVE  k \in running' \union pending'
      BY <1>8 DEF Settle, NoLostWork
    <3>1. CASE k # h
      BY <2>f, <2>m, <3>1 DEF NoLostWork
    <3>2. CASE k = h
      <4>1. desired[h] # taken[h]
        BY <2>m, <3>2 DEF TypeOK
      <4>2. h \in pending
        BY <1>8, <4>1 DEF Settle, RunCoversTaken
      <4> QED
        BY <2>f, <3>2, <4>2
    <3> QED
      BY <3>1, <3>2
  <2>c. RunCoversTaken'
    BY <1>8, <2>1 DEF Settle, finish, RunCoversTaken, TypeOK
  <2>5. HoldCount'
    BY <1>8, <1>b DEF Settle, HoldCount
  <2> QED
    BY <2>2, <2>3, <2>4, <2>5, <2>c
<1>9. ASSUME NEW h \in Hooks, ResyncZones(h) PROVE Control'
  <2>1. TypeOK'
    BY <1>9 DEF ResyncZones, TypeOK, database, hookVars
  <2>2. RunState' /\ DownIsEmpty' /\ PendingWaitsForSomething' /\ HeldMeansNotRunning' /\ NoLostWork'
    BY <1>9 DEF ResyncZones, database, hookVars, RunState, DownIsEmpty,
                PendingWaitsForSomething, HeldMeansNotRunning, NoLostWork
  <2>c. RunCoversTaken'
    BY <1>9 DEF ResyncZones, database, hookVars, RunCoversTaken
  <2>3. HoldCount'
    BY <1>9, <1>b DEF ResyncZones, HoldCount
  <2> QED
    BY <2>c, <2>1, <2>2, <2>3
<1>10. ASSUME NEW h \in Hooks, ResyncDone(h) PROVE Control'
  <2>1. TypeOK'
    BY <1>10 DEF ResyncDone, TypeOK, database, hookVars
  <2>2. RunState' /\ DownIsEmpty' /\ PendingWaitsForSomething' /\ HeldMeansNotRunning' /\ NoLostWork'
    BY <1>10 DEF ResyncDone, database, hookVars, RunState, DownIsEmpty,
                PendingWaitsForSomething, HeldMeansNotRunning, NoLostWork
  <2>c. RunCoversTaken'
    BY <1>10 DEF ResyncDone, database, hookVars, RunCoversTaken
  <2>3. HoldCount'
    BY <1>10, <1>b DEF ResyncDone, HoldCount
  <2> QED
    BY <2>c, <2>1, <2>2, <2>3
<1>11. ASSUME NEW x \in Holders, Hold(x) PROVE Control'
  <2>1. TypeOK'
    BY <1>11 DEF Hold, TypeOK, database, hookVars, write
  <2>2. RunState' /\ DownIsEmpty' /\ PendingWaitsForSomething' /\ HeldMeansNotRunning' /\ NoLostWork'
    BY <1>11 DEF Hold, TypeOK, database, hookVars, write, RunState, DownIsEmpty,
                PendingWaitsForSomething, HeldMeansNotRunning, NoLostWork
  <2>3. Holding' = Holding \union {x} /\ x \notin Holding
    BY <1>11 DEF Hold, Holding, TypeOK
  <2>c. RunCoversTaken'
    BY <1>11 DEF Hold, database, hookVars, RunCoversTaken
  <2>4. HoldCount'
    BY <1>11, <1>a, <2>3, FS_AddElement DEF Hold, HoldCount
  <2> QED
    BY <2>c, <2>1, <2>2, <2>4
<1>12. ASSUME NEW x \in Holders, HoldGranted(x) PROVE Control'
  <2>1. TypeOK'
    BY <1>12 DEF HoldGranted, TypeOK, database, hookVars, write
  <2>2. RunState' /\ DownIsEmpty' /\ PendingWaitsForSomething' /\ HeldMeansNotRunning' /\ NoLostWork'
    BY <1>12 DEF HoldGranted, TypeOK, database, hookVars, write, RunState, DownIsEmpty,
                PendingWaitsForSomething, HeldMeansNotRunning, NoLostWork
  <2>3. Holding' = Holding
    BY <1>12 DEF HoldGranted, Holding, TypeOK
  <2>c. RunCoversTaken'
    BY <1>12 DEF HoldGranted, database, hookVars, RunCoversTaken
  <2>4. HoldCount'
    BY <1>12, <2>3 DEF HoldGranted, HoldCount
  <2> QED
    BY <2>c, <2>1, <2>2, <2>4
<1>13. ASSUME NEW x \in Holders, Release(x) PROVE Control'
  <2> DEFINE S == IF holds = 1 THEN pending ELSE {}
  <2>1. holds > 0 /\ holds - 1 \in Nat /\ S \in SUBSET Hooks
    BY <1>13, <1>a DEF Release, TypeOK
  <2>2. fireHook(S, holds - 1)
    BY <1>13 DEF Release
  <2> HIDE DEF S
  <2>3. TypeOK'
    BY <1>13, <2>1, <2>2, FireFacts DEF Release, TypeOK, database, write
  <2>4. RunState' /\ DownIsEmpty' /\ NoLostWork'
    BY <1>13, <2>1, <2>2, FireFacts DEF Release, RunState, DownIsEmpty, NoLostWork, database, write
  <2>5. PendingWaitsForSomething'
    <3>1. holds' = 0 => S = pending
      BY <1>13 DEF Release, S, TypeOK
    <3>2. holds' = 0 => pending' \subseteq running' \union (pending \ S)
      BY <1>13, <2>1, <2>2, FireFacts DEF Release
    <3> QED
      BY <3>1, <3>2 DEF PendingWaitsForSomething
  <2>c. RunCoversTaken'
    BY <1>13, <2>1, <2>2 DEF Release, RunCoversTaken, RunState, fireHook, database
  <2>6. Holding' = Holding \ {x} /\ x \in Holding
    BY <1>13 DEF Release, Holding, TypeOK
  <2>7. HoldCount'
    BY <1>13, <1>a, <2>6, FS_RemoveElement DEF Release, HoldCount
  <2>8. HeldMeansNotRunning'
    <3> SUFFICES ASSUME NEW y \in Holders, holder'[y] = "held" PROVE running' = {}
      BY DEF HeldMeansNotRunning
    <3>1. y \in Holding' /\ IsFiniteSet(Holding')
      BY <1>a, <2>6, FS_RemoveElement, FS_Subset, <1>13 DEF Release, Holding, TypeOK
    <3>2. holds' > 0
      BY <2>3, <2>7, <3>1, FS_EmptySet DEF HoldCount, TypeOK
    <3>3. running = {}
      BY <1>13 DEF Release, HeldMeansNotRunning
    <3> QED
      BY <1>13, <2>1, <2>2, <3>2, <3>3, FireFacts DEF Release
  <2> QED
    BY <2>3, <2>4, <2>5, <2>7, <2>8, <2>c
<1>14. CASE Crash
  <2>r. rendered' \in [Hooks -> Nat]
    BY <1>14 DEF Crash, TypeOK
  <2>k. crashes' \in 0..MaxCrashes
    BY <1>14, BoundAssumption DEF Crash, TypeOK
  <2>1. TypeOK'
    BY <1>14, <2>r, <2>k DEF Crash, TypeOK, database, Tasks
  <2>2. RunState' /\ DownIsEmpty' /\ PendingWaitsForSomething' /\ HeldMeansNotRunning' /\ NoLostWork'
    BY <1>14 DEF Crash, RunState, DownIsEmpty, PendingWaitsForSomething,
                 HeldMeansNotRunning, NoLostWork
  <2>3. Holding' = {}
    BY <1>14 DEF Crash, Holding
  <2>c. RunCoversTaken'
    BY <1>14 DEF Crash, database, RunCoversTaken
  <2>4. HoldCount'
    BY <1>14, <2>3, FS_EmptySet DEF Crash, HoldCount
  <2> QED
    BY <2>c, <2>1, <2>2, <2>4
<1>15. CASE Boot
  <2> PICK undone \in {{}, {ScopeHook}} :
         LET want    == [h \in Hooks |-> IF h \in undone THEN desired[h] + 1
                                                         ELSE desired[h]]
             state   == [h \in Hooks |-> IF h \in undone THEN "pending" ELSE status[h]]
             resumed == Unfinished(want, state)
         IN  /\ enqueueGeneration(undone \union {ZoneHook}, content)
             /\ running' = resumed \union {ZoneHook}
             /\ pending' = undone \union ({ZoneHook} \intersect resumed)
             /\ task' = [h \in Hooks |-> IF h \in resumed \union {ZoneHook}
                                           THEN "queued" ELSE "none"]
    BY <1>15 DEF Boot
  <2> DEFINE want    == [h \in Hooks |-> IF h \in undone THEN desired[h] + 1 ELSE desired[h]]
             state   == [h \in Hooks |-> IF h \in undone THEN "pending" ELSE status[h]]
             resumed == Unfinished(want, state)
  <2>1. /\ enqueueGeneration(undone \union {ZoneHook}, content)
        /\ running' = resumed \union {ZoneHook}
        /\ pending' = undone \union ({ZoneHook} \intersect resumed)
        /\ task' = [h \in Hooks |-> IF h \in resumed \union {ZoneHook} THEN "queued" ELSE "none"]
    OBVIOUS
  <2>2. /\ resumed \subseteq Hooks
        /\ undone \subseteq resumed
        /\ \A h \in Hooks : status[h] # "applied" => h \in resumed
    BY HookAssumption DEF Unfinished, TypeOK
  <2> HIDE DEF resumed
  <2>3. rendered' \in [Hooks -> Nat]
    BY <1>15 DEF Boot, TypeOK
  <2>e. /\ desired' \in [Hooks -> Nat]
        /\ status' \in [Hooks -> Statuses]
        /\ applied' = applied
        /\ promise' \in [Hooks -> Seq(Nat)]
    <3>1. undone \union {ZoneHook} \in SUBSET Hooks /\ content \in [Hooks -> Nat]
      BY HookAssumption DEF TypeOK
    <3> QED
      BY <2>1, <3>1, EnqueueFacts
  <2>t. /\ running' \subseteq Hooks
        /\ pending' \subseteq Hooks
        /\ task' \in [Hooks -> Tasks]
    BY <2>1, <2>2, HookAssumption DEF Tasks
  <2>4. TypeOK'
    BY <1>15, <2>t, <2>3, <2>e DEF Boot, TypeOK
  <2>c. RunCoversTaken'
    BY <2>1 DEF RunCoversTaken
  <2>5. RunState' /\ DownIsEmpty' /\ PendingWaitsForSomething' /\ HeldMeansNotRunning'
    BY <1>15, <2>1, <2>2, HookAssumption
    DEF Boot, TypeOK, RunState, DownIsEmpty, PendingWaitsForSomething, HeldMeansNotRunning
  <2>6. NoLostWork'
    BY <1>15, <2>1, <2>2, HookAssumption DEF Boot, NoLostWork, enqueueGeneration, TypeOK
  <2>7. HoldCount'
    BY <1>15, <1>b DEF Boot, HoldCount
  <2> QED
    BY <2>4, <2>5, <2>6, <2>7, <2>c
<1>16. CASE UNCHANGED vars
  <2>1. TypeOK'
    BY <1>16 DEF vars, TypeOK
  <2>2. RunState' /\ DownIsEmpty' /\ PendingWaitsForSomething' /\ HeldMeansNotRunning' /\ NoLostWork'
    BY <1>16 DEF vars, RunState, DownIsEmpty, PendingWaitsForSomething,
                 HeldMeansNotRunning, NoLostWork
  <2>c. RunCoversTaken'
    BY <1>16 DEF vars, RunCoversTaken
  <2>3. HoldCount'
    BY <1>16, <1>b DEF vars, HoldCount
  <2> QED
    BY <2>c, <2>1, <2>2, <2>3
<1> QED
  BY <1>1, <1>2, <1>3, <1>4, <1>5, <1>6, <1>7, <1>8, <1>9, <1>10, <1>11, <1>12,
     <1>13, <1>14, <1>15, <1>16 DEF Next

\* The type invariant, no lost registration and the exclusion of runs by a
\* granted hold: invariants of after-commit.js for every set of hooks.
THEOREM ControlInvariant == Spec => []Control
<1>1. Control /\ [Next]_vars => Control'
  BY NextControl
<1> QED
  BY InitControl, <1>1, PTL DEF Spec

\* Every variable of the queue keeps its type (after-commit.js and the rows
\* of configuration_generations).
THEOREM TypeCorrect == Spec => []TypeOK
<1>1. Control => TypeOK
  BY DEF Control
<1> QED
  BY ControlInvariant, <1>1, PTL

\* fireHook, finish and release lose no registration: work the row still
\* calls pending or applying has a run or a remembered request.
THEOREM NothingLost == Spec => []NoLostWork
<1>1. Control => NoLostWork
  BY DEF Control
<1> QED
  BY ControlInvariant, <1>1, PTL

\* No hook sleeps with work: one remembered while it does not run is held.
THEOREM NothingSleeps == Spec => []PendingWaitsForSomething
<1>1. Control => PendingWaitsForSomething
  BY DEF Control
<1> QED
  BY ControlInvariant, <1>1, PTL

\* While a holdHooks caller has its hold, no hook runs, however many callers
\* hold at once and however often hooks are asked for.
THEOREM HoldExcludesRuns == Spec => []HeldMeansNotRunning
<1>1. Control => HeldMeansNotRunning
  BY DEF Control
<1> QED
  BY ControlInvariant, <1>1, PTL

-----------------------------------------------------------------------------
(* The data part *)

\* The row of h is one registration per generation, none of a version the
\* database has not reached; nothing carried or being written is either.
Bounded(h) ==
    /\ Len(promise[h]) = desired[h]
    /\ applied[h] <= desired[h]
    /\ \A i \in 1..desired[h] : promise[h][i] <= content[h]
    /\ rendered[h] <= content[h]
    /\ task[h] \in {"waiting", "writing"} => taken[h] <= desired[h]

\* A write under way goes forward, and one that took generation g carries
\* what every generation up to g promised.
WritesForward(h) ==
    /\ task[h] = "writing" => bg[h] # "writing"
    /\ task[h] = "writing" \/ bg[h] = "writing"
         => rendered[h] <= loaded[h] /\ loaded[h] <= content[h]
    /\ task[h] = "writing" => \A i \in 1..taken[h] : promise[h][i] <= loaded[h]
    /\ bg[h] # "none" => h \in Deferrable

Data == \A h \in Hooks : Bounded(h) /\ WritesForward(h)

\* Generations up to the applied one are in the daemons.
Carried == \A h \in Hooks : \A i \in 1..applied[h] : promise[h][i] <= rendered[h]

\* What enqueueGeneration does to the history.
LEMMA EnqueueData ==
    ASSUME TypeOK, NEW S \in SUBSET Hooks, NEW now \in [Hooks -> Nat],
           enqueueGeneration(S, now), NEW h \in Hooks, Len(promise[h]) = desired[h]
    PROVE  /\ Len(promise'[h]) = desired'[h]
           /\ desired[h] <= desired'[h]
           /\ \A i \in 1..desired[h] : promise'[h][i] = promise[h][i]
           /\ \A i \in 1..desired'[h] : i \notin 1..desired[h] => promise'[h][i] = now[h]
<1>1. promise[h] \in Seq(Nat) /\ now[h] \in Nat /\ desired[h] \in Nat
  BY DEF TypeOK
<1>2. CASE h \in S
  <2>1. promise'[h] = Append(promise[h], now[h]) /\ desired'[h] = desired[h] + 1
    BY <1>2 DEF enqueueGeneration, TypeOK
  <2> QED
    BY <1>1, <2>1
<1>3. CASE h \notin S
  BY <1>1, <1>3 DEF enqueueGeneration, TypeOK
<1> QED
  BY <1>2, <1>3

\* A fresh install: nothing asked for, nothing carried.
LEMMA InitData == Init => Data /\ Carried
BY DEF Init, Data, Carried, Bounded, WritesForward

\* Every step keeps the data part, and moves what a daemon carries forward.
\* Unless a Promise may resolve before its write (Deferrable), it also keeps
\* the applied generations carried.
LEMMA NextData ==
    ASSUME Control, Control', Data, [Next]_vars
    PROVE  /\ Data'
           /\ \A k \in Hooks : rendered'[k] >= rendered[k]
           /\ Deferrable = {} /\ Carried => Carried'
<1> DEFINE CarriedAt(k)  == \A i \in 1..applied[k] : promise[k][i] <= rendered[k]
           CarriedAt2(k) == \A i \in 1..applied'[k] : promise'[k][i] <= rendered'[k]
           Goal(k) == /\ Bounded(k)'
                      /\ WritesForward(k)'
                      /\ rendered'[k] >= rendered[k]
                      /\ Deferrable = {} /\ CarriedAt(k) => CarriedAt2(k)
<1> SUFFICES ASSUME NEW k \in Hooks PROVE Goal(k)
  BY DEF Data, Carried
<1>t. /\ content[k] \in Nat /\ desired[k] \in Nat /\ applied[k] \in Nat
      /\ rendered[k] \in Nat /\ taken[k] \in Nat /\ loaded[k] \in Nat
      /\ Bounded(k) /\ WritesForward(k)
  BY DEF Control, TypeOK, Data
<1>s. promise[k] \in Seq(Nat)
  BY DEF Control, TypeOK
<1>n. \A i \in 1..desired[k] : promise[k][i] \in Nat
  BY <1>s, <1>t DEF Bounded
<1> USE <1>n, <1>t DEF Control
<1>1. ASSUME NEW r \in Requests, NEW S \in SUBSET Hooks, Handle(r, S) PROVE Goal(k)
  <2>1. content'[k] \in {content[k], content[k] + 1}
    BY <1>1 DEF Handle
  <2>2. /\ rendered' = rendered /\ loaded' = loaded /\ bg' = bg /\ applied' = applied
        /\ desired' = desired /\ promise' = promise /\ task' = task /\ taken' = taken
    BY <1>1 DEF Handle, hookVars, write
  <2> QED
    BY <2>1, <2>2 DEF Bounded, WritesForward
<1>2. ASSUME NEW r \in Requests, Finish(r) PROVE Goal(k)
  <2>1. open[r] \in SUBSET Hooks /\ content \in [Hooks -> Nat]
        /\ enqueueGeneration(open[r], content) /\ Len(promise[k]) = desired[k]
    BY <1>2 DEF Finish, TypeOK, Bounded
  <2>2. /\ Len(promise'[k]) = desired'[k]
        /\ desired[k] <= desired'[k] /\ desired'[k] \in Nat
        /\ \A i \in 1..desired[k] : promise'[k][i] = promise[k][i]
        /\ \A i \in 1..desired'[k] : i \notin 1..desired[k] => promise'[k][i] = content[k]
    BY <2>1, EnqueueData DEF TypeOK
  <2>3. /\ content' = content /\ rendered' = rendered /\ loaded' = loaded
        /\ bg' = bg /\ applied' = applied
    BY <1>2 DEF Finish, write, enqueueGeneration
  <2>4. taken'[k] = taken[k] /\ task'[k] \in {task[k], "queued"}
    BY <1>2 DEF Finish, fireHook, TypeOK
  <2> QED
    BY <2>2, <2>3, <2>4 DEF Bounded, WritesForward
<1>3. ASSUME NEW r \in Requests, Abandon(r) PROVE Goal(k)
  BY <1>3 DEF Abandon, hookVars, write, database, Bounded, WritesForward
<1>4. ASSUME NEW h \in Hooks, queueRegen(h) PROVE Goal(k)
  <2>1. {h} \in SUBSET Hooks /\ content' \in [Hooks -> Nat]
        /\ enqueueGeneration({h}, content') /\ Len(promise[k]) = desired[k]
    BY <1>4 DEF queueRegen, TypeOK, Bounded
  <2>2. /\ Len(promise'[k]) = desired'[k]
        /\ desired[k] <= desired'[k] /\ desired'[k] \in Nat
        /\ \A i \in 1..desired[k] : promise'[k][i] = promise[k][i]
        /\ \A i \in 1..desired'[k] : i \notin 1..desired[k] => promise'[k][i] = content'[k]
    BY <2>1, EnqueueData DEF TypeOK
  <2>3. /\ rendered' = rendered /\ loaded' = loaded
        /\ bg' = bg /\ applied' = applied
    BY <1>4 DEF queueRegen, write, enqueueGeneration
  <2>5. content'[k] \in {content[k], content[k] + 1}
    BY <1>4 DEF queueRegen, TypeOK
  <2>6. content'[k] \in Nat /\ content[k] <= content'[k]
    BY <2>5
  <2>4. taken'[k] = taken[k] /\ task'[k] \in {task[k], "queued"}
    BY <1>4 DEF queueRegen, fireHook, TypeOK
  <2> QED
    <3>4. ASSUME NEW i \in 1..desired'[k] PROVE promise'[k][i] <= content'[k]
      <4>1. CASE i \in 1..desired[k]
        BY <2>2, <2>6, <4>1 DEF Bounded
      <4>2. CASE i \notin 1..desired[k]
        BY <2>2, <2>6, <4>2
      <4> QED
        BY <4>1, <4>2
    <3>1. Bounded(k)'
      BY <2>2, <2>3, <2>4, <2>6, <3>4 DEF Bounded
    <3>2. WritesForward(k)'
      BY <2>2, <2>3, <2>4, <2>6 DEF Bounded, WritesForward
    <3>3. ASSUME CarriedAt(k) PROVE CarriedAt2(k)
      <4>1. applied'[k] = applied[k] /\ rendered'[k] = rendered[k] /\ applied[k] <= desired[k]
        BY <2>3 DEF Bounded
      <4>2. 1..applied[k] \subseteq 1..desired[k]
        BY <4>1
      <4>3. \A i \in 1..applied[k] : promise'[k][i] = promise[k][i]
        BY <2>2, <4>2
      <4>4. QED
        BY <3>3, <4>1, <4>3
    <3> QED
      BY <2>3, <3>1, <3>2, <3>3
<1>5. ASSUME NEW h \in Hooks, RunSync(h) PROVE Goal(k)
  <2>1. /\ content' = content /\ desired' = desired /\ promise' = promise
        /\ loaded' = loaded /\ bg' = bg
    BY <1>5 DEF RunSync
  <2>2. CASE k # h
    <3>1. /\ rendered'[k] = rendered[k] /\ applied'[k] = applied[k]
          /\ task'[k] = task[k] /\ taken'[k] = taken[k]
      BY <1>5, <2>2 DEF RunSync, markApplied, markFailed, finish, TypeOK
    <3> QED
      BY <2>1, <3>1 DEF Bounded, WritesForward
  <2>3. CASE k = h
    <3>1. /\ task'[k] \in {"queued", "none"}
          /\ task[k] = "queued"
      BY <1>5, <2>3 DEF RunSync, finish, TypeOK
    <3>2. \/ rendered'[k] = content[k] /\ applied'[k] \in {applied[k], desired[k]}
          \/ rendered'[k] \in {rendered[k], content[k]} /\ applied'[k] = applied[k]
      BY <1>5, <2>3 DEF RunSync, markApplied, markFailed, TypeOK
    <3>3. bg[k] = "none"
      BY <1>5, <2>3, HookAssumption DEF RunSync, WritesForward
    <3> QED
      BY <2>1, <3>1, <3>2, <3>3 DEF Bounded, WritesForward
  <2> QED
    BY <2>2, <2>3
<1>6. ASSUME NEW h \in Hooks, StartAsync(h) PROVE Goal(k)
  <2>1. /\ rendered' = rendered /\ loaded' = loaded /\ bg' = bg /\ applied' = applied
        /\ content' = content /\ desired' = desired /\ promise' = promise
    BY <1>6 DEF StartAsync, write
  <2>2. \/ task'[k] = task[k] /\ taken'[k] = taken[k]
        \/ task'[k] = "waiting" /\ taken'[k] = desired[k]
    BY <1>6 DEF StartAsync, TypeOK
  <2> QED
    BY <2>1, <2>2 DEF Bounded, WritesForward
<1>7. ASSUME NEW h \in Hooks, LoadZones(h) PROVE Goal(k)
  <2>1. /\ rendered' = rendered /\ bg' = bg /\ applied' = applied /\ taken' = taken
        /\ content' = content /\ desired' = desired /\ promise' = promise
    BY <1>7 DEF LoadZones, database
  <2>2. \/ task'[k] = task[k] /\ loaded'[k] = loaded[k]
        \/ /\ task[k] = "waiting" /\ bg[k] # "writing"
           /\ task'[k] = "writing" /\ loaded'[k] = content[k]
    BY <1>7 DEF LoadZones, TypeOK
  <2> QED
    BY <2>1, <2>2 DEF Bounded, WritesForward
<1>8. ASSUME NEW h \in Hooks, Settle(h) PROVE Goal(k)
  <2>1. content' = content /\ desired' = desired /\ promise' = promise
    BY <1>8 DEF Settle
  <2>2. CASE k # h
    <3>1. applied'[k] = applied[k]
      BY <1>8, <2>2 DEF Settle, markApplied, markFailed, TypeOK
    <3>2. task'[k] = task[k] /\ taken'[k] = taken[k] /\ loaded'[k] = loaded[k]
      BY <1>8, <2>2 DEF Settle, finish, TypeOK
    <3>3. rendered'[k] = rendered[k] /\ bg'[k] = bg[k]
      BY <1>8, <2>2 DEF Settle, TypeOK
    <3> QED
      BY <2>1, <3>1, <3>2, <3>3 DEF Bounded, WritesForward
  <2>3. CASE k = h
    <3>1. task'[k] \in {"queued", "none"} /\ task[k] = "writing"
      BY <1>8, <2>3 DEF Settle, finish, TypeOK
    <3>2. \/ rendered'[k] = loaded[k] /\ applied'[k] \in {applied[k], taken[k]} /\ bg'[k] = bg[k]
          \/ rendered'[k] \in {rendered[k], loaded[k]} /\ applied'[k] = applied[k] /\ bg'[k] = bg[k]
          \/ /\ k \in Deferrable /\ rendered'[k] = rendered[k]
             /\ applied'[k] \in {applied[k], taken[k]} /\ bg'[k] = "starting"
      BY <1>8, <2>3 DEF Settle, markApplied, markFailed, TypeOK
    <3> QED
      BY <2>1, <3>1, <3>2 DEF Bounded, WritesForward
  <2> QED
    BY <2>2, <2>3
<1>9. ASSUME NEW h \in Hooks, ResyncZones(h) PROVE Goal(k)
  <2>1. /\ rendered' = rendered /\ applied' = applied /\ taken' = taken /\ task' = task
        /\ content' = content /\ desired' = desired /\ promise' = promise
    BY <1>9 DEF ResyncZones, database, hookVars
  <2>2. \/ bg'[k] = bg[k] /\ loaded'[k] = loaded[k]
        \/ /\ bg[k] = "starting" /\ bg'[k] = "writing"
           /\ task[k] # "writing" /\ loaded'[k] = content[k]
        \/ bg[k] = "starting" /\ bg'[k] = "none" /\ loaded'[k] = loaded[k]
    <3>1. CASE k = h
      BY <1>9, <3>1 DEF ResyncZones, TypeOK
    <3>2. CASE k # h
      BY <1>9, <3>2 DEF ResyncZones, TypeOK
    <3> QED
      BY <3>1, <3>2
  <2> QED
    BY <2>1, <2>2 DEF Bounded, WritesForward
<1>10. ASSUME NEW h \in Hooks, ResyncDone(h) PROVE Goal(k)
  <2>1. /\ applied' = applied /\ taken' = taken /\ task' = task
        /\ content' = content /\ desired' = desired /\ promise' = promise
    BY <1>10 DEF ResyncDone, database, hookVars
  <2>2. \/ rendered'[k] = rendered[k] /\ bg'[k] = bg[k] /\ loaded'[k] = loaded[k]
        \/ /\ bg[k] = "writing" /\ bg'[k] = "none" /\ loaded'[k] = 0
           /\ rendered'[k] \in {rendered[k], loaded[k]}
    <3>1. CASE k = h
      BY <1>10, <3>1 DEF ResyncDone, TypeOK
    <3>2. CASE k # h
      BY <1>10, <3>2 DEF ResyncDone, TypeOK
    <3> QED
      BY <3>1, <3>2
  <2> QED
    BY <2>1, <2>2 DEF Bounded, WritesForward
<1>11. ASSUME NEW x \in Holders, Hold(x) PROVE Goal(k)
  BY <1>11 DEF Hold, hookVars, write, database, Bounded, WritesForward
<1>12. ASSUME NEW x \in Holders, HoldGranted(x) PROVE Goal(k)
  BY <1>12 DEF HoldGranted, hookVars, write, database, Bounded, WritesForward
<1>13. ASSUME NEW x \in Holders, Release(x) PROVE Goal(k)
  <2>1. /\ rendered' = rendered /\ loaded' = loaded /\ bg' = bg /\ applied' = applied
        /\ content' = content /\ desired' = desired /\ promise' = promise
    BY <1>13 DEF Release, write, database
  <2>2. taken'[k] = taken[k] /\ task'[k] \in {task[k], "queued"}
    BY <1>13 DEF Release, fireHook, TypeOK
  <2> QED
    BY <2>1, <2>2 DEF Bounded, WritesForward
<1>14. CASE Crash
  <2>1. applied' = applied /\ content' = content /\ desired' = desired /\ promise' = promise
    BY <1>14 DEF Crash, database
  <2>2. task'[k] = "none" /\ bg'[k] = "none"
    BY <1>14 DEF Crash
  <2>3. \/ rendered'[k] = rendered[k]
        \/ (task[k] = "writing" \/ bg[k] = "writing") /\ rendered'[k] = loaded[k]
    BY <1>14 DEF Crash
  <2> QED
    BY <2>1, <2>2, <2>3 DEF Bounded, WritesForward
<1>15. CASE Boot
  <2>1. PICK S \in SUBSET Hooks : enqueueGeneration(S, content)
    BY <1>15, HookAssumption DEF Boot
  <2>2. /\ Len(promise'[k]) = desired'[k]
        /\ desired[k] <= desired'[k] /\ desired'[k] \in Nat
        /\ \A i \in 1..desired[k] : promise'[k][i] = promise[k][i]
        /\ \A i \in 1..desired'[k] : i \notin 1..desired[k] => promise'[k][i] = content[k]
    <3>1. Len(promise[k]) = desired[k] /\ content \in [Hooks -> Nat]
      BY DEF Bounded, TypeOK
    <3> QED
      BY <2>1, <3>1, EnqueueData DEF TypeOK
  <2>3. /\ applied' = applied /\ content' = content /\ loaded' = loaded /\ bg' = bg
        /\ task'[k] \in {"queued", "none"} /\ bg[k] = "none"
    BY <1>15, <2>1 DEF Boot, enqueueGeneration, DownIsEmpty
  <2>4. rendered'[k] \in {rendered[k], content[k]}
    BY <1>15 DEF Boot
  <2> QED
    BY <2>2, <2>3, <2>4 DEF Bounded, WritesForward
<1>16. CASE UNCHANGED vars
  BY <1>16 DEF vars, Bounded, WritesForward
<1> QED
  BY <1>1, <1>2, <1>3, <1>4, <1>5, <1>6, <1>7, <1>8, <1>9, <1>10, <1>11, <1>12,
     <1>13, <1>14, <1>15, <1>16 DEF Next

\* The data part holds of every behaviour of the queue: no write under way is
\* older than what the daemon carries (pdns zoneQueue loads at its turn).
THEOREM DataInvariant == Spec => []Data
<1>1. Control /\ Control' /\ Data /\ [Next]_vars => Data'
  BY NextData
<1>2. Init => Data
  BY InitData
<1> QED
  BY ControlInvariant, <1>1, <1>2, PTL DEF Spec

\* What a daemon carries never goes back to an older version of the database,
\* whatever overlaps, fails or crashes (after-commit.js, pdns zoneQueue).
THEOREM NeverGoesBack == Spec => RenderedNeverGoesBack
<1>1. Control /\ Control' /\ Data /\ [Next]_vars
        => [\A h \in Hooks : rendered'[h] >= rendered[h]]_vars
  BY NextData
<1> QED
  BY ControlInvariant, DataInvariant, <1>1, PTL DEF Spec, RenderedNeverGoesBack

\* A generation reported as applied is in the daemons, when every handler
\* resolves after its own write (dnsmasq; PowerDNS while its API answers).
THEOREM AppliedMeansRendered == Deferrable = {} /\ Spec => []AppliedIsRendered
<1> SUFFICES ASSUME Deferrable = {} PROVE Spec => []AppliedIsRendered
  OBVIOUS
<1>1. Control /\ Control' /\ Data /\ Carried /\ [Next]_vars => Carried'
  BY NextData
<1>2. Init => Carried
  BY InitData
<1>3. Control /\ Carried => AppliedIsRendered
  <2> SUFFICES ASSUME Control, Carried, NEW h \in Hooks, applied[h] > 0
               PROVE  rendered[h] >= promise[h][applied[h]]
    BY DEF AppliedIsRendered
  <2>1. applied[h] \in 1..applied[h]
    BY DEF Control, TypeOK
  <2> QED
    BY <2>1 DEF Carried, Control, TypeOK
<1> QED
  BY ControlInvariant, DataInvariant, <1>1, <1>2, <1>3, PTL DEF Spec

\* holdHooks, once it resolves, leaves no hook running and no zone write under
\* way, when no handler leaves a restart of PowerDNS to the background (only
\* such a restart writes zones outside a run).
THEOREM HoldMeansQuiet == Deferrable = {} /\ Spec => []HeldMeansQuiet
<1> SUFFICES ASSUME Deferrable = {} PROVE Spec => []HeldMeansQuiet
  OBVIOUS
<1>1. Control /\ Data => HeldMeansQuiet
  BY DEF Control, HeldMeansNotRunning, Data, WritesForward, HeldMeansQuiet
<1> QED
  BY ControlInvariant, DataInvariant, <1>1, PTL

=============================================================================
