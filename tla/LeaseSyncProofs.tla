-------------------------- MODULE LeaseSyncProofs --------------------------
(***************************************************************************)
(* The lease sync, proved for every set of holders and requests and every  *)
(* bound: a granted hold excludes the runner, and no request to sync is    *)
(* left waiting for nothing.                                               *)
(***************************************************************************)
EXTENDS LeaseSync, TLAPS, FiniteSetTheorems

Holding == {x \in Holders : holder[x] # "idle"}

HoldCount == holds = Cardinality(Holding)

\* The inductive invariant: neither part holds without the count of the holds,
\* for a sync may start only when nobody holds.
Inv ==
    /\ TypeOK
    /\ HoldCount
    /\ HeldMeansNotSyncing
    /\ NothingSleeps

\* The holds are counted: none means nobody, one released leaves one less.
LEMMA HoldingFacts ==
    ASSUME TypeOK, HoldCount
    PROVE  /\ \A x \in Holders : holder[x] # "idle" => holds > 0
           /\ \A x \in Holders, y \in Holders :
                x # y /\ holder[x] # "idle" /\ holder[y] # "idle" => holds > 1
<1>1. IsFiniteSet(Holding) /\ Holding \subseteq Holders
  BY FS_Subset, LeaseSyncBounds DEF Holding
<1>2. Cardinality(Holding) \in Nat
  BY <1>1, FS_CardinalityType
<1>3. ASSUME NEW x \in Holders, holder[x] # "idle"
      PROVE  holds > 0
  <2>1. x \in Holding
    BY <1>3 DEF Holding
  <2>2. Cardinality(Holding) # 0
    BY <1>1, <2>1, FS_EmptySet
  <2> QED
    BY <1>2, <2>2 DEF HoldCount
<1>4. ASSUME NEW x \in Holders, NEW y \in Holders, x # y,
             holder[x] # "idle", holder[y] # "idle"
      PROVE  holds > 1
  <2>1. {x, y} \subseteq Holding
    BY <1>4 DEF Holding
  <2>2. Cardinality({x, y}) = 2
    <3>1. IsFiniteSet({x}) /\ Cardinality({x}) = 1
      BY FS_Singleton
    <3>2. Cardinality({x} \union {y}) = Cardinality({x}) + 1
      BY <3>1, <1>4, FS_AddElement
    <3>3. {x} \union {y} = {x, y}
      OBVIOUS
    <3> QED
      BY <3>1, <3>2, <3>3
  <2>3. Cardinality({x, y}) <= Cardinality(Holding)
    BY <1>1, <2>1, FS_Subset
  <2> QED
    BY <1>2, <2>2, <2>3 DEF HoldCount
<1> QED
  BY <1>3, <1>4

\* A hold that begins or ends moves the count by one.
LEMMA HoldMoves ==
    ASSUME TypeOK, HoldCount, NEW x \in Holders, NEW to \in {"idle", "waiting"},
           (holder[x] = "idle") # (to = "idle"),
           holder' = [holder EXCEPT ![x] = to],
           holds' = IF to = "idle" THEN holds - 1 ELSE holds + 1
    PROVE  HoldCount' /\ holds' \in Nat
<1>1. IsFiniteSet(Holding) /\ Holding \subseteq Holders
  BY FS_Subset, LeaseSyncBounds DEF Holding
<1>2. Cardinality(Holding) \in Nat
  BY <1>1, FS_CardinalityType
<1>3. CASE to = "idle"
  <2>1. x \in Holding /\ Holding' = Holding \ {x}
    BY <1>3 DEF Holding, TypeOK
  <2>2. Cardinality(Holding \ {x}) = Cardinality(Holding) - 1
    BY <1>1, <2>1, FS_RemoveElement
  <2>3. Cardinality(Holding \ {x}) \in Nat
    BY <1>1, FS_RemoveElement, FS_CardinalityType
  <2> QED
    BY <1>2, <1>3, <2>1, <2>2, <2>3 DEF HoldCount
<1>4. CASE to = "waiting"
  <2>1. x \notin Holding /\ Holding' = Holding \union {x}
    BY <1>4 DEF Holding, TypeOK
  <2>2. Cardinality(Holding \union {x}) = Cardinality(Holding) + 1
    BY <1>1, <2>1, FS_AddElement
  <2> QED
    BY <1>2, <1>4, <2>1, <2>2 DEF HoldCount
<1> QED
  BY <1>3, <1>4

\* A process that has just started its sync: nobody holds.
LEMMA InitInv == Init => Inv
<1> SUFFICES ASSUME Init PROVE Inv
  OBVIOUS
<1>1. TypeOK
  <2>1. run \in Read /\ Quiet \in Read
    BY LeaseSyncBounds DEF Init, Read, Quiet
  <2>2. manual \in [Callers -> Read] /\ holder \in [Holders -> {"idle", "waiting", "held"}]
    BY <2>1 DEF Init
  <2>3. /\ lease \in 1..MaxLease /\ seen \in 1..MaxLease /\ db \in 0..MaxLease
        /\ synced \in 0..MaxLease /\ failures \in 0..MaxFailures /\ holds \in Nat
    BY LeaseSyncBounds DEF Init
  <2>4. wiped \in BOOLEAN /\ syncAgain \in BOOLEAN /\ skippedWhileHeld \in BOOLEAN
    BY DEF Init
  <2> QED
    BY <2>1, <2>2, <2>3, <2>4 DEF TypeOK
<1>2. HoldCount
  <2>1. Holding = {}
    BY DEF Init, Holding
  <2> QED
    BY <2>1, FS_EmptySet DEF Init, HoldCount
<1>3. HeldMeansNotSyncing /\ NothingSleeps
  BY DEF Init, HeldMeansNotSyncing, NothingSleeps
<1> QED
  BY <1>1, <1>2, <1>3 DEF Inv

\* runLeaseSync keeps what the invariant says of the runner.
LEMMA AskFacts ==
    ASSUME Inv, runLeaseSync(holds), UNCHANGED <<lease, holds, holder>>
    PROVE  /\ run' \in Read /\ syncAgain' \in BOOLEAN /\ skippedWhileHeld' \in BOOLEAN
           /\ HeldMeansNotSyncing' /\ NothingSleeps' /\ HoldCount'
<1> USE DEF Inv
<1>1. lease \in 0..MaxLease /\ 0 \in 0..MaxLease
  BY LeaseSyncBounds DEF TypeOK
<1>2. run' \in Read /\ syncAgain' \in BOOLEAN /\ skippedWhileHeld' \in BOOLEAN
  <2>1. Reading \in Read
    BY <1>1 DEF Reading, Read
  <2>2. run \in Read /\ syncAgain \in BOOLEAN /\ skippedWhileHeld \in BOOLEAN
    BY DEF TypeOK
  <2>3. run' \in {run, Reading}
    BY DEF runLeaseSync
  <2>4. syncAgain' \in {syncAgain, TRUE, FALSE}
    BY Zenon DEF runLeaseSync
  <2>5. skippedWhileHeld' \in {skippedWhileHeld, TRUE}
    BY Zenon DEF runLeaseSync
  <2> QED
    BY Zenon, <2>1, <2>2, <2>3, <2>4, <2>5
<1>3. HeldMeansNotSyncing'
  BY HoldingFacts DEF runLeaseSync, HeldMeansNotSyncing, TypeOK
<1>4. NothingSleeps'
  BY DEF runLeaseSync, NothingSleeps, Reading, TypeOK
<1>5. HoldCount'
  BY DEF HoldCount, Holding
<1> QED
  BY <1>2, <1>3, <1>4, <1>5

\* So does the end of a pass of the loop: it runs only when nobody has a hold.
LEMMA LoopFacts ==
    ASSUME Inv, run.at # "none", Loop, UNCHANGED <<holds, holder>>
    PROVE  /\ run' \in Read /\ syncAgain' \in BOOLEAN /\ skippedWhileHeld' \in BOOLEAN
           /\ HeldMeansNotSyncing' /\ NothingSleeps' /\ HoldCount'
<1> USE DEF Inv
<1>1. lease \in 0..MaxLease /\ 0 \in 0..MaxLease
  BY LeaseSyncBounds DEF TypeOK
<1>2. run' \in Read /\ syncAgain' \in BOOLEAN /\ skippedWhileHeld' \in BOOLEAN
  BY <1>1 DEF Loop, Reading, Quiet, Read, TypeOK
<1>3. HeldMeansNotSyncing'
  BY DEF HeldMeansNotSyncing
<1>4. NothingSleeps'
  BY DEF Loop, NothingSleeps, TypeOK
<1>5. HoldCount'
  BY DEF HoldCount, Holding
<1> QED
  BY <1>2, <1>3, <1>4, <1>5

\* Every step keeps the invariant, one case per action.
LEMMA NextInv == Inv /\ [Next]_vars => Inv'
<1> SUFFICES ASSUME Inv, [Next]_vars PROVE Inv'
  OBVIOUS
<1> USE DEF Inv
<1>0. /\ lease \in 1..MaxLease /\ lease \in 0..MaxLease /\ 0 \in 0..MaxLease
      /\ MaxLease \in Nat /\ run \in Read /\ Reading \in Read /\ Quiet \in Read
      /\ \A c \in Callers : manual[c] \in Read
  <2>1. lease \in 1..MaxLease /\ lease \in 0..MaxLease /\ 0 \in 0..MaxLease /\ MaxLease \in Nat
    BY LeaseSyncBounds DEF TypeOK
  <2>2. run \in Read /\ \A c \in Callers : manual[c] \in Read
    BY DEF TypeOK
  <2> QED
    BY <2>1, <2>2 DEF Read, Reading, Quiet
<1>1. \A r \in Read : \A v \in View(r) : v \in 0..MaxLease
  BY <1>0 DEF View, Read
<1>2. CASE Change
  BY <1>0, <1>2 DEF Change, flags, TypeOK, HoldCount, Holding, HeldMeansNotSyncing, NothingSleeps
<1>3. ASSUME NEW x \in Holders, Wipe(x) PROVE Inv'
  BY <1>3 DEF Wipe, flags, TypeOK, HoldCount, Holding, HeldMeansNotSyncing, NothingSleeps
<1>4. ASSUME NEW x \in Holders, Refill(x) PROVE Inv'
  <2>1. lease' \in 1..MaxLease
    BY <1>0, <1>4 DEF Refill
  <2> QED
    BY <1>4, <2>1 DEF Refill, flags, TypeOK, HoldCount, Holding, HeldMeansNotSyncing, NothingSleeps
<1>5. CASE Poll
  BY <1>0, <1>5, AskFacts DEF Poll, TypeOK
<1>6. CASE DhcpApplied
  BY <1>0, <1>6, AskFacts DEF DhcpApplied, TypeOK
<1>7. ASSUME NEW x \in Holders, BackendChanged(x) PROVE Inv'
  BY <1>0, <1>7, AskFacts DEF BackendChanged, TypeOK
<1>8. CASE ReadSettles
  <2>1. run' \in Read /\ run'.at = "read"
    BY <1>0, <1>1, <1>8 DEF ReadSettles, Read
  <2> QED
    BY <1>8, <2>1 DEF ReadSettles, flags, TypeOK, HoldCount, Holding, HeldMeansNotSyncing,
                      NothingSleeps
<1>9. CASE ReadUnsettled
  <2>1. run.at # "none"
    BY <1>9 DEF ReadUnsettled
  <2> QED
    BY <1>9, <2>1, LoopFacts DEF ReadUnsettled, TypeOK
<1>10. CASE ReadFails
  <2>1. run.at # "none"
    BY <1>10 DEF ReadFails
  <2>2. failures' \in 0..MaxFailures
    BY <1>10, LeaseSyncBounds DEF ReadFails, TypeOK
  <2> QED
    BY <1>10, <2>1, <2>2, LoopFacts DEF ReadFails, TypeOK
<1>11. CASE Ingest
  <2>1. run.at # "none" /\ db' \in 0..MaxLease /\ synced' \in 0..MaxLease
    BY <1>0, <1>11 DEF Ingest, Read
  <2>2. CASE Loop
    BY <1>11, <2>1, <2>2, LoopFacts DEF Ingest, TypeOK
  <2>3. CASE run' = [run EXCEPT !.at = "releasing"] /\ UNCHANGED flags
    <3>1. run' \in Read /\ run'.at = "releasing"
      BY <1>0, <2>3 DEF Read
    <3> QED
      BY <1>11, <2>1, <2>3, <3>1 DEF Ingest, flags, TypeOK, HoldCount, Holding,
                                     HeldMeansNotSyncing, NothingSleeps
  <2> QED
    BY <1>11, <2>2, <2>3 DEF Ingest
<1>12. CASE ReleaseBlocking
  <2>1. run.at # "none" /\ lease' \in 1..MaxLease
    BY <1>0, <1>12 DEF ReleaseBlocking
  <2> QED
    BY <1>12, <2>1, LoopFacts DEF ReleaseBlocking, TypeOK
<1>13. ASSUME NEW x \in Holders, Hold(x) PROVE Inv'
  <2>0. holds \in Nat /\ holds' = holds + 1
    BY <1>13 DEF Hold, TypeOK
  <2>1. HoldCount' /\ holds' \in Nat
    BY <1>13, HoldMoves DEF Hold
  <2> QED
    BY <1>13, <2>0, <2>1 DEF Hold, flags, TypeOK, HeldMeansNotSyncing, NothingSleeps
<1>14. ASSUME NEW x \in Holders, HoldGranted(x) PROVE Inv'
  <2>1. Holding' = Holding
    BY <1>14 DEF HoldGranted, Holding, TypeOK
  <2> QED
    BY <1>14, <2>1 DEF HoldGranted, flags, TypeOK, HoldCount, HeldMeansNotSyncing, NothingSleeps
<1>15. ASSUME NEW x \in Holders, Release(x) PROVE Inv'
  <2>1. HoldCount' /\ holds' \in Nat
    BY <1>15, HoldMoves DEF Release
  <2>2. TypeOK'
    BY <1>0, <1>15, <2>1 DEF Release, flags, TypeOK
  <2>3. HeldMeansNotSyncing'
    <3> SUFFICES ASSUME NEW y \in Holders, holder'[y] = "held"
                 PROVE  run'.at = "none"
      BY DEF HeldMeansNotSyncing
    <3>1. y # x /\ holder[y] = "held"
      BY <1>15 DEF Release, TypeOK
    <3>2. holds > 1
      BY <1>15, <3>1, HoldingFacts DEF Release
    <3> QED
      BY <1>15, <3>1, <3>2 DEF Release, HeldMeansNotSyncing, TypeOK
  <2>4. NothingSleeps'
    <3>1. CASE holds = 1 /\ skippedWhileHeld
      BY <1>15, <3>1 DEF Release, NothingSleeps, TypeOK
    <3>2. CASE ~(holds = 1 /\ skippedWhileHeld)
      BY <1>15, <3>2, <2>1 DEF Release, flags, NothingSleeps, TypeOK
    <3> QED
      BY <3>1, <3>2
  <2> QED
    BY <2>1, <2>2, <2>3, <2>4
<1>16. ASSUME NEW c \in Callers, ManualSync(c) PROVE Inv'
  BY <1>0, <1>16 DEF ManualSync, flags, TypeOK, HoldCount, Holding, HeldMeansNotSyncing,
                     NothingSleeps
<1>17. ASSUME NEW c \in Callers, ManualRead(c) PROVE Inv'
  <2>1. manual' \in [Callers -> Read]
    BY <1>0, <1>1, <1>17 DEF ManualRead, TypeOK, Read
  <2> QED
    BY <1>17, <2>1 DEF ManualRead, flags, TypeOK, HoldCount, Holding, HeldMeansNotSyncing,
                       NothingSleeps
<1>18. ASSUME NEW c \in Callers, ManualIngest(c) PROVE Inv'
  <2>1. manual' \in [Callers -> Read] /\ db' \in 0..MaxLease
    BY <1>0, <1>18 DEF ManualIngest, TypeOK, Read
  <2> QED
    BY <1>18, <2>1 DEF ManualIngest, flags, TypeOK, HoldCount, Holding, HeldMeansNotSyncing,
                       NothingSleeps
<1>19. ASSUME NEW c \in Callers, ManualRelease(c) PROVE Inv'
  BY <1>0, <1>19 DEF ManualRelease, flags, TypeOK, HoldCount, Holding, HeldMeansNotSyncing,
                     NothingSleeps
<1>20. CASE UNCHANGED vars
  BY <1>20 DEF vars, TypeOK, HoldCount, Holding, HeldMeansNotSyncing, NothingSleeps
<1> QED
  BY <1>2, <1>3, <1>4, <1>5, <1>6, <1>7, <1>8, <1>9, <1>10, <1>11, <1>12, <1>13, <1>14,
     <1>15, <1>16, <1>17, <1>18, <1>19, <1>20 DEF Next

\* Inv is an invariant of the lease sync.
THEOREM SyncInvariant == Spec => []Inv
<1> QED
  BY InitInv, NextInv, PTL DEF Spec

\* Every variable keeps its type: the hold count never goes below zero.
THEOREM SyncTypeCorrect == Spec => []TypeOK
<1>1. Inv => TypeOK
  BY DEF Inv
<1> QED
  BY SyncInvariant, <1>1, PTL

\* While a caller of holdLeaseSync has its hold, runLeaseSync has no sync under
\* way, whatever is seen, applied or released meanwhile.
THEOREM HoldExcludesSync == Spec => []HeldMeansNotSyncing
<1>1. Inv => HeldMeansNotSyncing
  BY DEF Inv
<1> QED
  BY SyncInvariant, <1>1, PTL

\* A change remembered in syncAgain or skippedWhileHeld waits for a sync under
\* way, or for a hold whose release syncs it.
THEOREM RequestsWait == Spec => []NothingSleeps
<1>1. Inv => NothingSleeps
  BY DEF Inv
<1> QED
  BY SyncInvariant, <1>1, PTL

-----------------------------------------------------------------------------
(* What the sync under way will leave behind *)

\* A newer lease set than `v` is still to be seen, or to be synced.
Ahead(v) == v = lease \/ seen # lease \/ syncAgain \/ skippedWhileHeld

\* What the runner has stored, has read or began to read is the server's lease
\* set, or something will have it look again.
Noticed ==
    failures = 0 =>
        /\ run.at \in {"none", "releasing"} => Ahead(synced)
        /\ run.at = "reading" => Ahead(run.from)
        /\ run.at = "read" => Ahead(run.snap)

\* The watcher is never ahead of the server, nor a read of its own begin; Kea
\* is given its leases only under a hold.
Behind ==
    /\ seen <= lease
    /\ run.at = "reading" => run.from <= lease
    /\ wiped => \E x \in Holders : holder[x] = "held"

\* With nobody held the request starts a sync of the leases as they are, or is
\* remembered.
LEMMA AskNotices ==
    ASSUME Inv, Behind, runLeaseSync(holds), UNCHANGED <<lease, wiped, synced, holder>>,
           seen' \in {seen, lease}, failures' = failures
    PROVE  Noticed' /\ Behind'
<1> USE DEF Inv
<1>1. /\ lease \in 1..MaxLease /\ seen \in 1..MaxLease /\ MaxLease \in Nat /\ holds \in Nat
      /\ run \in Read
  BY LeaseSyncBounds DEF TypeOK
<1>2. Behind'
  BY <1>1 DEF Behind, runLeaseSync, Reading
<1>3. CASE holds > 0
  <2>1. skippedWhileHeld'
    BY Zenon, <1>3 DEF runLeaseSync
  <2> QED
    BY Zenon, <1>2, <2>1 DEF Noticed, Ahead
<1>4. CASE ~(holds > 0) /\ run.at # "none"
  <2>1. syncAgain'
    BY Zenon, <1>4 DEF runLeaseSync
  <2> QED
    BY Zenon, <1>2, <2>1 DEF Noticed, Ahead
<1>5. CASE ~(holds > 0) /\ run.at = "none"
  <2>1. run' = Reading
    BY Zenon, <1>5 DEF runLeaseSync
  <2>2. run'.at = "reading" /\ run'.from = lease'
    BY <2>1 DEF Reading
  <2> QED
    BY <1>2, <2>2 DEF Noticed, Ahead
<1> QED
  BY <1>2, <1>3, <1>4, <1>5

\* A pass of the loop ends: what is still to be synced is read again, or waits
\* for the release.
LEMMA LoopNotices ==
    ASSUME Inv, Behind, Loop, UNCHANGED <<wiped, seen, holder, failures>>,
           lease' >= lease, lease' \in 1..MaxLease,
           failures = 0 => synced' = lease \/ seen # lease \/ syncAgain \/ skippedWhileHeld
    PROVE  Noticed' /\ Behind'
<1> USE DEF Inv
<1>1. /\ lease \in 1..MaxLease /\ seen \in 1..MaxLease /\ MaxLease \in Nat /\ holds \in Nat
  BY LeaseSyncBounds DEF TypeOK
<1>2. CASE syncAgain /\ holds = 0
  BY <1>1, <1>2 DEF Loop, Reading, Noticed, Ahead, Behind
<1>3. CASE ~(syncAgain /\ holds = 0)
  <2>1. run' = Quiet
    BY <1>3 DEF Loop
  <2>2. syncAgain => holds > 0
    BY <1>1, <1>3
  <2>3. syncAgain \/ skippedWhileHeld => skippedWhileHeld'
    BY Zenon, <2>2 DEF Loop
  <2> QED
    BY <1>1, <2>1, <2>3 DEF Quiet, Noticed, Ahead, Behind
<1> QED
  BY <1>2, <1>3

\* The first sync has begun, at the leases the watcher starts from.
LEMMA InitNoticed == Init => Noticed /\ Behind
BY DEF Init, Noticed, Ahead, Behind

\* Every step keeps it, one case per action.
LEMMA NextNoticed ==
    ASSUME Inv, Inv', Noticed, Behind, [Next]_vars
    PROVE  Noticed' /\ Behind'
<1>1. /\ lease \in 1..MaxLease /\ lease' \in 1..MaxLease /\ seen \in 1..MaxLease
      /\ MaxLease \in Nat /\ holds \in Nat /\ run \in Read
      /\ failures \in Nat /\ holder \in [Holders -> {"idle", "waiting", "held"}]
  BY LeaseSyncBounds DEF Inv, TypeOK
<1>2. run.at # "none" => ~wiped
  BY DEF Inv, HeldMeansNotSyncing, Behind
\* The server's leases grow: the watcher has not seen it.
<1>3. ASSUME lease' >= lease, UNCHANGED <<seen, run, flags, synced, failures>>,
             wiped' => \E x \in Holders : holder'[x] = "held"
      PROVE  Noticed' /\ Behind'
  <2>1. CASE lease' = lease
    BY <1>3, <2>1 DEF Noticed, Ahead, Behind, flags
  <2>2. CASE lease' # lease
    <3>1. seen' # lease' /\ seen' <= lease'
      BY <1>1, <1>3, <2>2 DEF Behind
    <3>2. Noticed'
      BY <3>1 DEF Noticed, Ahead
    <3>3. run'.at = "reading" => run'.from <= lease'
      BY <1>1, <1>3 DEF Behind, Read
    <3> QED
      BY <1>3, <3>1, <3>2, <3>3 DEF Behind
  <2> QED
    BY <2>1, <2>2
<1>4. CASE Change
  BY <1>1, <1>3, <1>4 DEF Change, Behind
<1>5. ASSUME NEW x \in Holders, Wipe(x) PROVE Noticed' /\ Behind'
  BY <1>1, <1>3, <1>5 DEF Wipe
<1>6. ASSUME NEW x \in Holders, Refill(x) PROVE Noticed' /\ Behind'
  <2>1. lease' >= lease
    BY <1>1, <1>6 DEF Refill
  <2> QED
    BY <2>1, <1>3, <1>6 DEF Refill
<1>7. CASE Poll
  BY <1>7, AskNotices DEF Poll
<1>8. CASE DhcpApplied
  BY <1>8, AskNotices DEF DhcpApplied
<1>9. ASSUME NEW x \in Holders, BackendChanged(x) PROVE Noticed' /\ Behind'
  BY <1>9, AskNotices DEF BackendChanged
<1>10. CASE ReadSettles
  <2>1. PICK v \in run.from..lease : run' = [run EXCEPT !.at = "read", !.snap = v]
    BY <1>2, <1>10 DEF ReadSettles, View
  <2>2. run'.at = "read" /\ run'.snap = v
    BY <1>1, <2>1 DEF Read
  <2>3. run.from = lease => v = lease
    BY <1>1, <2>1
  <2> QED
    BY <1>10, <2>2, <2>3 DEF ReadSettles, flags, Noticed, Ahead, Behind
<1>11. CASE ReadUnsettled
  <2>1. failures = 0 => seen # lease \/ syncAgain \/ skippedWhileHeld
    BY <1>11 DEF ReadUnsettled, Noticed, Ahead
  <2> QED
    BY <1>1, <1>11, <2>1, LoopNotices DEF ReadUnsettled
<1>12. CASE ReadFails
  <2>1. failures' # 0
    BY <1>1, <1>12 DEF ReadFails
  <2>2. Behind'
    BY <1>1, <1>12 DEF ReadFails, Loop, Reading, Quiet, Behind
  <2> QED
    BY <2>1, <2>2 DEF Noticed
<1>13. CASE Ingest
  <2>1. failures = 0 => synced' = lease \/ seen # lease \/ syncAgain \/ skippedWhileHeld
    BY <1>13 DEF Ingest, Noticed, Ahead
  <2>2. CASE Loop
    BY <1>1, <1>13, <2>1, <2>2, LoopNotices DEF Ingest
  <2>3. CASE run' = [run EXCEPT !.at = "releasing"] /\ UNCHANGED flags
    <3>1. run'.at = "releasing"
      BY <1>1, <2>3 DEF Read
    <3> QED
      BY <1>13, <2>1, <2>3, <3>1 DEF Ingest, flags, Noticed, Ahead, Behind
  <2> QED
    BY <1>13, <2>2, <2>3 DEF Ingest
<1>14. CASE ReleaseBlocking
  <2>1. failures = 0 => synced' = lease \/ seen # lease \/ syncAgain \/ skippedWhileHeld
    BY <1>14 DEF ReleaseBlocking, Noticed, Ahead
  <2>2. lease' >= lease
    BY <1>1, <1>14 DEF ReleaseBlocking
  <2> QED
    BY <1>1, <1>14, <2>1, <2>2, LoopNotices DEF ReleaseBlocking
<1>15. ASSUME NEW x \in Holders, Hold(x) PROVE Noticed' /\ Behind'
  BY <1>1, <1>3, <1>15 DEF Hold, Behind
<1>16. ASSUME NEW x \in Holders, HoldGranted(x) PROVE Noticed' /\ Behind'
  BY <1>1, <1>3, <1>16 DEF HoldGranted, Behind
<1>17. ASSUME NEW x \in Holders, Release(x) PROVE Noticed' /\ Behind'
  <2>1. CASE holds = 1 /\ skippedWhileHeld
    <3>1. run'.at = "reading" /\ run'.from = lease' /\ lease' = lease
      BY <1>17, <2>1 DEF Release, Reading
    <3> QED
      BY <1>1, <1>17, <3>1 DEF Release, Noticed, Ahead, Behind
  <2>2. CASE ~(holds = 1 /\ skippedWhileHeld)
    BY <1>1, <1>3, <1>17, <2>2 DEF Release
  <2> QED
    BY <2>1, <2>2
<1>18. ASSUME NEW c \in Callers, ManualSync(c) PROVE Noticed' /\ Behind'
  BY <1>1, <1>3, <1>18 DEF ManualSync, Behind
<1>19. ASSUME NEW c \in Callers, ManualRead(c) PROVE Noticed' /\ Behind'
  BY <1>1, <1>3, <1>19 DEF ManualRead, Behind
<1>20. ASSUME NEW c \in Callers, ManualIngest(c) PROVE Noticed' /\ Behind'
  BY <1>1, <1>3, <1>20 DEF ManualIngest, Behind
<1>21. ASSUME NEW c \in Callers, ManualRelease(c) PROVE Noticed' /\ Behind'
  <2>1. lease' >= lease
    BY <1>1, <1>21 DEF ManualRelease
  <2> QED
    BY <2>1, <1>3, <1>21 DEF ManualRelease, Behind
<1>22. CASE UNCHANGED vars
  BY <1>1, <1>3, <1>22 DEF vars, flags, Behind
<1> QED
  BY <1>4, <1>5, <1>6, <1>7, <1>8, <1>9, <1>10, <1>11, <1>12, <1>13, <1>14, <1>15, <1>16,
     <1>17, <1>18, <1>19, <1>20, <1>21, <1>22 DEF Next

\* When runLeaseSync is at rest and no read has failed, the leases stored are the
\* server's, or the watcher or a release will have them synced.
THEOREM StaleAlwaysNoticed == Spec => []StaleIsNoticed
<1>1. Inv /\ Noticed => StaleIsNoticed
  BY DEF Inv, NothingSleeps, Noticed, Ahead, StaleIsNoticed
<1>2. (Inv /\ Noticed /\ Behind) /\ Inv' /\ [Next]_vars => (Noticed /\ Behind)'
  BY NextNoticed
<1> QED
  BY SyncInvariant, InitNoticed, <1>1, <1>2, PTL DEF Spec

=============================================================================
