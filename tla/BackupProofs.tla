---------------------------- MODULE BackupProofs ----------------------------
(***************************************************************************)
(* Proofs about Backup, for any files, contents, sessions, retention and   *)
(* number of archives and restores.                                        *)
(***************************************************************************)
EXTENDS Backup, TLAPS, WellFoundedInduction, FiniteSetTheorems

\* The states of a restore from the extraction, the stamp and the swap on.
FromStage == {"stamp", "keep", "swap", "place", "finish"}
FromStamp == {"keep", "swap", "place", "finish"}
BeforeSwap == {"snapshot", "extract", "stamp", "keep"}

\* Every whole archive, and the tree a restore was given, has a database.
ArchivesHold ==
  /\ \A n \in Numbers : archives[n] \in Trees => /\ archives[n].db \in Databases
                                                 /\ archives[n].secret = "missing"
  /\ pc \in Restoring => /\ source \in Trees
                         /\ source.db \in Databases
                         /\ source.secret = "there" => source.files[Kea] # None
  /\ pc \in Restoring => before \in Trees /\ before.db \in Databases

\* What is staged, once it is stamped, has no live session and holds the
\* operator's enrolment when they have one.
StagedIsStamped ==
  /\ pc \in FromStage => staging \in Trees /\ staging.db \in Databases
  /\ pc \in FromStamp => staging.db.live = {}
  /\ pc \in FromStamp /\ before.db.op = "on" => staging.db.parked = "enrolment"

\* DATA_DIR has a database except between the two halves of its swap.
DatabaseThere ==
  /\ pc \in {"up", "booting"} \cup BeforeSwap => disk.db \in Databases
  /\ pc = "swap" => disk.db \in Databases
  /\ pc = "place" => item \in Items
  /\ pc = "place" /\ item # "db" => disk.db \in Databases
  /\ enrolled /\ disk.db # None => disk.db.op # "absent"

\* What takePreRestoreSnapshot has still to copy, and nothing else, is not yet
\* in the snapshot; the swap has not begun.
SnapshotProgress ==
  /\ pc \in BeforeSwap => ~swapping /\ disk = before
  /\ pc \in BeforeSwap => \A i \in {"db"} \cup Snapshotted :
       Item(snapshot, i) = Item(before, i) \/ (pc = "snapshot" /\ i \in todo)
  /\ swapping => \A i \in {"db"} \cup Snapshotted : Item(snapshot, i) = Item(before, i)

\* The password that goes with the staged Kea directory: the archive's own, or
\* else this host's.
KeptPassword ==
  IF source.secret = "there" \/ (source.files[Kea] # None /\ before.secret = "there")
    THEN "there" ELSE "missing"

\* The swap loop has put the archive's item in the place of every item it has
\* left behind, and the others are as they were or between the two.
SwapProgress ==
  /\ pc \in FromStage => staging.files = source.files
  /\ pc = "stamp" => staging.db = source.db
  /\ pc \in FromStamp => staging.db = Stamped(source.db)
  /\ pc \in {"stamp", "keep"} => staging.secret = source.secret
  /\ pc \in {"swap", "place", "finish"} =>
       /\ staging.secret = KeptPassword
       /\ todo \subseteq Held(source)
       /\ \A i \in Items \ todo : Item(disk, i) = Item(RestoredTree, i)
       /\ Kea \notin todo => disk.secret = RestoredTree.secret
  /\ pc = "place" => item \in todo
  /\ pc = "finish" => todo = {}

IInv == /\ TypeOK /\ ArchivesHold /\ StagedIsStamped /\ DatabaseThere
        /\ EndedStaysEnded /\ EnrolmentSurvives
IInv2 == IInv /\ SnapshotProgress /\ SwapProgress

-----------------------------------------------------------------------------
(* The operators the model is built from.                                  *)

\* Replacing the database of a tree, which is what every write to it does.
LEMMA DatabaseReplaced ==
  ASSUME NEW t \in Trees, NEW d \in Databases \cup {None}
  PROVE  /\ [t EXCEPT !.db = d] \in Trees
         /\ [t EXCEPT !.db = d].db = d
         /\ [t EXCEPT !.db = d].files = t.files
         /\ [t EXCEPT !.db = d].secret = t.secret
BY DEF Trees

\* Put writes one item of a tree and leaves the others and the password.
LEMMA PutWrites ==
  ASSUME NEW t \in Trees, NEW i \in Items, NEW x,
         i = "db" => x \in Databases \cup {None},
         i # "db" => x \in Contents \cup {None}
  PROVE  /\ Put(t, i, x) \in Trees
         /\ Put(t, i, x).secret = t.secret
         /\ i = "db" => Put(t, i, x).db = x /\ Put(t, i, x).files = t.files
         /\ i # "db" => Put(t, i, x).db = t.db
         /\ \A j \in Items : Item(Put(t, i, x), j) = IF j = i THEN x ELSE Item(t, j)
<1>1. CASE i = "db"
  BY <1>1, BackupAssumption DEF Put, Item, Items, Trees
<1>2. CASE i # "db"
  BY <1>2, BackupAssumption DEF Put, Item, Items, Trees
<1>3. QED
  BY <1>1, <1>2

\* An item of a tree is of the kind Put may write.
LEMMA ItemTyped ==
  ASSUME NEW t \in Trees, NEW i \in Items
  PROVE  /\ i = "db" => Item(t, i) \in Databases \cup {None}
         /\ i # "db" => Item(t, i) \in Contents \cup {None}
BY BackupAssumption DEF Item, Items, Trees

\* The password can be written by itself.
LEMMA SecretReplaced ==
  ASSUME NEW t \in Trees, NEW x \in {"there", "missing"}
  PROVE  /\ [t EXCEPT !.secret = x] \in Trees
         /\ [t EXCEPT !.secret = x].db = t.db
         /\ [t EXCEPT !.secret = x].files = t.files
         /\ [t EXCEPT !.secret = x].secret = x
         /\ \A j \in Items : Item([t EXCEPT !.secret = x], j) = Item(t, j)
BY DEF Trees, Item

\* A stamped database is a database without live sessions; it holds the
\* enrolment when there is one to carry.
LEMMA StampedTyped ==
  ASSUME NEW d \in Databases
  PROVE  /\ Stamped(d) \in Databases
         /\ Stamped(d).live = {}
         /\ Stamped(d).op = d.op
         /\ before.db.op = "on" => Stamped(d).parked = "enrolment"
BY DEF Stamped, Databases, CollectRestoreCarryover

\* The carry-over keeps a database a database, takes no enrolment away and
\* gives the parked one to an account that is there.
LEMMA CarriedOverTyped ==
  ASSUME NEW d \in Databases
  PROVE  /\ CarriedOver(d) \in Databases
         /\ CarriedOver(d).live = d.live
         /\ d.op = "on" => CarriedOver(d).op = "on"
         /\ d.parked = "enrolment" /\ d.op # "absent" => CarriedOver(d).op = "on"
BY DEF CarriedOver, Databases, Accounts

-----------------------------------------------------------------------------
(* The first invariant: types, sessions, the enrolment.                    *)

\* A fresh appliance has the invariant.
LEMMA InitIInv == Init => IInv
<1>1. SUFFICES ASSUME Init PROVE IInv
  OBVIOUS
<1>2. FreshDatabase \in Databases /\ FreshDatabase.live = {}
  BY DEF FreshDatabase, Databases, Accounts
<1>3. disk \in Trees /\ disk.db = FreshDatabase
  BY <1>1, <1>2 DEF Init, Trees
<1>4. EmptyTree \in Trees
  BY DEF EmptyTree, Trees
<1>5. TypeOK
  <2>1. restores \in 0..MaxRestores
    BY <1>1, BackupAssumption DEF Init
  <2>2. swapping \in BOOLEAN /\ enrolled \in BOOLEAN
    BY <1>1 DEF Init
  <2>3. archives \in [Numbers -> Trees \cup {None, Partial}]
    BY <1>1 DEF Init
  <2>4. QED
    BY <1>1, <1>2, <1>3, <1>4, <2>1, <2>2, <2>3, NoneAssumption
    DEF Init, TypeOK, Restoring, Items
<1>6. ArchivesHold
  <2>1. \A n \in Numbers : archives[n] = None
    BY <1>1 DEF Init
  <2>2. None \notin Trees
    BY NoneAssumption
  <2>3. QED
    BY <1>1, <2>1, <2>2 DEF Init, ArchivesHold, Restoring
<1>7. StagedIsStamped /\ DatabaseThere /\ EndedStaysEnded /\ EnrolmentSurvives
  BY <1>1, <1>2, <1>3 DEF Init, StagedIsStamped, DatabaseThere, EndedStaysEnded,
     EnrolmentSurvives, FromStage, FromStamp, BeforeSwap
<1>8. QED
  BY <1>5, <1>6, <1>7 DEF IInv

\* What an action that only writes the database of a running server keeps.
LEMMA DatabaseWritten ==
  ASSUME IInv, pc = "up", pc' = "up", NEW d \in Databases, SetDb(d),
         archives' \in [Numbers -> Trees \cup {None, Partial}],
         \A n \in Numbers : archives'[n] \in Trees =>
            archives'[n].db \in Databases /\ archives'[n].secret = "missing",
         UNCHANGED restoreVars,
         ended' \subseteq Sessions, d.live \cap ended' = {},
         enrolled' \in BOOLEAN,
         enrolled' => d.op # "absent" /\ (d.parked = "enrolment" \/ d.op = "on")
  PROVE  IInv'
<1>1. disk' \in Trees /\ disk'.db = d
  BY DatabaseReplaced DEF IInv, TypeOK, SetDb
<1>2. TypeOK'
  <2>1. restores' \in 0..MaxRestores /\ swapping' \in BOOLEAN
    BY DEF IInv, TypeOK, restoreVars
  <2>2. QED
    BY <1>1, <2>1, NoneAssumption DEF IInv, TypeOK, restoreVars
<1>3. ArchivesHold' /\ StagedIsStamped' /\ DatabaseThere'
  BY <1>1 DEF ArchivesHold, StagedIsStamped, DatabaseThere, Restoring, FromStage,
              FromStamp, BeforeSwap
<1>4. EndedStaysEnded' /\ EnrolmentSurvives'
  BY <1>1 DEF EndedStaysEnded, EnrolmentSurvives
<1>5. QED
  BY <1>2, <1>3, <1>4 DEF IInv

\* A running server has a database.
LEMMA RunningDatabase ==
  ASSUME IInv, pc \in {"up", "booting"} \cup BeforeSwap
  PROVE  /\ disk \in Trees /\ disk.db \in Databases
         /\ disk.db.live \cap ended = {}
         /\ enrolled => disk.db.op # "absent"
         /\ enrolled => disk.db.parked = "enrolment" \/ disk.db.op = "on"
<1>1. disk \in Trees /\ disk.db \in Databases
  BY DEF IInv, TypeOK, DatabaseThere
<1>2. disk.db # None
  BY <1>1, NoneAssumption
<1>3. QED
  BY <1>1, <1>2 DEF IInv, DatabaseThere, EndedStaysEnded, EnrolmentSurvives

\* What the appliance writes between backups keeps the invariant.
LEMMA AppKeepsIInv ==
  ASSUME IInv,
         \/ CreateOperator \/ EnrolTotp \/ DisableTotp \/ ListBackups
         \/ \E s \in Sessions : SignIn(s) \/ EndSession(s)
         \/ \E n \in Numbers : DeleteBackup(n)
  PROVE  IInv'
<1>0. pc = "up" /\ pc' = "up" /\ UNCHANGED restoreVars
  BY DEF CreateOperator, EnrolTotp, DisableTotp, ListBackups, SignIn, EndSession,
         DeleteBackup
<1>a. /\ disk \in Trees /\ disk.db \in Databases
      /\ disk.db.live \cap ended = {}
      /\ enrolled => disk.db.op # "absent"
      /\ enrolled => disk.db.parked = "enrolment" \/ disk.db.op = "on"
  BY <1>0, RunningDatabase
<1>b. /\ archives \in [Numbers -> Trees \cup {None, Partial}]
      /\ ended \subseteq Sessions /\ enrolled \in BOOLEAN
      /\ \A n \in Numbers : archives[n] \in Trees =>
            archives[n].db \in Databases /\ archives[n].secret = "missing"
  BY DEF IInv, TypeOK, ArchivesHold
<1>1. CASE CreateOperator
  <2> DEFINE d == [disk.db EXCEPT !.op = "off"]
  <2>1. d \in Databases /\ d.live = disk.db.live /\ d.op = "off"
    BY <1>a DEF Databases, Accounts
  <2>2. enrolled => FALSE
    BY <1>1, <1>a DEF CreateOperator
  <2>3. SetDb(d) /\ UNCHANGED <<archives, ended, enrolled>>
    BY <1>1 DEF CreateOperator
  <2> HIDE DEF d
  <2>4. QED
    BY <1>0, <1>a, <1>b, <2>1, <2>2, <2>3, DatabaseWritten
<1>2. CASE EnrolTotp
  <2> DEFINE d == [disk.db EXCEPT !.op = "on"]
  <2>1. d \in Databases /\ d.live = disk.db.live /\ d.op = "on"
    BY <1>a DEF Databases, Accounts
  <2>2. SetDb(d) /\ UNCHANGED <<archives, ended>> /\ enrolled' = TRUE
    BY <1>2 DEF EnrolTotp
  <2> HIDE DEF d
  <2>3. QED
    BY <1>0, <1>a, <1>b, <2>1, <2>2, DatabaseWritten
<1>3. CASE DisableTotp
  <2> DEFINE d == [disk.db EXCEPT !.op = "off"]
  <2>1. d \in Databases /\ d.live = disk.db.live
    BY <1>a DEF Databases, Accounts
  <2>2. SetDb(d) /\ UNCHANGED <<archives, ended>> /\ enrolled' = FALSE
    BY <1>3 DEF DisableTotp
  <2> HIDE DEF d
  <2>3. QED
    BY <1>0, <1>a, <1>b, <2>1, <2>2, DatabaseWritten
<1>4. CASE ListBackups
  <2> DEFINE d == [disk.db EXCEPT !.rows = Adopted(@, OnDisk) \cap OnDisk]
  <2>1. /\ d \in Databases /\ d.live = disk.db.live /\ d.op = disk.db.op
        /\ d.parked = disk.db.parked
    BY <1>a DEF Databases, OnDisk
  <2>2. SetDb(d) /\ UNCHANGED <<archives, ended, enrolled>>
    BY <1>4 DEF ListBackups
  <2> HIDE DEF d
  <2>3. QED
    BY <1>0, <1>a, <1>b, <2>1, <2>2, DatabaseWritten
<1>5. CASE \E s \in Sessions : SignIn(s)
  <2>0. PICK s \in Sessions : SignIn(s)
    BY <1>5
  <2> DEFINE d == [disk.db EXCEPT !.live = @ \cup {s}]
  <2>1. /\ d \in Databases /\ d.live = disk.db.live \cup {s} /\ d.op = disk.db.op
        /\ d.parked = disk.db.parked
    BY <1>a DEF Databases
  <2>2. SetDb(d) /\ UNCHANGED <<archives, ended, enrolled>> /\ s \notin ended
    BY <2>0 DEF SignIn
  <2> HIDE DEF d
  <2>3. d.live \cap ended' = {}
    BY <1>a, <2>1, <2>2
  <2>4. QED
    BY <1>0, <1>a, <1>b, <2>1, <2>2, <2>3, DatabaseWritten
<1>6. CASE \E s \in Sessions : EndSession(s)
  <2>0. PICK s \in Sessions : EndSession(s)
    BY <1>6
  <2> DEFINE d == [disk.db EXCEPT !.live = @ \ {s}]
  <2>1. /\ d \in Databases /\ d.live = disk.db.live \ {s} /\ d.op = disk.db.op
        /\ d.parked = disk.db.parked
    BY <1>a DEF Databases
  <2>2. SetDb(d) /\ UNCHANGED <<archives, enrolled>> /\ ended' = ended \cup {s}
    BY <2>0 DEF EndSession
  <2> HIDE DEF d
  <2>3. d.live \cap ended' = {} /\ ended' \subseteq Sessions
    BY <1>a, <1>b, <2>1, <2>2
  <2>4. QED
    BY <1>0, <1>a, <1>b, <2>1, <2>2, <2>3, DatabaseWritten
<1>7. CASE \E n \in Numbers : DeleteBackup(n)
  <2>0. PICK n \in Numbers : DeleteBackup(n)
    BY <1>7
  <2> DEFINE d == [disk.db EXCEPT !.rows = @ \ {n}]
  <2>1. /\ d \in Databases /\ d.live = disk.db.live /\ d.op = disk.db.op
        /\ d.parked = disk.db.parked
    BY <1>a DEF Databases
  <2>2. SetDb(d) /\ UNCHANGED <<ended, enrolled>>
    BY <2>0 DEF DeleteBackup
  <2>3. /\ archives' \in [Numbers -> Trees \cup {None, Partial}]
        /\ \A k \in Numbers : archives'[k] \in Trees =>
            archives'[k].db \in Databases /\ archives'[k].secret = "missing"
    BY <1>b, <2>0, NoneAssumption DEF DeleteBackup
  <2> HIDE DEF d
  <2>4. QED
    BY <1>0, <1>a, <1>b, <2>1, <2>2, <2>3, DatabaseWritten
<1>8. QED
  BY <1>1, <1>2, <1>3, <1>4, <1>5, <1>6, <1>7

\* A backup, whole or cut short, keeps the invariant: an archive is a copy
\* of the tree without the password.
LEMMA BackupKeepsIInv ==
  ASSUME IInv, NEW n \in Numbers,
         \/ \E left, stuck \in SUBSET Numbers : CreateBackup(n, left, stuck)
         \/ CreateBackupFails(n)
  PROVE  IInv'
<1>0. pc = "up" /\ UNCHANGED restoreVars
  BY DEF CreateBackup, CreateBackupFails
<1>a. /\ disk \in Trees /\ disk.db \in Databases
      /\ disk.db.live \cap ended = {}
      /\ enrolled => disk.db.op # "absent"
      /\ enrolled => disk.db.parked = "enrolment" \/ disk.db.op = "on"
  BY <1>0, RunningDatabase
<1>b. /\ archives \in [Numbers -> Trees \cup {None, Partial}]
      /\ ended \subseteq Sessions /\ enrolled \in BOOLEAN
      /\ \A k \in Numbers : archives[k] \in Trees =>
            archives[k].db \in Databases /\ archives[k].secret = "missing"
  BY DEF IInv, TypeOK, ArchivesHold
<1>1. CASE \E left, stuck \in SUBSET Numbers : CreateBackup(n, left, stuck)
  <2>0. PICK left \in SUBSET Numbers, stuck \in SUBSET Numbers :
               CreateBackup(n, left, stuck)
    BY <1>1
  <2> DEFINE listed == Adopted(disk.db.rows \cup {n}, OnDisk)
             gone == (listed \ Newest(listed)) \ stuck
             kept == Newest(listed) \cup left
             d == [disk.db EXCEPT !.rows = kept]
  <2>1. kept \subseteq Numbers
    <3>1. disk.db.rows \subseteq Numbers /\ OnDisk \subseteq Numbers
      BY <1>a DEF Databases, OnDisk
    <3>2. QED
      BY <3>1 DEF Newest, Adopted
  <2>2. /\ archives' = [k \in Numbers |-> CASE k \in gone -> None
                                           [] k = n -> Archived(disk)
                                           [] OTHER -> archives[k]]
        /\ SetDb(d) /\ pc' = "up" /\ UNCHANGED <<ended, enrolled>>
    BY <2>0 DEF CreateBackup
  <2>3. /\ Archived(disk) \in Trees /\ Archived(disk).db = disk.db
        /\ Archived(disk).secret = "missing"
    BY <1>a, SecretReplaced DEF Archived
  <2> HIDE DEF listed, kept, gone
  <2>4. /\ d \in Databases /\ d.live = disk.db.live /\ d.op = disk.db.op
        /\ d.parked = disk.db.parked
    BY <1>a, <2>1 DEF Databases
  <2>5. \A k \in Numbers : archives'[k] \in {None, Archived(disk), archives[k]}
    BY <2>2
  <2>6. archives' \in [Numbers -> Trees \cup {None, Partial}]
    BY <1>b, <2>2, <2>3, <2>5
  <2>7. \A k \in Numbers : archives'[k] \in Trees =>
            archives'[k].db \in Databases /\ archives'[k].secret = "missing"
    BY <1>a, <1>b, <2>3, <2>5, NoneAssumption
  <2> HIDE DEF d
  <2>8. QED
    BY <1>0, <1>a, <1>b, <2>2, <2>4, <2>6, <2>7, DatabaseWritten
<1>2. CASE CreateBackupFails(n)
  <2>1. /\ archives' \in [Numbers -> Trees \cup {None, Partial}]
        /\ \A k \in Numbers : archives'[k] \in Trees =>
            archives'[k].db \in Databases /\ archives'[k].secret = "missing"
    BY <1>2, <1>b, NoneAssumption DEF CreateBackupFails
  <2>2. UNCHANGED <<disk, ended, enrolled>> /\ pc' \in {"up", "down"}
    BY <1>2 DEF CreateBackupFails
  <2>3. TypeOK'
    <3>1. restores' \in 0..MaxRestores /\ swapping' \in BOOLEAN /\ enrolled' \in BOOLEAN
      BY <1>0, <2>2 DEF IInv, TypeOK, restoreVars
    <3>2. QED
      BY <1>0, <2>1, <2>2, <3>1 DEF IInv, TypeOK, restoreVars
  <2>4. ArchivesHold' /\ StagedIsStamped' /\ DatabaseThere'
    BY <1>0, <1>a, <2>1, <2>2 DEF IInv, ArchivesHold, StagedIsStamped, DatabaseThere,
       Restoring, FromStage, FromStamp, BeforeSwap
  <2>5. EndedStaysEnded' /\ EnrolmentSurvives'
    BY <2>2 DEF IInv, EndedStaysEnded, EnrolmentSurvives
  <2>6. QED
    BY <2>3, <2>4, <2>5 DEF IInv
<1>3. QED
  BY <1>1, <1>2

\* The steps of a restore keep the invariant.
LEMMA RestoreKeepsIInv ==
  ASSUME IInv,
         \/ \E tree \in Uploads \cup {archives[n] : n \in OnDisk} : BeginRestore(tree)
         \/ \E i \in Items : CopyToSnapshot(i) \/ SwapRemove(i) \/ SwapPlace(i)
         \/ SnapshotTaken \/ Extract \/ StampRestoredSettings \/ KeepOnRestore
         \/ FailBeforeSwap \/ FailMidSwap \/ FinishRestore
  PROVE  IInv'
<1> USE DEF Restoring, FromStage, FromStamp, BeforeSwap
<1>t. /\ disk \in Trees /\ snapshot \in Trees
      /\ archives \in [Numbers -> Trees \cup {None, Partial}]
      /\ staging \in Trees \cup {None} /\ source \in Trees \cup {None}
      /\ before \in Trees \cup {None} /\ todo \subseteq Items
      /\ item \in Items \cup {None} /\ ended \subseteq Sessions
      /\ enrolled \in BOOLEAN /\ swapping \in BOOLEAN /\ restores \in 0..MaxRestores
      /\ pc \in {"up", "booting"} => disk.db # None
  BY DEF IInv, TypeOK
<1>e. EmptyTree \in Trees
  BY DEF EmptyTree, Trees
<1>1. CASE \E tree \in Uploads \cup {archives[n] : n \in OnDisk} : BeginRestore(tree)
  <2>0. PICK tree \in Uploads \cup {archives[n] : n \in OnDisk} : BeginRestore(tree)
    BY <1>1
  <2>1. /\ tree \in Trees /\ tree.db \in Databases
        /\ tree.secret = "there" => tree.files[Kea] # None
    <3>1. CASE tree \in Uploads
      <4>1. /\ tree \in Trees /\ tree.db # None
            /\ tree.secret = "there" => tree.files[Kea] # None
        BY <3>1, UploadsAssumption
      <4>2. QED
        BY <4>1 DEF Trees
    <3>2. CASE tree \notin Uploads
      <4>1. PICK n \in OnDisk : tree = archives[n]
        BY <2>0, <3>2
      <4>2. n \in Numbers /\ archives[n] # None /\ archives[n] # Partial
        BY <2>0, <4>1 DEF BeginRestore, OnDisk
      <4>3. archives[n] \in Trees
        BY <1>t, <4>2
      <4>4. QED
        BY <4>1, <4>2, <4>3 DEF IInv, ArchivesHold
    <3>3. QED
      BY <3>1, <3>2
  <2>2. disk.db \in Databases
    BY <2>0 DEF IInv, DatabaseThere, BeginRestore
  <2>3. TypeOK'
    <3>1. restores' \in 0..MaxRestores
      BY <1>t, <2>0, BackupAssumption DEF BeginRestore
    <3>2. todo' \subseteq Items
      BY <2>0 DEF BeginRestore, Held
    <3>3. swapping' \in BOOLEAN /\ enrolled' \in BOOLEAN
      BY <1>t, <2>0 DEF BeginRestore
    <3>4. QED
      BY <1>t, <1>e, <2>0, <2>1, <3>1, <3>2, <3>3 DEF BeginRestore, TypeOK
  <2>4. ArchivesHold' /\ StagedIsStamped' /\ DatabaseThere'
    BY <1>t, <2>0, <2>1, <2>2
    DEF BeginRestore, IInv, ArchivesHold, StagedIsStamped, DatabaseThere
  <2>5. EndedStaysEnded' /\ EnrolmentSurvives'
    BY <2>0 DEF BeginRestore, IInv, EndedStaysEnded, EnrolmentSurvives
  <2>6. QED
    BY <2>3, <2>4, <2>5 DEF IInv
<1>2. CASE \E i \in Items : CopyToSnapshot(i)
  <2>0. PICK i \in Items : CopyToSnapshot(i)
    BY <1>2
  <2>1. snapshot' \in Trees
    BY <1>t, <2>0, PutWrites, ItemTyped DEF CopyToSnapshot
  <2>2. TypeOK'
    BY <1>t, <2>0, <2>1 DEF CopyToSnapshot, TypeOK
  <2>3. ArchivesHold' /\ StagedIsStamped' /\ DatabaseThere'
    BY <2>0 DEF CopyToSnapshot, IInv, ArchivesHold, StagedIsStamped, DatabaseThere
  <2>4. EndedStaysEnded' /\ EnrolmentSurvives'
    BY <2>0 DEF CopyToSnapshot, IInv, EndedStaysEnded, EnrolmentSurvives
  <2>5. QED
    BY <2>2, <2>3, <2>4 DEF IInv
<1>3. CASE SnapshotTaken
  <2>1. TypeOK'
    BY <1>t, <1>3 DEF SnapshotTaken, TypeOK, restoreVars
  <2>2. ArchivesHold' /\ StagedIsStamped' /\ DatabaseThere'
    BY <1>3 DEF SnapshotTaken, restoreVars, IInv, ArchivesHold, StagedIsStamped,
                DatabaseThere
  <2>3. EndedStaysEnded' /\ EnrolmentSurvives'
    BY <1>3 DEF SnapshotTaken, IInv, EndedStaysEnded, EnrolmentSurvives
  <2>4. QED
    BY <2>1, <2>2, <2>3 DEF IInv
<1>4. CASE Extract
  <2>0. source \in Trees /\ source.db \in Databases
    BY <1>4 DEF Extract, IInv, ArchivesHold
  <2>1. TypeOK'
    BY <1>t, <1>4 DEF Extract, TypeOK
  <2>2. ArchivesHold' /\ StagedIsStamped' /\ DatabaseThere'
    BY <1>4, <2>0 DEF Extract, IInv, ArchivesHold, StagedIsStamped, DatabaseThere
  <2>3. EndedStaysEnded' /\ EnrolmentSurvives'
    BY <1>4 DEF Extract, IInv, EndedStaysEnded, EnrolmentSurvives
  <2>4. QED
    BY <2>1, <2>2, <2>3 DEF IInv
<1>5. CASE StampRestoredSettings
  <2>0. staging \in Trees /\ staging.db \in Databases
    BY <1>5 DEF StampRestoredSettings, IInv, StagedIsStamped
  <2>1. /\ Stamped(staging.db) \in Databases /\ Stamped(staging.db).live = {}
        /\ before.db.op = "on" => Stamped(staging.db).parked = "enrolment"
    BY <2>0, StampedTyped
  <2>2. staging' \in Trees /\ staging'.db = Stamped(staging.db)
    BY <1>5, <2>0, <2>1, DatabaseReplaced DEF StampRestoredSettings
  <2>3. TypeOK'
    BY <1>t, <1>5, <2>2 DEF StampRestoredSettings, TypeOK
  <2>4. ArchivesHold' /\ StagedIsStamped' /\ DatabaseThere'
    BY <1>5, <2>1, <2>2
    DEF StampRestoredSettings, IInv, ArchivesHold, StagedIsStamped, DatabaseThere
  <2>5. EndedStaysEnded' /\ EnrolmentSurvives'
    BY <1>5 DEF StampRestoredSettings, IInv, EndedStaysEnded, EnrolmentSurvives
  <2>6. QED
    BY <2>3, <2>4, <2>5 DEF IInv
<1>6. CASE KeepOnRestore
  <2>0. staging \in Trees /\ staging.db \in Databases
    BY <1>6 DEF KeepOnRestore, IInv, StagedIsStamped
  <2>1. /\ staging' \in Trees /\ staging'.db = staging.db
        /\ disk' \in Trees /\ disk'.db = disk.db
    BY <1>6, <1>t, <2>0, SecretReplaced DEF KeepOnRestore
  <2>2. todo' \subseteq Items
    BY <1>6 DEF KeepOnRestore, Held
  <2>3. swapping' \in BOOLEAN
    BY <1>6 DEF KeepOnRestore
  <2>4. TypeOK'
    BY <1>t, <1>6, <2>1, <2>2, <2>3 DEF KeepOnRestore, TypeOK
  <2>5. ArchivesHold' /\ StagedIsStamped' /\ DatabaseThere'
    BY <1>6, <2>0, <2>1
    DEF KeepOnRestore, IInv, ArchivesHold, StagedIsStamped, DatabaseThere
  <2>6. EndedStaysEnded' /\ EnrolmentSurvives'
    BY <1>6, <2>1 DEF KeepOnRestore, IInv, EndedStaysEnded, EnrolmentSurvives
  <2>7. QED
    BY <2>4, <2>5, <2>6 DEF IInv
<1>7. CASE \E i \in Items : SwapRemove(i)
  <2>0. PICK i \in Items : SwapRemove(i)
    BY <1>7
  <2>1. disk.db \in Databases
    BY <2>0 DEF SwapRemove, IInv, DatabaseThere
  <2>2. /\ Put(disk, i, None) \in Trees
        /\ Put(disk, i, None).secret \in {"there", "missing"}
        /\ i = "db" => Put(disk, i, None).db = None
        /\ i # "db" => Put(disk, i, None).db = disk.db
    BY <1>t, PutWrites DEF Trees
  <2>3. /\ disk' \in Trees
        /\ i = "db" => disk'.db = None
        /\ i # "db" => disk'.db = disk.db
    BY <2>0, <2>2, SecretReplaced DEF SwapRemove
  <2>4. enrolled' \in BOOLEAN /\ enrolled' = enrolled
    BY <1>t, <2>0 DEF SwapRemove
  <2>5. ended' \subseteq Sessions /\ (i # "db" => ended' = ended)
    BY <1>t, <2>0, <2>1 DEF SwapRemove, Databases
  <2>6. TypeOK'
    BY <1>t, <2>0, <2>3, <2>4, <2>5 DEF SwapRemove, TypeOK
  <2>7. ArchivesHold' /\ StagedIsStamped'
    BY <2>0 DEF SwapRemove, IInv, ArchivesHold, StagedIsStamped
  <2>8. DatabaseThere'
    BY <2>0, <2>1, <2>3, <2>4 DEF SwapRemove, IInv, DatabaseThere
  <2>9. EndedStaysEnded' /\ EnrolmentSurvives'
    BY <2>3, <2>4, <2>5 DEF IInv, EndedStaysEnded, EnrolmentSurvives
  <2>10. QED
    BY <2>6, <2>7, <2>8, <2>9 DEF IInv
<1>8. CASE \E i \in Items : SwapPlace(i)
  <2>0. PICK i \in Items : SwapPlace(i)
    BY <1>8
  <2>1. /\ staging \in Trees /\ staging.db \in Databases /\ staging.db.live = {}
        /\ before.db.op = "on" => staging.db.parked = "enrolment"
    BY <2>0 DEF SwapPlace, IInv, StagedIsStamped
  <2>2. i # "db" => disk.db \in Databases
    BY <2>0 DEF SwapPlace, IInv, DatabaseThere
  <2>3. /\ Put(disk, i, Item(staging, i)) \in Trees
        /\ i = "db" => Put(disk, i, Item(staging, i)).db = staging.db
        /\ i # "db" => Put(disk, i, Item(staging, i)).db = disk.db
    BY <1>t, <2>1, PutWrites, ItemTyped DEF Item
  <2>4. /\ staging.secret \in {"there", "missing"}
        /\ Put(disk, i, Item(staging, i)).secret \in {"there", "missing"}
    BY <2>1, <2>3 DEF Trees
  <2>5. /\ disk' \in Trees
        /\ i = "db" => disk'.db = staging.db
        /\ i # "db" => disk'.db = disk.db
    <3> DEFINE t == Put(disk, i, Item(staging, i))
               x == IF i = Kea THEN staging.secret ELSE t.secret
    <3>1. disk' = [t EXCEPT !.secret = x]
      BY <2>0 DEF SwapPlace
    <3>2. t \in Trees /\ x \in {"there", "missing"}
      BY <2>3, <2>4
    <3>3. [t EXCEPT !.secret = x] \in Trees /\ [t EXCEPT !.secret = x].db = t.db
      <4> HIDE DEF t, x
      <4> QED BY <3>2, SecretReplaced
    <3>4. QED
      BY <2>3, <3>1, <3>3
  <2>6. /\ enrolled' \in BOOLEAN
        /\ i # "db" => enrolled' = enrolled
        /\ i = "db" /\ enrolled' => before.db.op = "on" /\ staging.db.op # "absent"
    BY <1>t, <2>0 DEF SwapPlace, CollectRestoreCarryover
  <2>7. todo' \subseteq Items /\ pc' \in {"finish", "swap"}
    BY <1>t, <2>0 DEF SwapPlace
  <2>8. TypeOK'
    BY <1>t, <2>0, <2>5, <2>6, <2>7 DEF SwapPlace, TypeOK
  <2>9. ArchivesHold' /\ StagedIsStamped'
    BY <2>0, <2>7 DEF SwapPlace, IInv, ArchivesHold, StagedIsStamped
  <2>10. disk'.db \in Databases
    BY <2>1, <2>2, <2>5
  <2>11. enrolled' => /\ disk'.db.op # "absent"
                      /\ disk'.db.parked = "enrolment" \/ disk'.db.op = "on"
    BY <2>1, <2>2, <2>5, <2>6, NoneAssumption DEF IInv, DatabaseThere, EnrolmentSurvives
  <2>12. DatabaseThere' /\ EnrolmentSurvives'
    BY <2>7, <2>10, <2>11 DEF DatabaseThere, EnrolmentSurvives
  <2>13. EndedStaysEnded'
    BY <2>0, <2>1, <2>5 DEF SwapPlace, IInv, EndedStaysEnded
  <2>14. QED
    BY <2>8, <2>9, <2>12, <2>13 DEF IInv
<1>9. CASE FailBeforeSwap \/ FailMidSwap \/ FinishRestore
  <2>1. /\ UNCHANGED <<disk, archives, snapshot, before, restores, ended, enrolled,
                       swapping>>
        /\ staging' = None /\ source' = None /\ todo' \subseteq Items
        /\ item' \in Items \cup {None} /\ pc' \in {"up", "down"}
        /\ pc' = "up" => disk.db \in Databases
    BY <1>t, <1>9
    DEF FailBeforeSwap, FailMidSwap, FinishRestore, IInv, DatabaseThere
  <2>2. TypeOK'
    BY <1>t, <2>1, NoneAssumption DEF TypeOK
  <2>3. ArchivesHold' /\ StagedIsStamped' /\ DatabaseThere'
    BY <2>1 DEF IInv, ArchivesHold, StagedIsStamped, DatabaseThere
  <2>4. EndedStaysEnded' /\ EnrolmentSurvives'
    BY <2>1 DEF IInv, EndedStaysEnded, EnrolmentSurvives
  <2>5. QED
    BY <2>2, <2>3, <2>4 DEF IInv
<1>10. QED
  BY <1>1, <1>2, <1>3, <1>4, <1>5, <1>6, <1>7, <1>8, <1>9

\* A crash, the boot that follows and the writes of the daemons keep the
\* invariant.
LEMMA BootKeepsIInv ==
  ASSUME IInv,
         \/ Crash \/ InitDb \/ Boot
         \/ \E f \in Files, c \in Contents : WriteFile(f, c)
  PROVE  IInv'
<1> USE DEF Restoring, FromStage, FromStamp, BeforeSwap
<1>t. /\ disk \in Trees /\ snapshot \in Trees
      /\ archives \in [Numbers -> Trees \cup {None, Partial}]
      /\ staging \in Trees \cup {None} /\ source \in Trees \cup {None}
      /\ before \in Trees \cup {None} /\ todo \subseteq Items
      /\ item \in Items \cup {None} /\ ended \subseteq Sessions
      /\ enrolled \in BOOLEAN /\ swapping \in BOOLEAN /\ restores \in 0..MaxRestores
  BY DEF IInv, TypeOK
<1>1. CASE Crash
  <2>1. TypeOK'
    BY <1>t, <1>1 DEF Crash, TypeOK
  <2>2. ArchivesHold' /\ StagedIsStamped' /\ DatabaseThere'
    BY <1>1 DEF Crash, IInv, ArchivesHold, StagedIsStamped, DatabaseThere
  <2>3. EndedStaysEnded' /\ EnrolmentSurvives'
    BY <1>1 DEF Crash, IInv, EndedStaysEnded, EnrolmentSurvives
  <2>4. QED
    BY <2>1, <2>2, <2>3 DEF IInv
<1>2. CASE InitDb
  <2>1. FreshDatabase \in Databases /\ FreshDatabase.live = {}
    BY DEF FreshDatabase, Databases, Accounts
  <2>2. /\ disk' \in Trees /\ disk'.db \in Databases
        /\ disk.db # None => disk' = disk
        /\ disk.db = None => disk'.db.live = {}
    <3>1. CASE disk.db = None
      <4>1. disk' = [disk EXCEPT !.db = FreshDatabase]
        BY <1>2, <3>1 DEF InitDb, Put
      <4>2. disk' \in Trees /\ disk'.db = FreshDatabase
        BY <1>t, <2>1, <4>1, DatabaseReplaced
      <4>3. QED
        BY <2>1, <3>1, <4>2
    <3>2. CASE disk.db # None
      BY <1>t, <1>2, <3>2 DEF InitDb, Trees
    <3>3. QED
      BY <3>1, <3>2
  <2>3. UNCHANGED <<archives, restoreVars, ended>> /\ pc' = "booting"
    BY <1>2 DEF InitDb
  <2>5. enrolled' \in BOOLEAN /\ (enrolled' => enrolled /\ disk.db # None)
    BY <1>2 DEF InitDb
  <2>4. TypeOK'
    BY <1>t, <2>2, <2>3, <2>5, NoneAssumption DEF TypeOK, restoreVars
  <2>6. ArchivesHold' /\ StagedIsStamped' /\ DatabaseThere'
    BY <2>2, <2>3, <2>5 DEF IInv, ArchivesHold, StagedIsStamped, DatabaseThere
  <2>7. EndedStaysEnded' /\ EnrolmentSurvives'
    BY <2>2, <2>3, <2>5 DEF IInv, EndedStaysEnded, EnrolmentSurvives
  <2>8. QED
    BY <2>4, <2>6, <2>7 DEF IInv
<1>3. CASE Boot
  <2>0. /\ disk.db \in Databases /\ disk.db.live \cap ended = {}
        /\ enrolled => disk.db.op # "absent"
        /\ enrolled => disk.db.parked = "enrolment" \/ disk.db.op = "on"
    BY <1>3, RunningDatabase DEF Boot
  <2>1. PICK db \in {disk.db, CarriedOver(disk.db)}, secret \in {"there", "missing"} :
          disk' = [disk EXCEPT !.db = db, !.secret = secret]
    BY <1>3 DEF Boot
  <2>2. /\ db \in Databases /\ db.live = disk.db.live
        /\ enrolled => db.op # "absent" /\ (db.parked = "enrolment" \/ db.op = "on")
    BY <2>0, CarriedOverTyped
  <2>3. disk' \in Trees /\ disk'.db = db
    BY <1>t, <2>1, <2>2 DEF Trees
  <2>4. UNCHANGED <<archives, restoreVars, ended, enrolled>> /\ pc' = "up"
    BY <1>3 DEF Boot
  <2>5. TypeOK'
    BY <1>t, <2>2, <2>3, <2>4, NoneAssumption DEF TypeOK, restoreVars
  <2>6. ArchivesHold' /\ StagedIsStamped' /\ DatabaseThere'
    BY <2>2, <2>3, <2>4 DEF IInv, ArchivesHold, StagedIsStamped, DatabaseThere
  <2>7. EndedStaysEnded' /\ EnrolmentSurvives'
    BY <2>0, <2>2, <2>3, <2>4 DEF EndedStaysEnded, EnrolmentSurvives
  <2>8. QED
    BY <2>5, <2>6, <2>7 DEF IInv
<1>4. CASE \E f \in Files, c \in Contents : WriteFile(f, c)
  <2>0. PICK f \in Files, c \in Contents : WriteFile(f, c)
    BY <1>4
  <2>1. disk' \in Trees /\ disk'.db = disk.db
    BY <1>t, <2>0 DEF WriteFile, Trees
  <2>2. UNCHANGED <<archives, pc, restoreVars, ended, enrolled>>
    BY <2>0 DEF WriteFile
  <2>3. TypeOK'
    BY <1>t, <2>1, <2>2 DEF IInv, TypeOK, restoreVars
  <2>4. ArchivesHold' /\ StagedIsStamped' /\ DatabaseThere'
    BY <2>1, <2>2 DEF IInv, ArchivesHold, StagedIsStamped, DatabaseThere, restoreVars
  <2>5. EndedStaysEnded' /\ EnrolmentSurvives'
    BY <2>1, <2>2 DEF IInv, EndedStaysEnded, EnrolmentSurvives
  <2>6. QED
    BY <2>3, <2>4, <2>5 DEF IInv
<1>5. QED
  BY <1>1, <1>2, <1>3, <1>4

\* The first invariant is inductive.
LEMMA NextIInv == IInv /\ [Next]_vars => IInv'
<1> SUFFICES ASSUME IInv, [Next]_vars PROVE IInv'
  OBVIOUS
<1>1. CASE \/ CreateOperator \/ EnrolTotp \/ DisableTotp \/ ListBackups
           \/ \E s \in Sessions : SignIn(s) \/ EndSession(s)
           \/ \E n \in Numbers : DeleteBackup(n)
  BY <1>1, AppKeepsIInv
<1>2. CASE \E n \in Numbers :
             \/ \E left, stuck \in SUBSET Numbers : CreateBackup(n, left, stuck)
             \/ CreateBackupFails(n)
  BY <1>2, BackupKeepsIInv
<1>3. CASE \/ \E tree \in Uploads \cup {archives[n] : n \in OnDisk} : BeginRestore(tree)
           \/ \E i \in Items : CopyToSnapshot(i) \/ SwapRemove(i) \/ SwapPlace(i)
           \/ SnapshotTaken \/ Extract \/ StampRestoredSettings \/ KeepOnRestore
           \/ FailBeforeSwap \/ FailMidSwap \/ FinishRestore
  BY <1>3, RestoreKeepsIInv
<1>4. CASE \/ Crash \/ InitDb \/ Boot
           \/ \E f \in Files, c \in Contents : WriteFile(f, c)
  BY <1>4, BootKeepsIInv
<1>5. CASE UNCHANGED vars
  BY <1>5 DEF vars, restoreVars, IInv, TypeOK, ArchivesHold, StagedIsStamped,
     DatabaseThere, EndedStaysEnded, EnrolmentSurvives
<1>6. QED
  BY <1>1, <1>2, <1>3, <1>4, <1>5 DEF Next

\* Every variable keeps its kind; a running server, or one that is booting,
\* has a database.
THEOREM BackupTypeCorrect == Spec => []TypeOK
<1>1. IInv => TypeOK
  BY DEF IInv
<1>2. QED
  BY InitIInv, NextIInv, <1>1, PTL DEF Spec

\* No restore, of any archive, brings a sign-in session back that has ended:
\* stampRestoredSettings ends them in the staged database, before the swap.
THEOREM SessionsStayEnded == Spec => []EndedStaysEnded
<1>1. IInv => EndedStaysEnded
  BY DEF IInv
<1>2. QED
  BY InitIInv, NextIInv, <1>1, PTL DEF Spec

\* The operator's two-factor enrolment is in force or parked from the day it is
\* turned on, whatever restores, crashes and failed carry-overs follow.  Only
\* turning it off, a backup without the account, a swap cut short before a
\* database was in place and a restore begun while it is parked end that.
THEOREM EnrolmentIsKept == Spec => []EnrolmentSurvives
<1>1. IInv => EnrolmentSurvives
  BY DEF IInv
<1>2. QED
  BY InitIInv, NextIInv, <1>1, PTL DEF Spec

-----------------------------------------------------------------------------
(* The second invariant: what the snapshot holds and what the swap leaves. *)

\* The progress of a restore when none runs, or none touches it.
LEMMA IdleKeepsProgress ==
  ASSUME SnapshotProgress, SwapProgress, UNCHANGED <<snapshot, before, swapping>>,
         pc' \in {"up", "down", "booting"}
  PROVE  SnapshotProgress' /\ SwapProgress'
BY DEF SnapshotProgress, SwapProgress, BeforeSwap, FromStage, FromStamp, Item

\* RestoredTree's items, once the restore has been given its tree.
LEMMA RestoredItems ==
  ASSUME NEW i \in Items
  PROVE  /\ i = "db" => Item(RestoredTree, i) = Stamped(source.db)
         /\ i # "db" => Item(RestoredTree, i) =
              IF source.files[i] # None THEN source.files[i] ELSE before.files[i]
BY BackupAssumption DEF Item, Items, RestoredTree

\* The steps of a restore keep what is known of its progress.
LEMMA RestoreKeepsProgress ==
  ASSUME IInv, IInv', SnapshotProgress, SwapProgress,
         \/ \E tree \in Uploads \cup {archives[n] : n \in OnDisk} : BeginRestore(tree)
         \/ \E i \in Items : CopyToSnapshot(i) \/ SwapRemove(i) \/ SwapPlace(i)
         \/ SnapshotTaken \/ Extract \/ StampRestoredSettings \/ KeepOnRestore
  PROVE  SnapshotProgress' /\ SwapProgress'
<1> USE DEF FromStage, FromStamp, BeforeSwap
<1>t. disk \in Trees /\ snapshot \in Trees /\ todo \subseteq Items /\ disk' \in Trees
  BY DEF IInv, TypeOK
<1>d. {"db"} \cup Snapshotted \subseteq Items /\ Kea \in Items /\ Kea # "db"
      /\ Kea \in Files
  BY BackupAssumption DEF Items
<1>1. CASE \E tree \in Uploads \cup {archives[n] : n \in OnDisk} : BeginRestore(tree)
  <2>0. PICK tree \in Uploads \cup {archives[n] : n \in OnDisk} : BeginRestore(tree)
    BY <1>1
  <2>1. \A i \in {"db"} \cup Snapshotted :
          Item(snapshot', i) = Item(before', i) \/ i \in todo'
    <3> SUFFICES ASSUME NEW i \in {"db"} \cup Snapshotted, i \notin todo'
                 PROVE  Item(snapshot', i) = Item(before', i)
      OBVIOUS
    <3>1. Item(disk, i) = None /\ before' = disk /\ snapshot' = EmptyTree
      BY <1>d, <2>0 DEF BeginRestore, Held
    <3>2. Item(EmptyTree, i) = None
      BY <1>d, BackupAssumption DEF Item, EmptyTree, Items
    <3>3. QED
      BY <3>1, <3>2
  <2>2. pc' = "snapshot" /\ swapping' = FALSE /\ disk' = before'
    BY <2>0 DEF BeginRestore
  <2>3. QED
    BY <2>1, <2>2 DEF SnapshotProgress, SwapProgress
<1>2. CASE \E i \in Items : CopyToSnapshot(i)
  <2>0. PICK i \in Items : CopyToSnapshot(i)
    BY <1>2
  <2>1. /\ pc = "snapshot" /\ pc' = "snapshot" /\ disk' = before'
        /\ before' = before /\ disk = before /\ ~swapping' /\ todo' = todo \ {i}
        /\ snapshot' = Put(snapshot, i, Item(disk, i))
    BY <2>0 DEF CopyToSnapshot, SnapshotProgress
  <2>2. \A j \in Items :
          Item(snapshot', j) = IF j = i THEN Item(before, i) ELSE Item(snapshot, j)
    BY <1>t, <2>1, PutWrites, ItemTyped
  <2>3. \A j \in {"db"} \cup Snapshotted :
          Item(snapshot', j) = Item(before, j) \/ j \in todo'
    BY <1>d, <2>1, <2>2 DEF SnapshotProgress
  <2>4. QED
    BY <2>1, <2>3 DEF SnapshotProgress, SwapProgress
<1>3. CASE SnapshotTaken
  BY <1>3 DEF SnapshotTaken, SnapshotProgress, SwapProgress, restoreVars
<1>4. CASE Extract
  BY <1>4 DEF Extract, SnapshotProgress, SwapProgress
<1>5. CASE StampRestoredSettings
  <2>0. /\ staging \in Trees /\ staging.db = source.db /\ source.db \in Databases
        /\ staging.files = source.files /\ staging.secret = source.secret
    BY <1>5 DEF StampRestoredSettings, IInv, StagedIsStamped, ArchivesHold,
                SwapProgress, Restoring
  <2>1. Stamped(source.db) \in Databases
    BY <2>0, StampedTyped
  <2>2. staging' = [staging EXCEPT !.db = Stamped(source.db)]
    BY <1>5, <2>0 DEF StampRestoredSettings
  <2>3. /\ staging'.db = Stamped(source.db) /\ staging'.files = source.files
        /\ staging'.secret = source.secret
    BY <2>0, <2>1, <2>2, DatabaseReplaced
  <2>4. Stamped(source.db)' = Stamped(source.db)
    BY <1>5 DEF StampRestoredSettings, Stamped, CollectRestoreCarryover
  <2>5. SnapshotProgress'
    BY <1>5 DEF StampRestoredSettings, SnapshotProgress
  <2>6. SwapProgress'
    BY <1>5, <2>3, <2>4 DEF StampRestoredSettings, SwapProgress
  <2>7. QED
    BY <2>5, <2>6
<1>6. CASE KeepOnRestore
  <2>0. /\ pc = "keep" /\ pc' = "swap" /\ disk = before /\ swapping' = TRUE
        /\ UNCHANGED <<snapshot, source, before>>
        /\ todo' = Held(staging)
    BY <1>6 DEF KeepOnRestore, SnapshotProgress
  <2>1. /\ staging \in Trees /\ staging.db = Stamped(source.db)
        /\ staging.files = source.files /\ staging.secret = source.secret
        /\ staging.db \in Databases /\ source \in Trees /\ source.db \in Databases
        /\ source.secret = "there" => source.files[Kea] # None
        /\ source.secret \in {"there", "missing"}
    BY <2>0 DEF IInv, StagedIsStamped, SwapProgress, ArchivesHold, Restoring, Trees
  <2>2. /\ \A i \in Items : Item(staging', i) = Item(staging, i)
        /\ \A i \in Items : Item(disk', i) = Item(before, i)
        /\ staging'.files = staging.files /\ staging'.db = staging.db
        /\ staging'.secret = IF KeptSecret THEN "there" ELSE source.secret
        /\ disk'.secret = IF KeptSecret THEN "missing" ELSE before.secret
    <3>1. CASE KeptSecret
      <4>1. /\ staging' = [staging EXCEPT !.secret = "there"]
            /\ disk' = [disk EXCEPT !.secret = "missing"]
        BY <1>6, <3>1 DEF KeepOnRestore
      <4>2. /\ \A i \in Items : Item(staging', i) = Item(staging, i)
            /\ staging'.files = staging.files /\ staging'.db = staging.db
            /\ staging'.secret = "there"
        BY <2>1, <4>1, SecretReplaced
      <4>3. /\ \A i \in Items : Item(disk', i) = Item(disk, i)
            /\ disk'.secret = "missing"
        BY <1>t, <4>1, SecretReplaced
      <4>4. QED
        BY <2>0, <3>1, <4>2, <4>3
    <3>2. CASE ~KeptSecret
      <4>1. staging' = staging /\ disk' = disk
        BY <1>6, <3>2 DEF KeepOnRestore
      <4>2. QED
        BY <2>0, <2>1, <3>2, <4>1
    <3>3. QED
      BY <3>1, <3>2
  <2>3. KeptSecret <=> /\ source.files[Kea] # None /\ before.secret = "there"
                       /\ source.secret = "missing"
    BY <2>0, <2>1 DEF KeptSecret
  <2>4. todo' \subseteq Held(source)
    <3>1. \A i \in Items : i # "db" => Item(staging, i) = Item(source, i)
      BY <2>1 DEF Item
    <3>2. Item(source, "db") # None
      BY <2>1, NoneAssumption DEF Item
    <3>3. QED
      BY <2>0, <3>1, <3>2 DEF Held
  <2>5. \A i \in Items \ todo' : Item(disk', i) = Item(RestoredTree', i)
    <3> SUFFICES ASSUME NEW i \in Items, i \notin todo'
                 PROVE  Item(disk', i) = Item(RestoredTree', i)
      OBVIOUS
    <3>1. Item(staging, i) = None
      BY <2>0 DEF Held
    <3>2. i # "db"
      BY <2>1, <3>1, NoneAssumption DEF Item
    <3>3. source.files[i] = None /\ Item(disk', i) = before.files[i]
      BY <2>1, <2>2, <3>1, <3>2 DEF Item
    <3>4. i \in Files
      BY <3>2 DEF Items
    <3>5. Item(RestoredTree', i) = before.files[i]
      BY <2>0, <3>2, <3>3, <3>4 DEF Item, RestoredTree
    <3>6. QED
      BY <3>3, <3>5
  <2>6. Kea \notin todo' => disk'.secret = RestoredTree'.secret
    <3>1. Kea \notin todo' => source.files[Kea] = None
      BY <1>d, <2>0, <2>1 DEF Held, Item
    <3>2. RestoredTree'.secret =
            IF source.secret = "there" THEN "there" ELSE before.secret
      BY <2>0 DEF RestoredTree
    <3>3. QED
      BY <2>1, <2>2, <2>3, <3>1, <3>2
  <2>7. staging'.secret = KeptPassword'
    BY <2>0, <2>1, <2>2, <2>3 DEF KeptPassword
  <2>8. Stamped(source.db)' = Stamped(source.db) /\ Held(source)' = Held(source)
    BY <2>0 DEF Stamped, CollectRestoreCarryover
  <2>9. SnapshotProgress'
    BY <2>0 DEF SnapshotProgress
  <2>10. SwapProgress'
    BY <2>0, <2>1, <2>2, <2>4, <2>5, <2>6, <2>7, <2>8 DEF SwapProgress
  <2>11. QED
    BY <2>9, <2>10
<1>7. CASE \E i \in Items : SwapRemove(i)
  <2>0. PICK i \in Items : SwapRemove(i)
    BY <1>7
  <2>1. /\ pc = "swap" /\ pc' = "place" /\ i \in todo /\ item' = i
        /\ UNCHANGED <<snapshot, staging, todo, source, before, swapping>>
    BY <2>0 DEF SwapRemove
  <2>2. Put(disk, i, None) \in Trees
        /\ Put(disk, i, None).secret = disk.secret
        /\ \A j \in Items : j # i => Item(Put(disk, i, None), j) = Item(disk, j)
    BY <1>t, PutWrites
  <2>3. disk.secret \in {"there", "missing"}
    BY <1>t DEF Trees
  <2>4. /\ \A j \in Items : j # i => Item(disk', j) = Item(disk, j)
        /\ i # Kea => disk'.secret = disk.secret
    <3> DEFINE t == Put(disk, i, None)
               x == IF i = Kea THEN "missing" ELSE t.secret
    <3>1. disk' = [t EXCEPT !.secret = x]
      BY <2>0 DEF SwapRemove
    <3>2. t \in Trees /\ x \in {"there", "missing"}
      BY <2>2, <2>3
    <3>3. /\ [t EXCEPT !.secret = x].secret = x
          /\ \A j \in Items : Item([t EXCEPT !.secret = x], j) = Item(t, j)
      <4> HIDE DEF t, x
      <4> QED BY <3>2, SecretReplaced
    <3>4. QED
      BY <2>2, <3>1, <3>3
  <2>5. /\ RestoredTree' = RestoredTree /\ Stamped(source.db)' = Stamped(source.db)
        /\ KeptPassword' = KeptPassword /\ Held(source)' = Held(source)
    BY <2>1 DEF RestoredTree, Stamped, CollectRestoreCarryover, KeptPassword
  <2>6. SnapshotProgress'
    BY <2>1 DEF SnapshotProgress
  <2>7. \A j \in Items \ todo' : Item(disk', j) = Item(RestoredTree', j)
    BY <2>1, <2>4, <2>5 DEF SwapProgress
  <2>8. Kea \notin todo' => disk'.secret = RestoredTree'.secret
    BY <2>1, <2>4, <2>5 DEF SwapProgress
  <2>9. SwapProgress'
    BY <2>1, <2>5, <2>7, <2>8 DEF SwapProgress
  <2>10. QED
    BY <2>6, <2>9
<1>8. CASE \E i \in Items : SwapPlace(i)
  <2>0. PICK i \in Items : SwapPlace(i)
    BY <1>8
  <2>1. /\ pc = "place" /\ i = item /\ i \in todo /\ todo' = todo \ {i}
        /\ pc' = IF todo' = {} THEN "finish" ELSE "swap"
        /\ UNCHANGED <<snapshot, staging, source, before, swapping>>
    BY <2>0 DEF SwapPlace, SwapProgress
  <2>2. /\ staging \in Trees /\ staging.db = Stamped(source.db)
        /\ staging.files = source.files /\ staging.secret = KeptPassword
        /\ before \in Trees /\ source \in Trees
    BY <2>1 DEF IInv, StagedIsStamped, ArchivesHold, SwapProgress, Restoring
  <2> DEFINE t == Put(disk, i, Item(staging, i))
             x == IF i = Kea THEN staging.secret ELSE t.secret
  <2>3. /\ t \in Trees /\ t.secret = disk.secret
        /\ \A j \in Items : Item(t, j) = IF j = i THEN Item(staging, i) ELSE Item(disk, j)
    BY <1>t, <2>2, PutWrites, ItemTyped
  <2>4. x \in {"there", "missing"} /\ disk' = [t EXCEPT !.secret = x]
    BY <2>0, <2>2, <2>3 DEF SwapPlace, Trees
  <2>5. /\ disk'.secret = x
        /\ \A j \in Items : Item(disk', j) = Item(t, j)
    <3> HIDE DEF t, x
    <3> QED BY <2>3, <2>4, SecretReplaced
  <2>6. Item(staging, i) = Item(RestoredTree, i)
    <3>1. Item(source, i) # None
      BY <2>1 DEF SwapProgress, Held
    <3>2. CASE i = "db"
      BY <2>2, <3>2, RestoredItems DEF Item
    <3>3. CASE i # "db"
      <4>1. source.files[i] # None
        BY <3>1, <3>3 DEF Item
      <4>2. Item(RestoredTree, i) = source.files[i]
        BY <3>3, <4>1, RestoredItems
      <4>3. QED
        BY <2>2, <3>3, <4>2 DEF Item
    <3>4. QED
      BY <3>2, <3>3
  <2>7. /\ RestoredTree' = RestoredTree /\ Stamped(source.db)' = Stamped(source.db)
        /\ KeptPassword' = KeptPassword /\ Held(source)' = Held(source)
    BY <2>1 DEF RestoredTree, Stamped, CollectRestoreCarryover, KeptPassword
  <2>8. \A j \in Items \ todo' : Item(disk', j) = Item(RestoredTree', j)
    <3> HIDE DEF t, x
    <3> SUFFICES ASSUME NEW j \in Items, j \notin todo'
                 PROVE  Item(disk', j) = Item(RestoredTree, j)
      BY <2>7
    <3>1. CASE j = i
      BY <2>3, <2>5, <2>6, <3>1
    <3>2. CASE j # i
      <4>1. j \notin todo
        BY <2>1, <3>2
      <4>2. Item(disk, j) = Item(RestoredTree, j)
        BY <2>1, <4>1 DEF SwapProgress
      <4>3. QED
        BY <2>3, <2>5, <3>2, <4>2
    <3>3. QED
      BY <3>1, <3>2
  <2>9. Kea \notin todo' => disk'.secret = RestoredTree.secret
    <3>1. CASE i = Kea
      <4>1. source.files[Kea] # None
        BY <1>d, <2>1, <3>1 DEF SwapProgress, Held, Item
      <4>2. KeptPassword = RestoredTree.secret
        BY <2>2, <4>1 DEF KeptPassword, RestoredTree, Trees
      <4>3. QED
        BY <2>2, <2>5, <3>1, <4>2
    <3>2. CASE i # Kea
      BY <2>1, <2>3, <2>5, <3>2 DEF SwapProgress
    <3>3. QED
      BY <3>1, <3>2
  <2>10. SnapshotProgress'
    BY <2>1 DEF SnapshotProgress
  <2>11. SwapProgress'
    <3> HIDE DEF t, x
    <3>1. todo' \subseteq Held(source) /\ pc' \in {"swap", "finish"}
      BY <2>1 DEF SwapProgress
    <3>2. QED
      BY <2>1, <2>2, <2>7, <2>8, <2>9, <3>1 DEF SwapProgress
  <2>12. QED
    BY <2>10, <2>11
<1>9. QED
  BY <1>1, <1>2, <1>3, <1>4, <1>5, <1>6, <1>7, <1>8

\* The second invariant is inductive.
LEMMA NextIInv2 == IInv2 /\ [Next]_vars => IInv2'
<1> SUFFICES ASSUME IInv2, [Next]_vars PROVE IInv2'
  OBVIOUS
<1>0. IInv /\ IInv' /\ SnapshotProgress /\ SwapProgress
  BY NextIInv DEF IInv2
<1>1. CASE \/ CreateOperator \/ EnrolTotp \/ DisableTotp \/ ListBackups
           \/ \E s \in Sessions : SignIn(s) \/ EndSession(s)
           \/ \E n \in Numbers, left, stuck \in SUBSET Numbers :
                CreateBackup(n, left, stuck)
           \/ \E n \in Numbers : DeleteBackup(n) \/ CreateBackupFails(n)
           \/ FailBeforeSwap \/ FailMidSwap \/ FinishRestore
           \/ Crash \/ InitDb \/ Boot
           \/ \E f \in Files, c \in Contents : WriteFile(f, c)
  <2>1. UNCHANGED <<snapshot, before, swapping>> /\ pc' \in {"up", "down", "booting"}
    BY <1>1 DEF CreateOperator, EnrolTotp, DisableTotp, ListBackups, SignIn, EndSession,
       DeleteBackup, CreateBackup, CreateBackupFails, FailBeforeSwap, FailMidSwap,
       FinishRestore, Crash, InitDb, Boot, WriteFile, restoreVars
  <2>2. QED
    BY <1>0, <2>1, IdleKeepsProgress DEF IInv2
<1>2. CASE \/ \E tree \in Uploads \cup {archives[n] : n \in OnDisk} : BeginRestore(tree)
           \/ \E i \in Items : CopyToSnapshot(i) \/ SwapRemove(i) \/ SwapPlace(i)
           \/ SnapshotTaken \/ Extract \/ StampRestoredSettings \/ KeepOnRestore
  BY <1>0, <1>2, RestoreKeepsProgress DEF IInv2
<1>3. CASE UNCHANGED vars
  BY <1>0, <1>3 DEF vars, restoreVars, IInv2, SnapshotProgress, SwapProgress,
     RestoredTree, Stamped, CollectRestoreCarryover, KeptPassword, Held
<1>4. QED
  BY <1>1, <1>2, <1>3 DEF Next

\* Whatever step of a restore fails or is cut short, DATA_DIR is untouched
\* before the swap, the snapshot undoes it from then on, and a swap that ends
\* has put in the whole archive and kept the host's Kea password, unless the
\* archive brings its own.
THEOREM RestoreUndoable == Spec => []RestoreIsUndoable
<1>1. Init => IInv2
  <2>1. Init => SnapshotProgress /\ SwapProgress
    BY DEF Init, SnapshotProgress, SwapProgress, BeforeSwap, FromStage, FromStamp
  <2>2. QED
    BY <2>1, InitIInv DEF IInv2
<1>2. IInv2 => RestoreIsUndoable
  <2> SUFFICES ASSUME IInv2 PROVE RestoreIsUndoable
    OBVIOUS
  <2>1. pc \in BeforeSwap => disk = before
    BY DEF IInv2, SnapshotProgress
  <2>2. swapping => \A i \in {"db"} \cup Snapshotted : Item(snapshot, i) = Item(before, i)
    BY DEF IInv2, SnapshotProgress
  <2>3. ASSUME pc = "finish" PROVE disk = RestoredTree
    <3>1. /\ \A i \in Items : Item(disk, i) = Item(RestoredTree, i)
          /\ disk.secret = RestoredTree.secret /\ disk \in Trees
          /\ source.db \in Databases
      BY <2>3, BackupAssumption DEF IInv2, IInv, TypeOK, SwapProgress, ArchivesHold,
         Restoring
    <3>2. disk.db = Stamped(source.db)
      BY <3>1, RestoredItems DEF Item, Items
    <3>3. \A f \in Files : disk.files[f] =
            IF source.files[f] # None THEN source.files[f] ELSE before.files[f]
      BY <3>1, RestoredItems, BackupAssumption DEF Item, Items
    <3>4. disk = [db |-> disk.db, files |-> disk.files, secret |-> disk.secret]
          /\ disk.files = [f \in Files |-> disk.files[f]]
      BY <3>1 DEF Trees
    <3>5. disk.files = RestoredTree.files
      BY <3>3, <3>4 DEF RestoredTree
    <3>6. QED
      BY <3>1, <3>2, <3>4, <3>5 DEF RestoredTree
  <2>4. QED
    BY <2>1, <2>2, <2>3 DEF RestoreIsUndoable, BeforeSwap
<1>3. QED
  BY <1>1, <1>2, NextIInv2, PTL DEF Spec

-----------------------------------------------------------------------------
(* Retention.                                                              *)

\* Every nonempty set of naturals has a least element.
LEMMA LeastOf ==
  ASSUME NEW S, S \subseteq Nat, S # {}
  PROVE  \E m \in S : \A n \in S : m <= n
<1> DEFINE R == OpToRel(<, Nat)
<1>1. \A x, y \in S : x < y => <<x, y>> \in R
  BY DEF OpToRel
<1> HIDE DEF R
<1>2. IsWellFoundedOn(R, Nat)
  BY NatLessThanWellFounded DEF R
<1>3. PICK m \in S : \A y \in S : ~ (<<y, m>> \in R)
  BY <1>2, WFMin
<1>4. \A n \in S : ~(n < m)
  BY <1>1, <1>3
<1>5. QED
  BY <1>4

\* Sets of archive numbers are finite.
LEMMA NumbersFinite ==
  ASSUME NEW S, S \subseteq Numbers
  PROVE  IsFiniteSet(S) /\ Cardinality(S) \in Nat /\ S \subseteq Nat
<1>1. IsFiniteSet(Numbers) /\ Numbers \subseteq Nat
  BY BackupAssumption, FS_Interval DEF Numbers
<1>2. IsFiniteSet(S)
  BY <1>1, FS_Subset
<1>3. QED
  BY <1>1, <1>2, FS_CardinalityType

\* enforceRetention keeps no more rows than the limit: all but the oldest row it
\* keeps are newer than that one, and fewer than MaxCount are.
LEMMA NewestBounded ==
  ASSUME NEW rows, rows \subseteq Numbers
  PROVE  Cardinality(Newest(rows)) <= MaxCount
<1> DEFINE K == Newest(rows)
<1>1. K \subseteq rows /\ K \subseteq Numbers
  BY DEF Newest
<1>2. IsFiniteSet(K) /\ Cardinality(K) \in Nat /\ K \subseteq Nat
  BY <1>1, NumbersFinite
<1>3. CASE K = {}
  BY <1>3, FS_EmptySet, BackupAssumption
<1>4. CASE K # {}
  <2>1. PICK m \in K : \A n \in K : m <= n
    BY <1>2, <1>4, LeastOf
  <2> DEFINE A == {k \in rows : k > m}
  <2>2. m \in Nat /\ Cardinality(A) < MaxCount
    BY <1>2, <2>1 DEF Newest
  <2>3. A \subseteq Numbers
    OBVIOUS
  <2>4. IsFiniteSet(A) /\ Cardinality(A) \in Nat
    BY <2>3, NumbersFinite
  <2>5. m \notin A
    BY <2>2
  <2>6. K \subseteq A \cup {m}
    BY <1>1, <1>2, <2>1, <2>2
  <2> HIDE DEF K, A
  <2>7. IsFiniteSet(A \cup {m}) /\ Cardinality(A \cup {m}) = Cardinality(A) + 1
    BY <2>4, <2>5, FS_AddElement
  <2>8. Cardinality(K) <= Cardinality(A \cup {m})
    BY <2>6, <2>7, FS_Subset
  <2>9. QED
    BY <1>2, <2>2, <2>4, <2>7, <2>8, BackupAssumption DEF K
<1>5. QED
  BY <1>3, <1>4

\* What enforceRetention deletes has MaxCount newer rows among those it keeps:
\* the oldest row it keeps has all the newer rows it may have, or the next older
\* one would be kept as well.
LEMMA NewestFill ==
  ASSUME NEW rows, rows \subseteq Numbers, NEW k \in rows, k \notin Newest(rows)
  PROVE  Cardinality({j \in Newest(rows) : j > k}) >= MaxCount
<1> DEFINE K == Newest(rows)
           Above(m) == {j \in rows : j > m}
           Low == rows \ K
<1>1. K \subseteq rows /\ rows \subseteq Nat /\ Low \subseteq Nat /\ k \in Low
  BY NumbersFinite DEF Newest
<1>2. \A m \in rows : /\ IsFiniteSet(Above(m)) /\ Cardinality(Above(m)) \in Nat
                      /\ m \in K <=> Cardinality(Above(m)) < MaxCount
  <2> SUFFICES ASSUME NEW m \in rows
               PROVE  /\ IsFiniteSet(Above(m)) /\ Cardinality(Above(m)) \in Nat
                      /\ m \in K <=> Cardinality(Above(m)) < MaxCount
    OBVIOUS
  <2>1. Above(m) \subseteq Numbers
    OBVIOUS
  <2>2. m \in K <=> Cardinality(Above(m)) < MaxCount
    BY DEF Newest
  <2> HIDE DEF Above
  <2>3. QED
    BY <2>1, <2>2, NumbersFinite
\* The newest of the rows that go.
<1>3. PICK g \in Low : \A j \in Low : j <= g
  <2> DEFINE Mirror == {MaxArchives - j : j \in Low}
  <2>1. \A j \in Low : j \in Nat /\ MaxArchives - j \in Nat
    BY BackupAssumption DEF Numbers
  <2>2. Mirror \subseteq Nat /\ Mirror # {}
    BY <1>1, <2>1
  <2>3. PICK m \in Mirror : \A x \in Mirror : m <= x
    <3> HIDE DEF Mirror
    <3> QED BY <2>2, LeastOf
  <2>4. PICK g \in Low : m = MaxArchives - g
    BY <2>3
  <2>5. \A j \in Low : MaxArchives - g <= MaxArchives - j
    BY <2>3, <2>4
  <2>6. \A j \in Low : j <= g
    BY <2>1, <2>5, BackupAssumption
  <2>7. QED
    BY <2>6
<1>4. g \in rows /\ g \notin K /\ k <= g /\ k \in Nat /\ g \in Nat
  BY <1>1, <1>3
<1>5. Cardinality(Above(g)) >= MaxCount /\ IsFiniteSet(Above(g))
  BY <1>2, <1>4, BackupAssumption
<1>6. Above(g) \subseteq {j \in K : j > k}
  <2> SUFFICES ASSUME NEW j \in rows, j > g
               PROVE  j \in K /\ j > k
    OBVIOUS
  <2>1. j \in Nat
    BY <1>1
  <2>2. j \notin Low
    BY <1>3, <1>4, <2>1
  <2>3. QED
    BY <1>4, <2>1, <2>2
<1>7. {j \in K : j > k} \subseteq Numbers
  BY <1>1
<1> HIDE DEF K, Above, Low
<1>8. IsFiniteSet({j \in K : j > k}) /\ Cardinality({j \in K : j > k}) \in Nat
  BY <1>7, NumbersFinite
<1>9. /\ Cardinality(Above(g)) <= Cardinality({j \in K : j > k})
      /\ Cardinality(Above(g)) \in Nat
  BY <1>5, <1>6, <1>8, FS_Subset, FS_CardinalityType
<1>10. Cardinality({j \in K : j > k}) >= MaxCount
  BY <1>5, <1>8, <1>9, BackupAssumption
<1>11. QED
  BY <1>10 DEF K

\* createBackup leaves a row for every archive on disk, within the limit but for
\* the files it failed to delete, and deletes none of the newest.
LEMMA CreateBackupAccounts ==
  ASSUME IInv, NEW n \in Numbers, NEW left \in SUBSET Numbers,
         NEW stuck \in SUBSET Numbers, CreateBackup(n, left, stuck)
  PROVE  /\ OnDisk' \subseteq disk'.db.rows
         /\ Cardinality(OnDisk' \ stuck) <= MaxCount
         /\ \A k \in OnDisk \ OnDisk' :
              Cardinality({j \in disk'.db.rows : j > k}) >= MaxCount
<1> DEFINE listed == disk.db.rows \cup {n} \cup OnDisk
           kept == Newest(listed)
           gone == (listed \ kept) \ stuck
<1>1. /\ disk \in Trees /\ disk.db \in Databases /\ disk.db.rows \subseteq Numbers
      /\ archives \in [Numbers -> Trees \cup {None, Partial}]
  BY DEF IInv, TypeOK, DatabaseThere, CreateBackup, Databases
<1>2. listed \subseteq Numbers /\ OnDisk \subseteq listed /\ n \in listed
  BY <1>1 DEF OnDisk
<1>3. /\ archives' = [k \in Numbers |-> CASE k \in gone -> None
                                          [] k = n -> Archived(disk)
                                          [] OTHER -> archives[k]]
      /\ disk' = [disk EXCEPT !.db = [disk.db EXCEPT !.rows = kept \cup left]]
      /\ \A k \in OnDisk \cup disk.db.rows : k < n
      /\ left \subseteq listed /\ stuck \subseteq left
  BY DEF CreateBackup, SetDb, Adopted, NextName
<1>4. disk'.db.rows = kept \cup left
  BY <1>1, <1>3 DEF Trees, Databases
<1>5. kept \subseteq listed
  BY DEF Newest
<1>6. n \in kept
  <2>1. {k \in listed : k > n} = {}
    <3>1. \A k \in listed : k \in Nat /\ n \in Nat /\ k <= n
      BY <1>2, <1>3, NumbersFinite
    <3>2. QED
      BY <3>1
  <2>2. Cardinality({k \in listed : k > n}) < MaxCount
    BY <2>1, FS_EmptySet, BackupAssumption
  <2>3. QED
    BY <1>2, <2>2 DEF Newest
<1>7. OnDisk' \subseteq kept \cup stuck
  <2> SUFFICES ASSUME NEW k \in Numbers, archives'[k] # None
               PROVE  k \in kept \cup stuck
    BY DEF OnDisk
  <2>1. CASE k \in gone
    <3>1. k # n
      BY <1>6, <2>1
    <3>2. archives'[k] = None
      BY <1>3, <2>1, <3>1
    <3>3. QED
      BY <3>2
  <2>2. CASE k = n
    BY <1>6, <2>2
  <2>3. CASE k \notin gone /\ k # n
    <3>1. archives'[k] = archives[k]
      BY <1>3, <2>3
    <3>2. QED
      BY <1>2, <2>3, <3>1 DEF OnDisk
  <2>4. QED
    BY <2>1, <2>2, <2>3
<1>8. \A k \in OnDisk \ OnDisk' : k \in gone
  <2> SUFFICES ASSUME NEW k \in Numbers, archives[k] # None, archives'[k] = None,
                      k \notin gone
               PROVE  FALSE
    BY DEF OnDisk
  <2>1. CASE k = n
    <3>1. k \in OnDisk
      BY DEF OnDisk
    <3>2. n < n /\ n \in Nat
      BY <1>3, <2>1, <3>1, NumbersFinite
    <3>3. QED
      BY <3>2
  <2>2. CASE k # n
    BY <1>3, <2>2
  <2>3. QED
    BY <2>1, <2>2
<1> HIDE DEF listed
<1>9. \A k \in gone : Cardinality({j \in kept : j > k}) >= MaxCount
  BY <1>2, NewestFill
<1>10. Cardinality(kept) <= MaxCount /\ kept \subseteq Numbers
  BY <1>2, <1>5, NewestBounded
<1> HIDE DEF kept, gone
<1>11. IsFiniteSet(kept) /\ Cardinality(kept) \in Nat
  BY <1>10, NumbersFinite
<1>12. Cardinality(OnDisk' \ stuck) <= MaxCount
  <2>1. OnDisk' \ stuck \subseteq kept
    BY <1>7
  <2>2. /\ Cardinality(OnDisk' \ stuck) <= Cardinality(kept)
        /\ Cardinality(OnDisk' \ stuck) \in Nat
    BY <1>11, <2>1, FS_Subset, FS_CardinalityType
  <2>3. QED
    BY <1>10, <1>11, <2>2, BackupAssumption
<1>13. ASSUME NEW k \in OnDisk \ OnDisk'
       PROVE  Cardinality({j \in disk'.db.rows : j > k}) >= MaxCount
  <2> DEFINE A == {j \in kept : j > k}
             B == {j \in disk'.db.rows : j > k}
  <2>1. A \subseteq B /\ B \subseteq Numbers
    BY <1>4, <1>10
  <2>2. Cardinality(A) >= MaxCount
    BY <1>8, <1>9, <1>13
  <2> HIDE DEF A, B
  <2>3. IsFiniteSet(B) /\ Cardinality(B) \in Nat
    BY <2>1, NumbersFinite
  <2>4. Cardinality(A) <= Cardinality(B) /\ Cardinality(A) \in Nat
    BY <2>1, <2>3, FS_Subset, FS_CardinalityType
  <2>5. Cardinality(B) >= MaxCount
    BY <2>2, <2>3, <2>4, BackupAssumption
  <2>6. QED
    BY <2>5 DEF B
<1>14. OnDisk' \subseteq disk'.db.rows
  BY <1>3, <1>4, <1>7
<1>15. QED
  BY <1>12, <1>13, <1>14

\* Whatever table a restore has put back, listBackups and createBackup leave a
\* row for every archive on disk; createBackup leaves no more archives than
\* backup_retention_count allows, but for those it failed to delete, and deletes
\* only archives with that many newer rows in the table it leaves.
THEOREM ArchivesStayAccounted == Spec => ArchivesAccounted
<1> DEFINE A == /\ ListBackups => disk'.db.rows = OnDisk'
                /\ \A n \in Numbers, left, stuck \in SUBSET Numbers :
                     CreateBackup(n, left, stuck) =>
                       /\ OnDisk' \subseteq disk'.db.rows
                       /\ Cardinality(OnDisk' \ stuck) <= MaxCount
                       /\ \A k \in OnDisk \ OnDisk' :
                            Cardinality({j \in disk'.db.rows : j > k}) >= MaxCount
<1>1. IInv => A
  <2> SUFFICES ASSUME IInv PROVE A
    OBVIOUS
  <2>1. ASSUME ListBackups PROVE disk'.db.rows = OnDisk'
    <3>1. disk \in Trees /\ disk.db \in Databases
      BY <2>1 DEF IInv, TypeOK, DatabaseThere, ListBackups
    <3>2. /\ disk' = [disk EXCEPT !.db = [disk.db EXCEPT !.rows =
                                            (disk.db.rows \cup OnDisk) \cap OnDisk]]
          /\ archives' = archives
      BY <2>1, <3>1 DEF ListBackups, SetDb, Adopted, Databases
    <3>3. disk'.db.rows = (disk.db.rows \cup OnDisk) \cap OnDisk
      BY <3>1, <3>2 DEF Trees, Databases
    <3>4. OnDisk' = OnDisk
      BY <3>2 DEF OnDisk
    <3>5. QED
      BY <3>3, <3>4
  <2>2. QED
    BY <2>1, CreateBackupAccounts
<1>2. QED
  BY <1>1, InitIInv, NextIInv, PTL DEF Spec, ArchivesAccounted
=============================================================================
