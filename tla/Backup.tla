------------------------------- MODULE Backup -------------------------------
(***************************************************************************)
(* Backups of the data directory and the restore that replaces it          *)
(* (server/src/utils/backup.js, routes/operations.js, the first boot after *)
(* a restore in index.js).                                                 *)
(*                                                                         *)
(* A restore is one synchronous call: no other request runs inside it, but *)
(* the process may be killed, and a call to tar or the file system may     *)
(* fail, between any two of its steps.  The data directory is a tree: the  *)
(* database, the carried directories and, inside Kea's, the control API    *)
(* password.  Archives are numbered in the order they are taken, so the    *)
(* number is the name and the creation time at once.                       *)
(***************************************************************************)
EXTENDS Naturals, FiniteSets, FiniteSetsExt

CONSTANTS
  Files,          \* the carried directories and files beside the database
  Kea,            \* the one of them that holds Kea's leases and password
  Snapshotted,    \* those takePreRestoreSnapshot copies: all but anomaly/
  Contents,       \* what such a directory can hold
  Sessions,       \* sign-in sessions, each created at most once
  MaxCount,       \* backup_retention_count
  Uploads,        \* archives kept elsewhere: deleted here since, or of another host
  MaxArchives,    \* bound on the archives taken
  MaxRestores,    \* bound on the restores begun
  Partial,        \* an archive tar did not finish
  None            \* no such file

ASSUME BackupAssumption ==
  /\ Kea \in Snapshotted /\ Snapshotted \subseteq Files
  /\ MaxCount \in Nat \ {0}          \* routes/settings.js: 1 to 365
  /\ MaxArchives \in Nat /\ MaxRestores \in Nat
  /\ None \notin Contents /\ Partial # None
  /\ "db" \notin Files

VARIABLES
  disk,       \* DATA_DIR
  archives,   \* the backups directory: a tree, Partial, or None
  snapshot,   \* snapshots/pre-restore
  staging,    \* .restore-staging-*, or None
  pc,         \* where the process is
  todo,       \* the items the current loop of the restore has left
  item,       \* the item the swap loop has removed and not yet replaced
  source,     \* the tree the restore was given, or None
  before,     \* history: DATA_DIR when the last restore began
  swapping,   \* history: the last restore has begun its swap
  restores,   \* restores begun
  ended,      \* history: sessions that have ended
  enrolled    \* history: the operator has two-factor, by the code's promise

restoreVars == <<snapshot, staging, todo, item, source, before, swapping, restores>>
vars == <<disk, archives, pc, restoreVars, ended, enrolled>>

Numbers == 1..MaxArchives

\* The restoring operator's account: not there, without or with two-factor.
Accounts == {"absent", "off", "on"}

\* What the database says of backups, sessions, the operator and, parked as
\* a setting by a restore, of an enrolment to carry over.
Databases == [rows: SUBSET Numbers, live: SUBSET Sessions, op: Accounts,
              parked: {"nothing", "enrolment"}]

\* secret: whether Kea's control API password is in its directory.
Trees == [db: Databases \cup {None}, files: [Files -> Contents \cup {None}],
          secret: {"there", "missing"}]

\* None stands for no database and for no tree at all.
ASSUME NoneAssumption == /\ None \notin Databases \cup Trees
                         /\ Partial \notin Trees

\* inspectBackup refuses an archive without a database; the password is a file
\* in Kea's directory.
ASSUME UploadsAssumption ==
  Uploads \subseteq {t \in Trees : /\ t.db # None
                                   /\ t.secret = "there" => t.files[Kea] # None}

\* The items of a tree, the database among them.
Items == {"db"} \cup Files
Item(tree, i) == IF i = "db" THEN tree.db ELSE tree.files[i]
Put(tree, i, x) == IF i = "db" THEN [tree EXCEPT !.db = x]
                               ELSE [tree EXCEPT !.files[i] = x]
Held(tree) == {i \in Items : Item(tree, i) # None}
EmptyTree == [db |-> None, files |-> [f \in Files |-> None],
              secret |-> "missing"]

\* What the first boot makes of a directory without a database.
FreshDatabase == [rows |-> {}, live |-> {}, op |-> "absent",
                  parked |-> "nothing"]

OnDisk == {n \in Numbers : archives[n] # None}

Restoring == {"snapshot", "extract", "stamp", "keep", "swap", "place", "finish"}

Init ==
  /\ disk \in [db: {FreshDatabase}, files: [Files -> Contents \cup {None}],
               secret: {"there", "missing"}]
  /\ disk.secret = IF disk.files[Kea] # None THEN "there" ELSE "missing"
  /\ archives = [n \in Numbers |-> None]
  /\ snapshot = EmptyTree /\ staging = None
  /\ pc = "up" /\ todo = {} /\ item = None
  /\ source = None /\ before = None /\ swapping = FALSE /\ restores = 0
  /\ ended = {} /\ enrolled = FALSE

-----------------------------------------------------------------------------
(* The appliance at work: what changes the data a backup carries.          *)

SetDb(db) == disk' = [disk EXCEPT !.db = db]

\* POST /api/users: the account the operator signs in with.
CreateOperator ==
  /\ pc = "up" /\ disk.db.op = "absent"
  /\ SetDb([disk.db EXCEPT !.op = "off"])
  /\ UNCHANGED <<archives, pc, restoreVars, ended, enrolled>>

\* The operator turns two-factor on.
EnrolTotp ==
  /\ pc = "up" /\ disk.db.op = "off"
  /\ SetDb([disk.db EXCEPT !.op = "on"])
  /\ enrolled' = TRUE
  /\ UNCHANGED <<archives, pc, restoreVars, ended>>

\* The operator turns two-factor off: nothing is owed to them any more.
DisableTotp ==
  /\ pc = "up" /\ disk.db.op = "on"
  /\ SetDb([disk.db EXCEPT !.op = "off"])
  /\ enrolled' = FALSE
  /\ UNCHANGED <<archives, pc, restoreVars, ended>>

\* createSession: the id is random, so no session is created twice.
SignIn(s) ==
  /\ pc = "up" /\ s \notin disk.db.live \cup ended
  /\ SetDb([disk.db EXCEPT !.live = @ \cup {s}])
  /\ UNCHANGED <<archives, pc, restoreVars, ended, enrolled>>

\* endSession: sign-out, revocation or a limit.
EndSession(s) ==
  /\ pc = "up" /\ s \in disk.db.live
  /\ SetDb([disk.db EXCEPT !.live = @ \ {s}])
  /\ ended' = ended \cup {s}
  /\ UNCHANGED <<archives, pc, restoreVars, enrolled>>

\* Certificates, leases or models change, or Kea serves for the first time
\* and is given its password (ensureKeaSecret).
WriteFile(f, c) ==
  /\ pc = "up" /\ disk.files[f] # c
  /\ disk' = [disk EXCEPT !.files[f] = c,
                          !.secret = IF f = Kea THEN "there" ELSE @]
  /\ UNCHANGED <<archives, pc, restoreVars, ended, enrolled>>

-----------------------------------------------------------------------------
(* Backups.                                                                *)

\* Mutation: an archive the table does not know stays unlisted.
AdoptedNone(rows, present) == rows

\* adoptUnlistedArchives: the rows once every archive on disk has one.
Adopted(rows, present) == rows \cup present

\* enforceRetention keeps the newest MaxCount rows.
Newest(rows) == {n \in rows : Cardinality({k \in rows : k > n}) < MaxCount}

\* tar's excludes: the password is not put into an archive or a snapshot.
Archived(tree) == [tree EXCEPT !.secret = "missing"]

\* The name of the next archive: no file and no row has it.
NextName(n) == \A k \in OnDisk \cup disk.db.rows : k < n

\* createBackup, with the retention it enforces.  The archive holds the
\* database as it is before its own row is inserted.  A deletion that throws is
\* passed over: the rows left stay, and the files stuck with them.
CreateBackup(n, left, stuck) ==
  LET listed == Adopted(disk.db.rows \cup {n}, OnDisk)
      surplus == listed \ Newest(listed)
  IN /\ pc = "up" /\ NextName(n)
     /\ left \subseteq surplus /\ stuck \subseteq left
     /\ archives' = [k \in Numbers |-> CASE k \in surplus \ stuck -> None
                                         [] k = n -> Archived(disk)
                                         [] OTHER -> archives[k]]
     /\ SetDb([disk.db EXCEPT !.rows = Newest(listed) \cup left])
     /\ UNCHANGED <<pc, restoreVars, ended, enrolled>>

\* tar fails or times out, or the process is killed under it: createBackup
\* throws before the insert and leaves what tar had written.
CreateBackupFails(n) ==
  /\ pc = "up" /\ NextName(n)
  /\ archives' = [archives EXCEPT ![n] = Partial]
  /\ pc' \in {"up", "down"}
  /\ UNCHANGED <<disk, restoreVars, ended, enrolled>>

\* listBackups adopts what is unlisted and drops the rows without a file.
ListBackups ==
  /\ pc = "up"
  /\ SetDb([disk.db EXCEPT !.rows = Adopted(@, OnDisk) \cap OnDisk])
  /\ UNCHANGED <<archives, pc, restoreVars, ended, enrolled>>

\* deleteBackup removes the file, when there is one, and the row.
DeleteBackup(n) ==
  /\ pc = "up" /\ n \in disk.db.rows
  /\ archives' = [archives EXCEPT ![n] = None]
  /\ SetDb([disk.db EXCEPT !.rows = @ \ {n}])
  /\ UNCHANGED <<pc, restoreVars, ended, enrolled>>

-----------------------------------------------------------------------------
(* The restore.                                                            *)

\* restoreBackup of an upload, an archive of this host or any other, that passed
\* inspectBackup and the space check (a refusal by either changes nothing; a
\* partial archive cannot be listed).  takePreRestoreSnapshot first clears the
\* previous snapshot.
BeginRestore(tree) ==
  /\ pc = "up" /\ restores < MaxRestores
  /\ disk.db.op # "absent"                       \* the operator is signed in
  /\ tree # Partial
  /\ pc' = "snapshot" /\ source' = tree
  /\ before' = disk /\ snapshot' = EmptyTree
  /\ todo' = ({"db"} \cup Snapshotted) \cap Held(disk)
  /\ restores' = restores + 1 /\ swapping' = FALSE
  /\ UNCHANGED <<disk, archives, staging, item, ended, enrolled>>

\* takePreRestoreSnapshot copies one item; its manifest ends it.
CopyToSnapshot(i) ==
  /\ pc = "snapshot" /\ i \in todo
  /\ snapshot' = Put(snapshot, i, Item(disk, i))
  /\ todo' = todo \ {i}
  /\ UNCHANGED <<disk, archives, staging, pc, item, source, before, swapping,
                 restores, ended, enrolled>>

SnapshotTaken ==
  /\ pc = "snapshot" /\ todo = {}
  /\ pc' = "extract"
  /\ UNCHANGED <<disk, archives, restoreVars, ended, enrolled>>

\* tar extracts the archive into a new staging directory.
Extract ==
  /\ pc = "extract"
  /\ staging' = source /\ pc' = "stamp"
  /\ UNCHANGED <<disk, archives, snapshot, todo, item, source, before, swapping,
                 restores, ended, enrolled>>

\* collectRestoreCarryover: only an enrolled operator has something to carry.
CollectRestoreCarryover == before.db.op = "on"

\* Mutation: the sessions of the backup's day come back with it.
StampedLive(db) ==
  [db EXCEPT !.parked = IF CollectRestoreCarryover THEN "enrolment" ELSE @]

\* stampRestoredSettings, one transaction in the staged database.
Stamped(db) ==
  [db EXCEPT !.live = {},
             !.parked = IF CollectRestoreCarryover THEN "enrolment" ELSE @]

StampRestoredSettings ==
  /\ pc = "stamp"
  /\ staging' = [staging EXCEPT !.db = Stamped(@)]
  /\ pc' = "keep"
  /\ UNCHANGED <<disk, archives, snapshot, todo, item, source, before, swapping,
                 restores, ended, enrolled>>

\* A failure before the swap: the staging directory is removed, the error
\* answered, and the service goes on.
FailBeforeSwap ==
  /\ pc \in {"snapshot", "extract", "stamp"}
  /\ pc' = "up" /\ staging' = None /\ todo' = {} /\ source' = None
  /\ UNCHANGED <<disk, archives, snapshot, item, before, swapping, restores,
                 ended, enrolled>>

\* Mutation: nothing of this host is kept.
KeptSecretNever == FALSE

\* KEPT_ON_RESTORE: the host's password moves into the staged directory, when
\* that is there without one.
KeptSecret ==
  staging.files[Kea] # None /\ disk.secret = "there" /\ staging.secret = "missing"

KeepOnRestore ==
  /\ pc = "keep"
  /\ staging' = IF KeptSecret THEN [staging EXCEPT !.secret = "there"]
                              ELSE staging
  /\ disk' = IF KeptSecret THEN [disk EXCEPT !.secret = "missing"] ELSE disk
  /\ todo' = Held(staging) /\ swapping' = TRUE /\ pc' = "swap"
  /\ UNCHANGED <<archives, snapshot, item, source, before, restores, ended,
                 enrolled>>

\* The swap loop: the item in DATA_DIR is removed (the database with its
\* write-ahead log, and so the sessions it knew) ...
SwapRemove(i) ==
  /\ pc = "swap" /\ i \in todo
  /\ disk' = [Put(disk, i, None)
              EXCEPT !.secret = IF i = Kea THEN "missing" ELSE @]
  /\ ended' = IF i = "db" THEN ended \cup disk.db.live ELSE ended
  /\ item' = i /\ pc' = "place"
  /\ UNCHANGED <<archives, snapshot, staging, todo, source, before, swapping,
                 restores, enrolled>>

\* ... and the staged one renamed to its place.  From here the operator has the
\* two-factor that was in force when the restore began, if the backup has their
\* account; one that was only parked then is given up (collectRestoreCarryover).
SwapPlace(i) ==
  /\ pc = "place" /\ i = item
  /\ disk' = [Put(disk, i, Item(staging, i))
              EXCEPT !.secret = IF i = Kea THEN staging.secret ELSE @]
  /\ enrolled' = IF i = "db" THEN CollectRestoreCarryover /\ staging.db.op # "absent"
                             ELSE enrolled
  /\ todo' = todo \ {i} /\ item' = None
  /\ pc' = IF todo' = {} THEN "finish" ELSE "swap"
  /\ UNCHANGED <<archives, snapshot, staging, source, before, swapping, restores,
                 ended>>

\* A step of the swap fails: the staging directory goes, with all that is in
\* it, and the process exits to be started again.
FailMidSwap ==
  /\ pc \in {"keep", "swap", "place"}
  /\ staging' = None /\ pc' = "down" /\ todo' = {} /\ item' = None
  /\ source' = None
  /\ UNCHANGED <<disk, archives, snapshot, before, swapping, restores, ended,
                 enrolled>>

\* The staging directory is removed, the database closed, the exit scheduled.
FinishRestore ==
  /\ pc = "finish"
  /\ staging' = None /\ source' = None /\ pc' = "down"
  /\ UNCHANGED <<disk, archives, snapshot, todo, item, before, swapping,
                 restores, ended, enrolled>>

\* The process is killed.  Nothing reads again what it had staged or was
\* given: sweepStaleRestoreArtifacts removes it at a boot an hour later.
Crash ==
  /\ pc \in Restoring \cup {"up", "booting"}
  /\ pc' = "down" /\ todo' = {} /\ item' = None
  /\ staging' = None /\ source' = None
  /\ UNCHANGED <<disk, archives, snapshot, before, swapping, restores, ended,
                 enrolled>>

-----------------------------------------------------------------------------
(* The boot.                                                               *)

\* Mutation: a data directory without a database is started as it is.
InitDbOpens ==
  /\ pc = "down" /\ pc' = "booting"
  /\ UNCHANGED <<disk, archives, restoreVars, ended, enrolled>>

\* initDb opens the database, or makes one where there is none.
InitDb ==
  /\ pc = "down"
  /\ disk' = IF disk.db = None THEN Put(disk, "db", FreshDatabase) ELSE disk
  /\ enrolled' = (enrolled /\ disk.db # None)
  /\ pc' = "booting"
  /\ UNCHANGED <<archives, restoreVars, ended>>

\* Mutation: the parked enrolment is removed without being applied.
CarriedOverDropped(db) == [db EXCEPT !.parked = "nothing"]

\* applyRestoreCarryover's transaction: an account that has two-factor of its
\* own keeps it, one the backup does not have gets none.
CarriedOver(db) ==
  [db EXCEPT !.op = IF db.parked = "enrolment" /\ db.op = "off" THEN "on" ELSE @,
             !.parked = "nothing"]

\* The rest of main(): the carry-over (one that throws is tried again at the
\* next boot) and ensureKeaSecret, which writes a new password where Kea
\* serves without one.
Boot ==
  /\ pc = "booting"
  /\ \E db \in {disk.db, CarriedOver(disk.db)}, secret \in {"there", "missing"} :
       /\ secret # disk.secret => secret = "there" /\ disk.files[Kea] # None
       /\ disk' = [disk EXCEPT !.db = db, !.secret = secret]
  /\ pc' = "up"
  /\ UNCHANGED <<archives, restoreVars, ended, enrolled>>

-----------------------------------------------------------------------------
Next ==
  \/ CreateOperator \/ EnrolTotp \/ DisableTotp
  \/ \E s \in Sessions : SignIn(s) \/ EndSession(s)
  \/ \E f \in Files, c \in Contents : WriteFile(f, c)
  \/ \E n \in Numbers, left, stuck \in SUBSET Numbers : CreateBackup(n, left, stuck)
  \/ \E n \in Numbers : CreateBackupFails(n) \/ DeleteBackup(n)
  \/ ListBackups
  \/ \E tree \in Uploads \cup {archives[n] : n \in OnDisk} : BeginRestore(tree)
  \/ \E i \in Items : CopyToSnapshot(i) \/ SwapRemove(i) \/ SwapPlace(i)
  \/ SnapshotTaken \/ Extract \/ StampRestoredSettings \/ KeepOnRestore
  \/ FailBeforeSwap \/ FailMidSwap \/ FinishRestore
  \/ Crash \/ InitDb \/ Boot

Spec == Init /\ [][Next]_vars

-----------------------------------------------------------------------------
(* Properties.                                                             *)

\* Every variable holds a value of its kind.
TypeOK ==
  /\ disk \in Trees
  /\ archives \in [Numbers -> Trees \cup {None, Partial}]
  /\ snapshot \in Trees /\ staging \in Trees \cup {None}
  /\ pc \in Restoring \cup {"up", "down", "booting"}
  /\ pc \in {"up", "booting"} => disk.db # None
  /\ todo \subseteq Items /\ item \in Items \cup {None}
  /\ source \in Trees \cup {None} /\ before \in Trees \cup {None}
  /\ swapping \in BOOLEAN /\ restores \in 0..MaxRestores
  /\ ended \subseteq Sessions /\ enrolled \in BOOLEAN

\* What a completed restore leaves: the archive's items, the database with
\* the operator's stamp, what the archive did not have as it was, and, unless
\* the archive brings one, this host's own Kea password.
RestoredTree ==
  [db |-> Stamped(source.db),
   files |-> [f \in Files |-> IF source.files[f] # None THEN source.files[f]
                              ELSE before.files[f]],
   secret |-> IF source.secret = "there" THEN "there" ELSE before.secret]

\* restoreBackup, whatever step of it fails or is cut short: until the swap
\* begins DATA_DIR is as the operator left it; from then on the pre-restore
\* snapshot holds every item it is meant to undo, whatever the swap has
\* done to DATA_DIR, until the next restore; and a restore whose swap ended
\* has put in the whole archive and, unless that brings one, kept this
\* host's Kea password.
RestoreIsUndoable ==
  /\ pc \in {"snapshot", "extract", "stamp", "keep"} => disk = before
  /\ swapping => \A i \in {"db"} \cup Snapshotted :
                           Item(snapshot, i) = Item(before, i)
  /\ pc = "finish" => disk = RestoredTree

\* A sign-in session that has ended is never accepted again, though a backup
\* taken while it was live is restored later (endAllLiveSessions on the
\* staged database).
EndedStaysEnded == disk.db # None => disk.db.live \cap ended = {}

\* The operator's two-factor, from the day they turn it on, is in force or
\* parked for the next boot, through every restore, crash and carry-over that
\* throws, until they turn it off.  Three things end the promise with the
\* database it was in: a backup without their account, a swap cut short before
\* a database was in place, and a restore begun while it was only parked, which
\* collects nothing to carry.
EnrolmentSurvives ==
  enrolled /\ disk.db # None => disk.db.parked = "enrolment" \/ disk.db.op = "on"

\* However many restores have put an older table back: listBackups leaves the
\* table with a row for every archive on disk and for nothing else; createBackup
\* leaves every archive with a row and, but for those it failed to delete, no
\* more archives than the limit; and it deletes none of the newest it lists.
ArchivesAccounted ==
  [][/\ ListBackups => disk'.db.rows = OnDisk'
     /\ \A n \in Numbers, left, stuck \in SUBSET Numbers :
          CreateBackup(n, left, stuck) =>
            /\ OnDisk' \subseteq disk'.db.rows
            /\ Cardinality(OnDisk' \ stuck) <= MaxCount
            /\ \A k \in OnDisk \ OnDisk' :
                 Cardinality({j \in disk'.db.rows : j > k}) >= MaxCount]_vars

=============================================================================
