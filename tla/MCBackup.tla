------------------------------ MODULE MCBackup ------------------------------
(* Instance of Backup for TLC: sessions and contents are interchangeable.  *)
EXTENDS Backup, TLC
MCSymmetry == Permutations(Sessions) \cup Permutations(Contents)

\* Archives of another host, with a password of their own.
MCUploads ==
  {[db |-> [rows |-> {1}, live |-> Sessions, op |-> op, parked |-> "nothing"],
    files |-> [f \in Files |-> c], secret |-> "there"] 
     : op \in {"absent", "off"}, c \in Contents}

\* What the rest of a behaviour depends on: the trees in the archives until the
\* last restore has begun, and of the snapshot, between two restores, only that
\* it is the one it should be.
MCView ==
  <<disk, pc, staging, todo, item, source, swapping, restores, ended, enrolled,
    IF restores = MaxRestores THEN OnDisk ELSE archives,
    IF pc \in Restoring THEN <<snapshot, before>> ELSE RestoreIsUndoable>>
=============================================================================
