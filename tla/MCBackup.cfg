SPECIFICATION Spec
CONSTANTS
  Files = {kea}
  Kea = kea
  Snapshotted = {kea}
  Contents = {c1, c2}
  Sessions = {s1}
  Uploads <- MCUploads
  MaxCount = 1
  MaxArchives = 2
  MaxRestores = 2
  Partial = Partial
  None = None
SYMMETRY MCSymmetry
VIEW MCView
INVARIANTS TypeOK RestoreIsUndoable EndedStaysEnded EnrolmentSurvives
PROPERTIES ArchivesAccounted
