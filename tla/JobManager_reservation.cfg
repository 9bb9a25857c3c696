SPECIFICATION Spec
CONSTANTS
  s1 = s1
  s2 = s2
  backup = backup
  rebuild = rebuild
  NoKind = NoKind
  NoSub = NoSub
  MaxJobs = 2
  Subs <- NoStreams
  Kinds <- BothKinds
  DataKinds <- BackupOnly
  MaxProgress = 1
  LoadLimit = 1
  WritesMayFail = TRUE
  MaxRestarts = 1
INVARIANTS OneDataOperation ReservationMatchesHolder
PROPERTIES RowsFollowLifecycle
CHECK_DEADLOCK FALSE
