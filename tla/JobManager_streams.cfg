SPECIFICATION FairSpec
CONSTANTS
  s1 = s1
  s2 = s2
  backup = backup
  rebuild = rebuild
  NoKind = NoKind
  NoSub = NoSub
  MaxJobs = 1
  Subs <- TwoStreams
  Kinds <- BackupOnly
  DataKinds <- BackupOnly
  MaxProgress = 1
  LoadLimit = 1
  WritesMayFail = FALSE
  MaxRestarts = 1
INVARIANTS StreamIsCurrent
PROPERTIES StreamMovesForward JobsEnd StreamsEnd
CHECK_DEADLOCK FALSE
