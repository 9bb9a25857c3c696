SPECIFICATION Spec
CONSTANTS
  u1 = u1
  u2 = u2
  z1 = z1
  z2 = z2
  l1 = l1
  l2 = l2
  Repositories = {app}
  Tools = {u1, u2}
  Limits <- MCLimits
  Null = Nothing
  Names <- MCNames
  Ignored = {}
  Included = {}
  Code = {"code"}
  OutputName = Nothing
  Zips = {z1, z2}
  Options <- MCOptions
  Plans <- MCPlans
  MaxUint32 = 4
  MaxUint16 = 2
  None = Nothing
  Launchers = {l1, l2}
  Scenes <- MCScenes
  Nobody = Nothing
  Agents = {a1, a2}
  MaxRequests = 3
  Targets <- MCTargets
  Versions = {1, 2}
  Makers = {m1, m2}
  MaxHands = 1
  Missing = Nothing
INVARIANTS CheckpointIsTrue EntriesDecode OutputIsWhole NothingIsLeft RetriesDoNotRepeat
PROPERTIES CheckpointMovesForward UnforcedNeverReplaces StopsEnd
CHECK_DEADLOCK FALSE
