SPECIFICATION Spec
CONSTANTS
  c1 = c1
  c2 = c2
  f1 = f1
  f2 = f2
  a1 = a1
  t1 = t1
  t2 = t2
  h1 = h1
  h2 = h2
  NoCollection = NoCollection
  NoField = NoField
  NoArchive = NoArchive
  NoType = NoType
  DefaultValue = DefaultValue
  Kinds <- TwoKinds
  Collections <- TwoCollections
  Fields <- TwoFields
  Archives <- OneArchive
  Types <- TwoTypes
  Handlers <- TwoHandlers
  ForeignKeys <- AnyConnection
SYMMETRY Symmetric
INVARIANTS TrashAgrees SearchIsCurrent UsedSchemaStays
CHECK_DEADLOCK FALSE
