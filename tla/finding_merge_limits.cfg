SPECIFICATION Spec
CONSTANTS
  Type <- MCType
  Group <- MCGroup
  Field <- CollectionField
  Desc <- CollectionDesc
  Scalar <- MCScalar
  KnownValue = {0}
  Options <- CollectionOptions
  RootTypes <- MCType
  MaxInput = 12
  WireVarint = WireVarint
  WireBytes = WireBytes
  WireGroup = WireGroup
  Elem = Elem
  None = None
INVARIANT CollectionsBoundedInTree
