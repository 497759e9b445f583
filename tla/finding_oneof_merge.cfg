SPECIFICATION Spec
CONSTANTS
  Type <- MCType
  Group <- MCGroup
  Field <- OneofField
  Desc <- OneofDesc
  Scalar <- MCScalar
  KnownValue <- MCScalar
  Options <- OneofOptions
  RootTypes <- OuterOnly
  MaxInput = 10
  WireVarint = WireVarint
  WireBytes = WireBytes
  WireGroup = WireGroup
  Elem = Elem
  None = None
INVARIANT OneofExclusiveInTree
