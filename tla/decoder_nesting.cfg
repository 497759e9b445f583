SPECIFICATION Spec
CONSTANTS
  Type <- MCType
  Group <- MCGroup
  Field <- NestingField
  Desc <- NestingDesc
  Scalar <- MCScalar
  KnownValue = {0}
  Options <- NestingOptions
  RootTypes <- OuterOnly
  MaxInput = 10
  WireVarint = WireVarint
  WireBytes = WireBytes
  WireGroup = WireGroup
  Elem = Elem
  None = None
INVARIANTS DepthBounded RequiredPresent CountersPayForTrail
