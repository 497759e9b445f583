SPECIFICATION RoundTripSpec
CONSTANTS
  Type <- MCType
  Group <- MCGroup
  Field <- MCField
  Desc <- MCDesc
  Declared <- MCDeclared
  Number <- MCNumber
  Implicit <- MCImplicit
  Packed <- MCPacked
  Scalar <- MCScalar
  KnownValue = {0}
  Options <- MCOptions
  EncodeChoices <- MCChoices
  Unlimited <- MCUnlimited
  RootTypes <- MCType
  MaxInput = 8
  WireVarint = WireVarint
  WireBytes = WireBytes
  WireGroup = WireGroup
  Elem = Elem
  None = None
INVARIANTS SurvivesReencoding StrictlyDecodedEncodes HistoryPreserved StrictDomains
