SPECIFICATION Spec
CONSTANTS
  Fields <- MCFields
  WellKnown <- MCWellKnown
  Enums <- MCEnums
  MinInt <- MCMin
  MaxInt <- MCMax
  IntegerText <- MCIntegerText
  Exponents <- MCExponents
  TypeUrls <- MCTypeUrls
  KeyOrder <- MCKeyOrder
  None = None
  Documents <- MCDocuments
  FromWire <- MCFromWire
INVARIANTS
  DecodedFits
  IgnoresExactly
  SurvivesRoundTrip
CHECK_DEADLOCK FALSE
