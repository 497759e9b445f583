SPECIFICATION Spec
CONSTANTS
  DataBits = 2
  Width = 7
  Half = 5
  TypeBits = 1
  Wide = 127
  MaxScale = 3
  MaxInt = 7
  FractionDigits = 3
  MaxSeconds = 11
  Inputs <- MCInputs
  Numerals <- MCNumerals
  Encoded <- MCEncoded
  Spans <- MCSpans
  Instants <- MCInstants
  Masks <- MCMasks
  ByteStrings <- MCByteStrings
  Nanoseconds <- MCNanoseconds
  Days <- MCDays
  Paths <- MCPaths
  BookYears <- MCBookYears
  None = None
INVARIANTS
  StrictReadingInverts
  WireExact
  IntegersExact
  TimesExact
  TextsInvert
CHECK_DEADLOCK FALSE
