SPECIFICATION DocumentSpec
CONSTANTS
  None = None
  Key <- MCKey
  Texts <- MCTexts
  Limits <- MCLimits
  Documents <- MCDocuments
INVARIANTS ScanBounded ScanExact
PROPERTIES Terminates
