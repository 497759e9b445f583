SPECIFICATION ParsingSpec
CONSTANTS
  None = None
  main = main
  lib = lib
  Root = main
  Registries <- AllRegistries
  Sources = {}
  NestingLimits = {3}
  MaxNumber = 536870911
  Withheld <- MCWithheld
  EnumNumbers <- MCEnumNumbers
  FirstOption = 1000
  OptionMessages <- MCOptionMessages
  JsonNames <- MCJsonNames
INVARIANTS InnermostFirst
