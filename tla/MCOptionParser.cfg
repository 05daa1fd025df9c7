CONSTANTS
  Usage <- AllChecks
  Numbers <- SomeNumbers
  CommandLines <- AllCommandLines
  GnuModes = {TRUE, FALSE}
  Limits <- NoLimitOrTwo
  MaxArgs = 3
SPECIFICATION ParserSpec
INVARIANTS
  ParserTypeOK
  ArraysSuffice
  ArgumentsKeepOrder
  ParsedAsMeant
  ListsRight
CHECK_DEADLOCK FALSE
